-------------------------------- MODULE Serial -------------------------------
(***************************************************************************)
(* The serialisers together.  A program sends a value, or any events it    *)
(* likes, along one of these routes:                                       *)
(*   "direct"  value_to_parser into a parser_to_value                      *)
(*   "binary"  into a value_to_binary; its bytes through binary_to_value   *)
(*             into a parser_to_value                                      *)
(*   "json"    into a to_json; its text through from_json likewise         *)
(*   "text"    the JSON text of a value with a blank in front of it, read  *)
(*   "events"  events in any order into a parser_to_value                  *)
(***************************************************************************)
EXTENDS EventSender, Binary, Json

CONSTANTS
    Documents,  \* the values sent, records of the route and the tree
    MaxEvents   \* how many events are sent in any order

VARIABLES
    route,      \* the route
    doc,        \* the value sent
    todo,       \* events, and values to visit, that are still to come
    units,      \* what value_to_binary has written
    writer,     \* the to_json
    phase,      \* "write", or "read" once the output is read
    reading,    \* how the reader ends: "done", "throws", "hangs", "overrun",
                \* "undefined"
    outcome,    \* "running", or how it ended
    sent        \* the number of events sent on "events"

serialVars == <<route, doc, todo, units, writer, parser, phase, reading, outcome, sent>>

SerialInit ==
    /\ \E d \in Documents :
         /\ route = d.route
         /\ doc = d.tree
         /\ IF route \in {"direct", "binary", "json"}
            THEN todo = <<Visit(doc)>> /\ phase = "write" /\ reading = "done"
            ELSE IF route = "text"
            THEN /\ phase = "read"
                 /\ LET r == FromJson(<<Blank>> \o Rendered(doc), 1)
                    IN todo = r.events /\ reading = (IF r.state = "reads" THEN "done" ELSE r.state)
            ELSE todo = <<>> /\ phase = "write" /\ reading = "done"
    /\ units = <<>>
    /\ writer = NewWriter
    /\ ParserInit
    /\ outcome = "running"
    /\ sent = 0

------------------------------------------------------------------------------

ToValue(e) == ToParser(e) /\ UNCHANGED <<units, writer>>

ToBinary(e) ==
    /\ units' = units \o Written(e)
    /\ UNCHANGED <<writer, parser>>

ToJson(e) ==
    /\ writer' \in Write(writer, e)
    /\ UNCHANGED <<units, parser>>

Deliver(e) ==
    CASE phase = "read" \/ route \in {"direct", "events"} -> ToValue(e)
      [] phase = "write" /\ route = "binary" -> ToBinary(e)
      [] phase = "write" /\ route = "json" -> ToJson(e)

Fate == IF parser'.threw THEN "throws"
        ELSE IF writer'.state # "writes" THEN writer'.state ELSE "running"

(* The next event of value_to_parser or of a reader. *)
NextEvent ==
    /\ outcome = "running" /\ todo # <<>> /\ ~WalkThrows(todo)
    /\ LET now == Unfolded(todo)
       IN Deliver(Head(now)) /\ todo' = Tail(now)
    /\ outcome' = Fate
    /\ UNCHANGED <<route, doc, phase, reading, sent>>

WalkFails ==
    /\ outcome = "running" /\ WalkThrows(todo)
    /\ outcome' = "throws"
    /\ UNCHANGED <<route, doc, todo, units, writer, parser, phase, reading, sent>>

(* The output is complete and read. *)
StartReading ==
    /\ outcome = "running" /\ todo = <<>> /\ phase = "write"
    /\ route \in {"binary", "json"}
    /\ LET r == IF route = "binary" THEN BinaryToValue(units) ELSE FromJson(writer.text, 1)
       IN /\ todo' = r.events
          /\ reading' = IF r.state = "reads" THEN "done" ELSE r.state
    /\ phase' = "read"
    /\ UNCHANGED <<route, doc, units, writer, parser, outcome, sent>>

Finish ==
    /\ outcome = "running" /\ todo = <<>>
    /\ route = "direct" \/ phase = "read"
    /\ outcome' = reading
    /\ UNCHANGED <<route, doc, todo, units, writer, parser, phase, reading, sent>>

(* Any event, after an exception too. *)
SendEvent(e) ==
    /\ outcome \in {"running", "throws"}
    /\ route = "events"
    /\ sent < MaxEvents
    /\ sent' = sent + 1
    /\ ToValue(e)
    /\ outcome' = Fate
    /\ UNCHANGED <<route, doc, todo, phase, reading>>

SerialNext ==
    \/ NextEvent
    \/ WalkFails
    \/ StartReading
    \/ Finish
    \/ \E e \in AnyEvents : SendEvent(e)

SerialSpec == SerialInit /\ [][SerialNext]_serialVars

------------------------------------------------------------------------------

NoChars(t) == \A q \in DOMAIN t : t[q].type # "char"
Named(t) == Empty \notin NamesOf(t)

(* A value sent through its own events comes back as it was, its texts up   *)
(* to their first NUL, or throws: it throws exactly if there is a character *)
(* below the root, or a member with no name.  A lone character that stands  *)
(* for a bool comes back as the character 0 or 1; any other throws.         *)
DirectRoundTrip ==
    route = "direct" /\ (\A name \in NamesOf(doc) : CString(name) = name) =>
        /\ outcome = "done" =>
             /\ Named(doc) /\ (NoChars(doc) \/ TypeOf(doc) = "char")
             /\ parser.root = [q \in DOMAIN doc |-> Cut(CopyOf(doc)[q])]
        /\ outcome = "throws" =>
             ~Named(doc) \/ (~NoChars(doc) /\ (TypeOf(doc) = "char" => Unreadable(doc)))

(* The stream gives the value back without what is void, if every length    *)
(* fits and no name looks like the end of its object; but a string that is  *)
(* the whole value is never read, because the byte behind it is not there.  *)
BinaryRoundTrip ==
    route = "binary" /\ NoChars(doc) /\ Named(doc) /\ FitsBinary(doc) =>
        /\ outcome \in {"running", IF TypeOf(doc) = "string" THEN "overrun" ELSE "done"}
        /\ outcome = "done" => parser.root = KeptByBinary(doc)

(* A text no reader of JSON mistakes for something else. *)
Plain(s) ==
    /\ \A i \in DOMAIN s : s[i] \notin {0, Quote}
    /\ s # <<>> => Head(s) \notin {Hash, Blank}

FitsJson(t) ==
    /\ IsContainer(t[Root])
    /\ NoChars(t) /\ Named(t)
    /\ \A s \in Texts(t) \cup NamesOf(t) : Plain(s)
    /\ \A n \in Sizes(t) : 2 * n <= SizeLimit

(* Commas right behind a colon, which an object whose is_array bit happens  *)
(* to be set puts before its values.                                        *)
WithoutStrayCommas(text) ==
    FlattenSeq([i \in DOMAIN text |->
                  IF text[i] = Comma /\ i > 1 /\ text[i - 1] = Colon
                  THEN <<>> ELSE <<text[i]>>])

(* The text of a value is its JSON text, but for those commas. *)
TextIsRendering ==
    route = "json" /\ phase = "read" /\ FitsJson(doc) =>
        WithoutStrayCommas(writer.text) = Rendered(doc)

HasArray(t) == \E q \in DOMAIN t : t[q].type = "array"

(* from_json reads back what to_json wrote, without the kinds of numbers,   *)
(* if there is no array in it, and never if there is one.                   *)
ReadsBack ==
    route = "json" /\ FitsJson(doc) =>
        /\ outcome = "done" => ~HasArray(doc) /\ parser.root = Collapsed(doc)
        /\ ~HasArray(doc) /\ writer.text = Rendered(doc) =>
             outcome \in {"running", "done"}

(* What to_json writes of a value is its text, and from_json reads as much  *)
(* of it back as it can.                                                    *)
JsonRoundTrip == TextIsRendering /\ ReadsBack

(* json.cpp:161 says of the loop before a value: "Skip whitespace".         *)
BlanksAreSkipped ==
    route = "text" /\ outcome = "done" => parser.root = Collapsed(doc)
==============================================================================
