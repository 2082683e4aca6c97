------------------------------ MODULE JsonParser ------------------------------
(***************************************************************************)
(* The parser of the JSON library: a loop over tokens with a stack of what *)
(* is open, which tells a builder what it meets; the builder keeps, for    *)
(* each thing that is open, where it is in the value that is built.        *)
(*                                                                         *)
(* A value is <<type, content>>: an array's content is the sequence of its *)
(* elements, an object's a function of its keys. Pointers into the value   *)
(* are paths.                                                              *)
(***************************************************************************)
EXTENDS JsonLexer

Null == <<"null", <<>>>>
NotJson == <<"not JSON", <<>>>>      \* an exception, which HandleRequest() catches
EmptyObject == <<"object", <<>>>>
EmptyArray == <<"array", <<>>>>
Content(value) == value[2]

\* std::map's: sets a key that may be there already.
Insert(object, key, value) == <<"object", (key :> value) @@ Content(object)>>

(***************************************************************************)
(* json_sax_dom_parser                                                     *)
(***************************************************************************)
RECURSIVE Store(_, _, _)
Store(root, path, value) ==
    IF path = <<>> THEN value
    ELSE LET inner == Store(Content(root)[Head(path)], Tail(path), value)
         IN  <<root[1], [Content(root) EXCEPT ![Head(path)] = inner]>>
RECURSIVE Fetch(_, _)
Fetch(root, path) == IF path = <<>> THEN root ELSE Fetch(Content(root)[Head(path)], Tail(path))

NewBuilder == [root |-> Null, ref_stack |-> <<>>, object_element |-> <<>>]
Back(builder) == Last(builder.ref_stack)

\* The builder with the value stored, and where it is.
handle_value(builder, value) ==
    LET container == Fetch(builder.root, Back(builder))
        index == Len(Content(container)) + 1
    IN  IF builder.ref_stack = <<>> THEN <<[builder EXCEPT !.root = value], <<>>>>
        ELSE IF container[1] = "array"
             THEN <<[builder EXCEPT !.root =
                        Store(@, Back(builder), <<"array", Append(Content(container), value)>>)],
                    Append(Back(builder), index)>>
             ELSE <<[builder EXCEPT !.root = Store(@, builder.object_element, value)],
                    builder.object_element>>

start(builder, empty) ==
    LET stored == handle_value(builder, empty)
    IN  [stored[1] EXCEPT !.ref_stack = Append(@, stored[2])]
end(builder) == [builder EXCEPT !.ref_stack = Front(@)]
\* operator[] adds a null under a new key and leaves the value of an old one.
key(builder, k) ==
    LET object == Fetch(builder.root, Back(builder))
        old == k \in DOMAIN Content(object)
    IN  [builder EXCEPT !.object_element = Append(Back(builder), k),
            !.root = IF old THEN @ ELSE Store(@, Back(builder), Insert(object, k, Null))]

(***************************************************************************)
(* parser                                                                  *)
(***************************************************************************)
\* Whether a number is too large for a double: 1.797693134862315807...e308 and above are.
Infinity == <<49,55,57,55,54,57,51,49,51,52,56,54,50,51,49,53,56,48,55,57,51,55>>
RECURSIVE Natural(_)
Natural(digits) == IF digits = <<>> THEN 0 ELSE 10 * Natural(Front(digits)) + Last(digits) - 48
IsFinite(number) ==
    LET e == SelectInSeq(Append(number, 101), LAMBDA c : c \in Exponents)
        mantissa == SelectSeq(SubSeq(number, 1, e - 1), LAMBDA c : c # Minus)
        power == SubSeq(number, e + 1, Len(number))
        exponent == LET n == Natural(SelectSeq(power, LAMBDA c : c \in Digits))
                    IN  IF Minus \in Range(power) THEN -n ELSE n
        point == SelectInSeq(Append(mantissa, Point), LAMBDA c : c = Point)
        digits == SelectSeq(mantissa, LAMBDA c : c \in Digits)
        first == SelectInSeq(digits, LAMBDA c : c # 48)
        leading == SubSeq(digits, first, Len(digits))
        padded == [i \in DOMAIN Infinity |-> IF i \in DOMAIN leading THEN leading[i] ELSE 48]
        magnitude == point - 1 - first + exponent
    IN  \/ first = 0 \/ magnitude < 308
        \/ magnitude = 308 /\ padded # Infinity /\ AtMost(padded, Infinity)

Scalar(token) ==
    CASE token[1] \in {"true", "false"} -> <<"boolean", token[1]>>
      [] token[1] = "null" -> Null
      [] OTHER -> <<token[1], token[2]>>
IsScalar(token) ==
    \/ token[1] \in {"true", "false", "null", "string", "unsigned", "integer"}
    \/ token[1] = "float" /\ IsFinite(token[2])

\* What get_token() returns one after the other: the lexer knows nothing of the parser.
RECURSIVE get_tokens(_, _)
get_tokens(text, token) ==
    <<token>> \o IF token[1] \in {"parse_error", "end_of_input"} THEN <<>>
                 ELSE get_tokens(text, scan(text, token[3]))

RECURSIVE ParseValue(_, _, _), ParseKey(_, _, _), AfterValue(_, _, _)
\* The loop: the first of the tokens begins a value; states says what is open, TRUE for an array.
ParseValue(tokens, builder, states) ==
    LET last_token == Head(tokens)
        rest == Tail(tokens)
        object == start(builder, EmptyObject)
        array == start(builder, EmptyArray)
    IN  CASE last_token[1] = "begin_object" ->
                 IF Head(rest)[1] = "end_object" THEN AfterValue(Tail(rest), end(object), states)
                 ELSE ParseKey(rest, object, Append(states, FALSE))
          [] last_token[1] = "begin_array" ->
                 IF Head(rest)[1] = "end_array" THEN AfterValue(Tail(rest), end(array), states)
                 ELSE ParseValue(rest, array, Append(states, TRUE))
          [] IsScalar(last_token) ->
                 AfterValue(rest, handle_value(builder, Scalar(last_token))[1], states)
          [] OTHER -> NotJson

\* A key, the colon behind it and the value behind that.
ParseKey(tokens, builder, states) ==
    IF tokens[1][1] = "string" /\ tokens[2][1] = "name_separator"
    THEN ParseValue(Tail(Tail(tokens)), key(builder, tokens[1][2]), states) ELSE NotJson

\* A value is complete; what is behind the outermost one must be the end (strict).
AfterValue(tokens, builder, states) ==
    LET next == Head(tokens)[1]
        rest == Tail(tokens)
    IN  CASE states = <<>> -> IF next = "end_of_input" THEN builder.root ELSE NotJson
          [] states # <<>> /\ next = "value_separator" ->
                 IF Last(states) THEN ParseValue(rest, builder, states)
                 ELSE ParseKey(rest, builder, states)
          [] states # <<>> /\ next = (IF Last(states) THEN "end_array" ELSE "end_object") ->
                 AfterValue(rest, end(builder), Front(states))
          [] OTHER -> NotJson

parse(text) == ParseValue(get_tokens(text, scan(text, 0)), NewBuilder, <<>>)
=============================================================================
