-------------------------------- MODULE Json --------------------------------
(***************************************************************************)
(* What clients and the program write to each other, and the way of a      *)
(* setting from a client's request to the settings, which are TOML, and    *)
(* back (src/src/settings/JsonToTomlConverter.cpp, src/src/main.cpp).      *)
(***************************************************************************)
EXTENDS JsonSerializer

(***************************************************************************)
(* Requests                                                                *)
(***************************************************************************)
Text == [value |-> <<118>>, settings |-> <<115>>]

\* An exception when there is no such key, or no object.
at(json, k) ==
    IF json[1] = "object" THEN IF k \in DOMAIN Content(json) THEN Content(json)[k] ELSE NotJson
    ELSE NotJson

\* static_cast<int64_t> of a number of 64 bits without a sign: 2^64 is taken from a large one.
Power64 == <<49,56,52,52,54,55,52,52,48,55,51,55,48,57,53,53,49,54,49,54>>
RECURSIVE Less(_, _, _)
Less(larger, smaller, borrow) ==
    LET digits == <<48>> \o smaller
        d == Last(larger) - Last(digits) - borrow
        rest == IF smaller = <<>> THEN <<>> ELSE Front(smaller)
    IN  IF larger = <<>> THEN <<>>
        ELSE Append(Less(Front(larger), rest, IF d < 0 THEN 1 ELSE 0),
                    48 + ((d + 10) % 10))
WithoutZeros(digits) ==
    LET first == SelectInSeq(digits, LAMBDA c : c # 48) IN SubSeq(digits, first, Len(digits))
MaxInteger == <<57,50,50,51,51,55,50,48,51,54,56,53,52,55,55,53,56,48,55>>
Int64(number) ==
    IF number[1] = "unsigned" /\ ~AtMost(Content(number), MaxInteger)
    THEN <<"integer", <<Minus>> \o WithoutZeros(Less(Power64, Content(number), 0))>>
    ELSE <<"integer", Content(number)>>

RECURSIVE ToToml(_), FromToml(_)
JsonArrayToToml(json) ==
    LET kept == SelectSeq(Content(json), LAMBDA v : v # Null)
    IN  <<"array", [i \in DOMAIN kept |-> ToToml(kept[i])]>>
JsonObjectToToml(json) ==
    <<"table", [k \in {k \in DOMAIN Content(json) : Content(json)[k] # Null} |->
                   ToToml(Content(json)[k])]>>
\* HandleSaveSettingRequest(), for which a null is no value either, treats each type alike.
ToToml(json) ==
    CASE json[1] = "array" -> JsonArrayToToml(json)
      [] json[1] = "object" -> JsonObjectToToml(json)
      [] json[1] \in {"unsigned", "integer"} -> Int64(json)
      [] OTHER -> json

TomlTableToJson(toml) == <<"object", [k \in DOMAIN Content(toml) |-> FromToml(Content(toml)[k])]>>
TomlArrayToJson(toml) == <<"array", [i \in DOMAIN Content(toml) |-> FromToml(Content(toml)[i])]>>
FromToml(toml) ==
    CASE toml[1] = "table" -> TomlTableToJson(toml)
      [] toml[1] = "array" -> TomlArrayToJson(toml)
      [] OTHER -> toml

\* SetSetting, and what GetSetting answers then; NotJson stands for the empty reply to a request
\* that cannot be read.
Reply(request) ==
    LET Answer(value) ==
            IF value = NotJson THEN NotJson
            ELSE dump(<<"object", Text.settings :>
                            (IF value = Null THEN Null ELSE FromToml(ToToml(value)))>>,
                      FALSE, FALSE, 0, 0)
    IN  Answer(at(parse(request), Text.value))

(***************************************************************************)
(* What a text means: the grammar, over the tokens of a text.              *)
(***************************************************************************)
A == <<"string", <<97>>>>
E == <<"string", <<195, 169>>>>
One == <<"unsigned", <<49>>>>
True == <<"boolean", "true">>
Tokens ==
    [mark : {"[", "]", "{", "}", ",", ":"}] \cup [scalar : {A, True, Null}]
Mark(m) == [mark |-> m]
Is(t, m) == "mark" \in DOMAIN t /\ t.mark = m
MarkByte == [m \in {"[", "]", "{", "}", ",", ":"} |->
                CASE m = "[" -> 91 [] m = "]" -> 93 [] m = "{" -> 123 [] m = "}" -> 125
                  [] m = "," -> 44 [] OTHER -> 58]
Spelled(t) == IF "mark" \in DOMAIN t THEN <<MarkByte[t.mark]>> ELSE DumpScalar(t.scalar, FALSE)

Inner(s) == SubSeq(s, 2, Len(s) - 1)
Enclosed(s, open, close) == Len(s) > 1 /\ Is(s[1], open) /\ Is(Last(s), close)
Commas(s) == {i \in DOMAIN s : Is(s[i], ",")}
From(s, i) == SubSeq(s, i, Len(s))

\* The values a sentence denotes: one if it is in the grammar, else none.
RECURSIVE Denoted(_), Elements(_), Members(_)
Denoted(s) ==
    {t.scalar : t \in {s[i] : i \in {j \in DOMAIN s : Len(s) = 1 /\ "scalar" \in DOMAIN s[j]}}}
        \cup (IF Enclosed(s, "[", "]")
              THEN {<<"array", e>> : e \in IF Len(s) = 2 THEN {<<>>} ELSE Elements(Inner(s))}
              ELSE {})
        \cup (IF Enclosed(s, "{", "}")
              THEN {<<"object", m>> : m \in IF Len(s) = 2 THEN {<<>>} ELSE Members(Inner(s))}
              ELSE {})
Elements(s) ==
    {<<v>> : v \in Denoted(s)}
        \cup UNION {{<<v>> \o e : v \in Denoted(SubSeq(s, 1, i - 1)), e \in Elements(From(s, i + 1))}
                       : i \in Commas(s)}
\* Of members with one key the last one counts.
Member(s) ==
    IF Len(s) > 2 /\ s[1] \in {[scalar |-> A], [scalar |-> E]} /\ Is(s[2], ":")
    THEN {Content(s[1].scalar) :> v : v \in Denoted(From(s, 3))} ELSE {}
Members(s) ==
    Member(s) \cup UNION {{m @@ f : f \in Member(SubSeq(s, 1, i - 1)), m \in Members(From(s, i + 1))}
                             : i \in Commas(s)}

(***************************************************************************)
(* Characters: UTF-8 by what its bytes stand for, \u by pairs of halves.   *)
(***************************************************************************)
Length(first) ==
    CASE first < 128 -> 1 [] first \in 192..223 -> 2 [] first \in 224..239 -> 3
      [] first \in 240..247 -> 4 [] OTHER -> 0
Shortest == <<0, 128, 2048, 65536>>
RECURSIVE IsUtf8(_)
IsUtf8(s) ==
    LET n == Length(s[1])
        Part(i) == IF i = 1 THEN s[1] % (IF n = 1 THEN 128 ELSE 2^(7 - n)) ELSE s[i] % 64
        codepoint == FoldLeft(LAMBDA c, i : 64 * c + Part(i), 0, [i \in 1..n |-> i])
    IN  \/ s = <<>>
        \/ /\ n > 0 /\ n <= Len(s) /\ \A i \in 2..n : s[i] \in 128..191
           /\ codepoint >= Shortest[n] /\ codepoint <= 1114111
           /\ codepoint \notin HighSurrogates \cup LowSurrogates
           /\ IsUtf8(SubSeq(s, n + 1, Len(s)))

\* Pieces of strings, and the halves of UTF-16 they stand for; none if they are wrong.
U(a, b, c, d) == <<Backslash, 117, a, b, c, d>>
Pieces ==
    {<<<<122>>, <<122>>>>, <<<<195, 169>>, <<233>>>>, <<<<240, 159, 142, 167>>, <<55356, 57255>>>>,
     <<<<Backslash, 110>>, <<10>>>>, <<<<Backslash, Quote>>, <<Quote>>>>, <<<<Backslash, 122>>, <<>>>>,
     <<U(48, 48, 48, 48), <<0>>>>, <<U(48, 48, 101, 57), <<233>>>>, <<U(50, 48, 65, 67), <<8364>>>>,
     <<U(68, 56, 51, 67), <<55356>>>>, <<U(100, 98, 70, 70), <<56319>>>>,
     <<U(100, 67, 48, 48), <<56320>>>>, <<U(68, 70, 65, 55), <<57255>>>>,
     <<U(102, 102, 102, 102), <<65535>>>>, <<SubSeq(U(100, 56, 51, 122), 1, 5), <<>>>>, <<<<10>>, <<>>>>}
\* The bytes of halves that are all paired, or Throws.
RECURSIVE Paired(_)
Paired(halves) ==
    LET h == Head(halves)
        pair == Len(halves) > 1 /\ halves[2] \in LowSurrogates
        After(n) == Paired(SubSeq(halves, n + 1, Len(halves)))
        And(codepoint, rest) == IF rest = Throws THEN Throws ELSE Bytes(codepoint) \o rest
    IN  CASE halves = <<>> -> <<>>
          [] halves # <<>> /\ h \in HighSurrogates ->
                 IF pair THEN And((h - 55296) * 1024 + (halves[2] - 56320) + 65536, After(2))
                 ELSE Throws
          [] halves # <<>> /\ h \in LowSurrogates -> Throws
          [] OTHER -> And(h, After(1))

(***************************************************************************)
(* Numbers                                                                 *)
(***************************************************************************)
AllDigits(s) == s # <<>> /\ Range(s) \subseteq Digits
IsWhole(s) == AllDigits(s) /\ (Len(s) > 1 => s[1] # 48)
IsExponent(s) ==
    s = <<>> \/ (s[1] \in Exponents
                    /\ (AllDigits(Tail(s)) \/ (Len(s) > 1 /\ s[2] \in {Plus, Minus} /\ AllDigits(From(s, 3)))))
IsFraction(s) == s = <<>> \/ (s[1] = Point /\ AllDigits(Tail(s)))
IsNumber(s) ==
    LET n == IF s # <<>> /\ s[1] = Minus THEN Tail(s) ELSE s
    IN  \E i \in 1..Len(n) : \E j \in i..Len(n) :
            IsWhole(SubSeq(n, 1, i)) /\ IsFraction(SubSeq(n, i + 1, j)) /\ IsExponent(From(n, j + 1))
Kind(s) ==
    IF \E i \in DOMAIN s : s[i] \in Exponents \cup {Point} THEN "float"
    ELSE IF s[1] = Minus THEN "integer" ELSE "unsigned"

Ones(n) == [i \in 1..n |-> 49]
Zeros(n) == [i \in 1..n |-> 48]
Power(digits) == <<101>> \o digits
\* Numbers at the ends of 64 bits and of a double, and what they are read as.
Extremes ==
    {<<MaxUnsigned, "unsigned">>, <<[MaxUnsigned EXCEPT ![20] = 54], "float">>,
     <<<<Minus>> \o MinInteger, "integer">>, <<<<Minus>> \o [MinInteger EXCEPT ![19] = 57], "float">>,
     <<<<49>> \o Power(<<51, 48, 56>>), "float">>, <<<<50>> \o Power(<<51, 48, 56>>), "not JSON">>,
     <<<<49>> \o Power(<<51, 48, 57>>), "not JSON">>, <<<<48, Point, 49>> \o Power(<<51, 48, 57>>), "float">>,
     <<<<Minus, 57, Point, 57>> \o Power(<<57, 57, 57>>), "not JSON">>,
     <<<<48>> \o Power(<<57, 57, 57>>), "float">>, <<<<49>> \o Power(<<Minus, 57, 57, 57>>), "float">>,
     <<Ones(309), "float">>, <<Ones(310), "not JSON">>, <<<<49, Point>> \o Zeros(320), "float">>,
     <<<<48, Point>> \o Zeros(320) \o Ones(3) \o Power(<<54, 50, 48>>), "float">>}

(***************************************************************************)
(* The texts that are looked at.                                           *)
(***************************************************************************)
Edges == {97, 127, 128, 143, 144, 159, 160, 191, 192, 193, 194, 223, 224, 225, 236, 237, 239, 240,
          241, 243, 244, 245, 255}
Strings == UNION {[1..n -> Edges] : n \in 0..2}
             \cup {<<a, b, c>> : a \in {97, 195} \cup (224..255 \cap Edges), b, c \in Edges}
             \cup {<<a, b, c, d>> : a \in {240, 241, 244}, b \in Edges, c, d \in {127, 128, 191, 192}}
Bodies == UNION {[1..n -> Pieces] : n \in 0..3}
Numbers == UNION {[1..n -> {48, 49, Plus, Minus, Point, 101}] : n \in 1..5}
Sentences == UNION {[1..n -> Tokens] : n \in 1..4}

Big == <<"unsigned", MaxUnsigned>>
Scalars ==
    {Null, A, E, One, Big, <<"integer", <<Minus, 53>>>>, <<"integer", <<Minus>> \o MinInteger>>,
     <<"unsigned", [Power64 EXCEPT ![20] = 48]>>, <<"unsigned", MinInteger>>,
     <<"unsigned", MaxInteger>>, True, <<"string", <<0, 31, 127, 34, 92>>>>}
Few == {Null, A, Big}
ObjectsOf(s, keys) == {<<"object", f>> : f \in UNION {[d -> s] : d \in SUBSET keys}}
ArraysOf(s, n) == {<<"array", q>> : q \in UNION {[1..m -> s] : m \in 0..n}}
KeySet == {<<97>>, <<97, 98>>, <<195, 169>>}
Inside == ArraysOf(Few, 1) \cup ObjectsOf(Few, {<<97>>}) \cup {Null, One}
Values == Scalars \cup ArraysOf(Scalars, 2) \cup ObjectsOf(Few, KeySet)
            \cup ArraysOf(Inside, 2) \cup ObjectsOf(Inside, {<<97, 98>>, <<97>>})

\* A sentence that means something, with one token of it replaced, taken out or doubled.
RECURSIVE Sentence(_)
Sentence(v) ==
    LET Comma(parts) ==
            IF parts = <<>> THEN <<>>
            ELSE Tail(FlattenSeq([i \in DOMAIN parts |-> <<Mark(",")>> \o parts[i]]))
        keys == Keys(v)
    IN  CASE v[1] = "array" ->
                 <<Mark("[")>> \o Comma([i \in DOMAIN Content(v) |-> Sentence(Content(v)[i])])
                     \o <<Mark("]")>>
          [] v[1] = "object" ->
                 <<Mark("{")>>
                     \o Comma([i \in DOMAIN keys |->
                                  <<[scalar |-> <<"string", keys[i]>>], Mark(":")>>
                                      \o Sentence(Content(v)[keys[i]])])
                     \o <<Mark("}")>>
          [] OTHER -> <<[scalar |-> v]>>
Samples ==
    {<<"array", <<<<"object", (<<97>> :> <<"array", <<One, Null>>>>)>>, One>>>>,
     <<"object", (<<97>> :> <<"object", (<<97>> :> EmptyArray)>>) @@ (<<195, 169>> :> One)>>}
Edited(v, i, t, how) ==
    LET s == Sentence(v)
        new == IF how = "out" THEN <<>> ELSE IF how = "instead" THEN <<t>> ELSE <<t, s[i]>>
    IN  SubSeq(s, 1, i - 1) \o new \o From(s, i + 1)
Edits == {Edited(v, i, t, how) : v \in Samples, i \in 1..13, t \in Tokens, how \in {"out", "instead", "before"}}

Surroundings ==
    {<<<<>>, <<>>, <<>>>>, <<Bom, <<32>>, <<10>>>>, <<<<9>>, <<13>>, <<0, 93>>>>,
     <<<<239, 187>>, <<>>, <<>>>>, <<<<>>, <<>>, <<32, 58>>>>}

Inputs ==
    [kind : {"bytes"}, bytes : Strings] \cup [kind : {"string"}, pieces : Bodies]
        \cup [kind : {"number"}, bytes : Numbers] \cup [kind : {"extreme"}, of : Extremes]
        \cup [kind : {"sentence"}, tokens : Sentences, around : {<<<<>>, <<>>, <<>>>>}]
        \cup [kind : {"sentence"}, tokens : Edits, around : Surroundings]
        \cup [kind : {"value"}, value : Values]

String(bytes) == <<Quote>> \o bytes \o <<Quote>>
\* The text of a sentence with something before, between and behind its tokens.
Spell(input) ==
    input.around[1] \o FlattenSeq([i \in DOMAIN input.tokens |->
                                      Spelled(input.tokens[i]) \o input.around[2]]) \o input.around[3]
Readable(around) == around[1] # SubSeq(Bom, 1, 2) /\ around[3] # <<32, 58>>

\* What a setting is when it comes back.
RECURSIVE Kept(_)
Kept(v) ==
    CASE v[1] = "array" ->
             LET rest == SelectSeq(Content(v), LAMBDA x : x # Null)
             IN  <<"array", [i \in DOMAIN rest |-> Kept(rest[i])]>>
      [] v[1] = "object" ->
             <<"object", [k \in {k \in DOMAIN Content(v) : Content(v)[k] # Null} |->
                             Kept(Content(v)[k])]>>
      [] v = Big -> <<"integer", <<Minus, 49>>>>
      [] v = <<"unsigned", [Power64 EXCEPT ![20] = 48]>> -> <<"integer", <<Minus, 54>>>>
      [] v = <<"unsigned", MinInteger>> -> <<"integer", <<Minus>> \o MinInteger>>
      [] OTHER -> v

WritesString(s, isUtf8, written) == IF isUtf8 THEN parse(written) = s ELSE written = Throws
WritesEscaped(ascii, written) ==
    /\ ascii => Range(written) \subseteq 0..127
    /\ parse(String(written)) # NotJson

Modes == [ascii : BOOLEAN, handler : {"ignore", "replace"}]

\* A text is taken for what the grammar says, and refused if it is not in it: the halves of a
\* character come in pairs and in order, bytes are characters of UTF-8 in their shortest form, a
\* number is one of 64 bits or a double that is finite, brackets match however deep, and of keys
\* that are the same the last one counts. Nothing may be behind a text but white space, or a 0,
\* where it ends. What can be read can be written: the check of UTF-8 on the way out, which is
\* another one, never throws for it, and what is written, plain or pretty, means the same. A string
\* that is not UTF-8 throws on the way out, and is never written as something else unless that is
\* asked for. A setting comes back as it was sent but for nulls, which are lost, and whole numbers
\* of 2^63 and more, which come back negative.
JsonTrue(input) ==
    CASE input.kind = "bytes" ->
             LET s == <<"string", input.bytes>> IN
             /\ parse(String(input.bytes)) = IF IsUtf8(input.bytes) THEN s ELSE NotJson
             /\ \A ascii \in BOOLEAN :
                    WritesString(s, IsUtf8(input.bytes), dump(s, FALSE, ascii, 0, 0))
             /\ \A m \in Modes :
                    WritesEscaped(m.ascii, dump_escaped(input.bytes, m.ascii, m.handler))
      [] input.kind = "string" ->
             LET body == FlattenSeq([i \in DOMAIN input.pieces |-> input.pieces[i][1]])
                 halves == FlattenSeq([i \in DOMAIN input.pieces |-> input.pieces[i][2]])
                 right == \A i \in DOMAIN input.pieces : input.pieces[i][2] # <<>>
                 bytes == Paired(halves)
             IN  parse(String(body)) =
                     IF right /\ bytes # Throws THEN <<"string", bytes>> ELSE NotJson
      [] input.kind = "number" ->
             parse(input.bytes)[1] =
                 IF IsNumber(input.bytes) THEN Kind(input.bytes) ELSE "not JSON"
      [] input.kind = "extreme" -> parse(input.of[1])[1] = input.of[2]
      [] input.kind = "sentence" ->
             LET Means(read, meaning) ==
                     IF Readable(input.around) /\ meaning # {} THEN read \in meaning
                     ELSE read = NotJson
             IN  Means(parse(Spell(input)), Denoted(input.tokens))
      [] OTHER ->
             LET v == input.value
                 request == dump(<<"object", Text.value :> v>>, FALSE, FALSE, 0, 0)
             IN  /\ \A pretty, ascii \in BOOLEAN : parse(dump(v, pretty, ascii, 2, 0)) = v
                 /\ at(parse(Reply(request)), Text.settings)
                        = parse(dump(Kept(v), FALSE, FALSE, 0, 0))
=============================================================================
