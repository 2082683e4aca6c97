------------------------------ MODULE JsonLexer ------------------------------
(***************************************************************************)
(* The lexer of the JSON library the program is built with                 *)
(* (dependencies/json), which reads the requests of clients. A text is the *)
(* sequence of its bytes. A token is <<type, value, next>>: what it is     *)
(* worth, and where the text goes on behind it.                            *)
(***************************************************************************)
EXTENDS Integers, Sequences, SequencesExt, FiniteSets, Functions, TLC

eof == 256                         \* no byte: the text is over
get(text, at) == IF at <= Len(text) THEN text[at] ELSE eof
parse_error == <<"parse_error", <<>>, 0>>

Quote == 34
Backslash == 92
Digits == 48..57
Minus == 45
Plus == 43
Point == 46
Exponents == {69, 101}

(***************************************************************************)
(* Strings                                                                 *)
(***************************************************************************)
Hex(c) == CASE c \in Digits -> c - 48
            [] c \in 65..70 -> c - 55
            [] c \in 97..102 -> c - 87
            [] OTHER -> -1
\* The number behind \u, or -1.
get_codepoint(text, at) ==
    LET digit == [i \in 0..3 |-> Hex(get(text, at + i))]
    IN  IF -1 \in {digit[i] : i \in 0..3} THEN -1
        ELSE 4096 * digit[0] + 256 * digit[1] + 16 * digit[2] + digit[3]

HighSurrogates == 55296..56319
LowSurrogates == 56320..57343

Escapes == (34 :> 34) @@ (92 :> 92) @@ (47 :> 47) @@ (98 :> 8) @@ (102 :> 12) @@ (110 :> 10)
               @@ (114 :> 13) @@ (116 :> 9)

Bytes(codepoint) ==
    LET Rest(shift) == 128 + ((codepoint \div shift) % 64)
    IN  CASE codepoint < 128 -> <<codepoint>>
          [] codepoint \in 128..2047 -> <<192 + codepoint \div 64, Rest(1)>>
          [] codepoint \in 2048..65535 -> <<224 + codepoint \div 4096, Rest(64), Rest(1)>>
          [] OTHER -> <<240 + codepoint \div 262144, Rest(4096), Rest(64), Rest(1)>>

\* Fault: surrogates are not paired.
UnicodeEscapeUnpaired(text, at) == <<Bytes(get_codepoint(text, at)), 4>>
\* What \u and the text behind it at "at" say: the bytes, and how long it is.
UnicodeEscape(text, at) ==
    LET first == get_codepoint(text, at)
        paired == get(text, at + 4) = Backslash /\ get(text, at + 5) = 117
        second == IF paired THEN get_codepoint(text, at + 6) ELSE -1
    IN  CASE first = -1 \/ first \in LowSurrogates -> <<>>
          [] first \in HighSurrogates ->
                 IF second \in LowSurrogates
                 THEN <<Bytes(65536 + 1024 * (first - 55296) + second - 56320), 10>>
                 ELSE <<>>
          [] OTHER -> <<Bytes(first), 4>>

ControlCharacters == 0..31
PlainCharacters == (32..127) \ {Quote, Backslash}

\* next_byte_in_range(): the ranges of the bytes that must follow a first one.
FollowingRanges(first) ==
    LET any == 128..191
    IN  CASE first \in 194..223 -> <<any>>
          [] first = 224 -> <<160..191, any>>
          [] first \in (225..236) \cup {238, 239} -> <<any, any>>
          [] first = 237 -> <<128..159, any>>
          [] first = 240 -> <<144..191, any, any>>
          [] first \in 241..243 -> <<any, any, any>>
          [] first = 244 -> <<128..143, any, any>>
          [] OTHER -> <<>>
next_byte_in_range(text, at, ranges) ==
    ranges # <<>> /\ \A i \in DOMAIN ranges : get(text, at + i) \in ranges[i]

RECURSIVE scan_string(_, _, _)
scan_string(text, at, token_buffer) ==
    LET c == get(text, at)
        follow == FollowingRanges(c)
        escape == get(text, at + 1)
        unicode == UnicodeEscape(text, at + 2)
    IN  CASE c = eof \/ c \in ControlCharacters -> parse_error
          [] c = Quote -> <<"string", token_buffer, at + 1>>
          [] c = Backslash ->
                 IF escape = 117
                 THEN IF unicode = <<>> THEN parse_error
                      ELSE scan_string(text, at + 2 + unicode[2], token_buffer \o unicode[1])
                 ELSE IF escape \in DOMAIN Escapes
                      THEN scan_string(text, at + 2, Append(token_buffer, Escapes[escape]))
                      ELSE parse_error
          [] c \in PlainCharacters -> scan_string(text, at + 1, Append(token_buffer, c))
          [] OTHER ->
                 IF next_byte_in_range(text, at, follow)
                 THEN scan_string(text, at + 1 + Len(follow),
                                  token_buffer \o SubSeq(text, at, at + Len(follow)))
                 ELSE parse_error

(***************************************************************************)
(* Numbers: the states between the bytes of one.                           *)
(***************************************************************************)
WholePart(state, c) ==
    CASE state \in {"init", "minus"} /\ c = 48 -> "zero"
      [] state \in {"init", "minus"} /\ c \in 49..57 -> "any1"
      [] state = "init" /\ c = Minus -> "minus"
      [] state = "any1" /\ c \in Digits -> "any1"
      [] state \in {"zero", "any1"} /\ c = Point -> "decimal1"
      [] state \in {"zero", "any1"} /\ c \in Exponents -> "exponent"
      [] OTHER -> IF state \in {"zero", "any1"} THEN "done" ELSE "error"
Fraction(state, c) ==
    CASE c \in Digits -> "decimal2"
      [] state = "decimal2" /\ c \in Exponents -> "exponent"
      [] OTHER -> IF state = "decimal2" THEN "done" ELSE "error"
ExponentPart(state, c) ==
    CASE c \in Digits -> "any2"
      [] state = "exponent" /\ c \in {Plus, Minus} -> "sign"
      [] OTHER -> IF state = "any2" THEN "done" ELSE "error"
NumberState(state, c) ==
    CASE state \in {"decimal1", "decimal2"} -> Fraction(state, c)
      [] state \in {"exponent", "sign", "any2"} -> ExponentPart(state, c)
      [] OTHER -> WholePart(state, c)

\* strtoull() and strtoll(): whether 64 bits are enough for the digits.
MaxUnsigned == <<49,56,52,52,54,55,52,52,48,55,51,55,48,57,53,53,49,54,49,53>>
MinInteger == <<57,50,50,51,51,55,50,48,51,54,56,53,52,55,55,53,56,48,56>>
AtMost(digits, limit) ==
    \/ Len(digits) < Len(limit)
    \/ Len(digits) = Len(limit)
           /\ LET i == SelectInSeq([j \in DOMAIN limit |-> <<digits[j], limit[j]>>],
                                   LAMBDA p : p[1] # p[2])
              IN  i = 0 \/ digits[i] < limit[i]

\* What a number is that ends in a state other than "error".
NumberToken(buffer, number_type, next) ==
    CASE number_type = "unsigned" /\ AtMost(buffer, MaxUnsigned) -> <<"unsigned", buffer, next>>
      [] number_type = "integer" /\ AtMost(Tail(buffer), MinInteger) ->
             <<"integer", IF buffer = <<Minus, 48>> THEN <<48>> ELSE buffer, next>>
      [] OTHER -> <<"float", buffer, next>>

RECURSIVE RunNumber(_, _, _, _, _)
RunNumber(text, start, at, state, number_type) ==
    LET goes == NumberState(state, get(text, at))
        type == CASE goes = "minus" -> "integer"
                  [] goes \in {"decimal1", "exponent"} -> "float"
                  [] OTHER -> number_type
    IN  CASE goes = "error" -> parse_error
          [] goes = "done" -> NumberToken(SubSeq(text, start, at - 1), number_type, at)
          [] OTHER -> RunNumber(text, start, at + 1, goes, type)
scan_number(text, at) == RunNumber(text, at, at, "init", "unsigned")

(***************************************************************************)
(* Tokens                                                                  *)
(***************************************************************************)
Literals == (116 :> <<"true", <<116, 114, 117, 101>>>>)
                @@ (102 :> <<"false", <<102, 97, 108, 115, 101>>>>)
                @@ (110 :> <<"null", <<110, 117, 108, 108>>>>)
scan_literal(text, at, literal) ==
    IF SubSeq(text, at, at + Len(literal[2]) - 1) = literal[2]
    THEN <<literal[1], <<>>, at + Len(literal[2])>> ELSE parse_error

Structural == (91 :> "begin_array") @@ (93 :> "end_array") @@ (123 :> "begin_object")
                  @@ (125 :> "end_object") @@ (58 :> "name_separator")
                  @@ (44 :> "value_separator")

Whitespace == {32, 9, 10, 13}
RECURSIVE skip_whitespace(_, _)
skip_whitespace(text, at) ==
    IF get(text, at) \in Whitespace THEN skip_whitespace(text, at + 1) ELSE at

\* Where the text begins, 0 if the byte order mark is only begun.
Bom == <<239, 187, 191>>
skip_bom(text) ==
    IF get(text, 1) # Bom[1] THEN 1 ELSE IF IsPrefix(Bom, text) THEN 4 ELSE 0

TokenAt(text, at, c) ==
    CASE c \in DOMAIN Structural -> <<Structural[c], <<>>, at + 1>>
      [] c \in DOMAIN Literals -> scan_literal(text, at, Literals[c])
      [] c = Quote -> scan_string(text, at + 1, <<>>)
      [] c \in Digits \cup {Minus} -> scan_number(text, at)
      [] c \in {0, eof} -> <<"end_of_input", <<>>, at + 1>>
      [] OTHER -> parse_error
TokenFrom(text, from) ==
    LET at == skip_whitespace(text, from)
    IN  IF from = 0 THEN parse_error ELSE TokenAt(text, at, get(text, at))
\* The first token is scanned from 0, where the byte order mark is skipped.
scan(text, from) == TokenFrom(text, IF from = 0 THEN skip_bom(text) ELSE from)
=============================================================================
