--------------------------- MODULE JsonSerializer ---------------------------
(***************************************************************************)
(* The serializer of the JSON library, which writes what the program tells *)
(* its clients. A number is its digits already; numbers that are not whole *)
(* are not written here. The buffer the library fills and empties is one   *)
(* with what it has written.                                               *)
(***************************************************************************)
EXTENDS JsonParser

Throws == <<-1>>                   \* instead of a text

(***************************************************************************)
(* decode(): the automaton that checks UTF-8                               *)
(***************************************************************************)
UTF8_ACCEPT == 0
UTF8_REJECT == 1
Utf8Type ==
    [b \in 0..255 |->
        CASE b \in 0..127 -> 0
          [] b \in 128..143 -> 1
          [] b \in 144..159 -> 9
          [] b \in 160..191 -> 7
          [] b \in 194..223 -> 2
          [] b = 224 -> 10
          [] b \in (225..236) \cup {238, 239} -> 3
          [] b = 237 -> 4
          [] b = 240 -> 11
          [] b \in 241..243 -> 6
          [] b = 244 -> 5
          [] OTHER -> 8]
\* Of states 2 to 8: the types that lead on, and where to.
Utf8Goes ==
    <<<<{}, 1>>, <<{1, 7, 9}, 0>>, <<{1, 7, 9}, 2>>, <<{7}, 2>>, <<{1, 9}, 2>>, <<{7, 9}, 3>>,
      <<{1, 7, 9}, 3>>, <<{1}, 3>>>>
Utf8First == <<0, 1, 2, 3, 5, 8, 7, 1, 1, 1, 4, 6>>

\* The new state, and the code point as far as it is known.
decode(state, codep, byte) ==
    LET type == Utf8Type[byte] IN
    IF state = UTF8_ACCEPT THEN <<Utf8First[type + 1], IF type < 8 THEN byte % 2^(8 - type) ELSE 0>>
    ELSE <<IF type \in Utf8Goes[state][1] THEN Utf8Goes[state][2] ELSE UTF8_REJECT,
           64 * codep + (byte % 64)>>

(***************************************************************************)
(* dump_escaped()                                                          *)
(***************************************************************************)
ShortEscapes ==
    (8 :> 98) @@ (9 :> 116) @@ (10 :> 110) @@ (12 :> 102) @@ (13 :> 114) @@ (34 :> 34) @@ (92 :> 92)
HexDigits == [n \in 0..15 |-> IF n < 10 THEN 48 + n ELSE 87 + n]
Hex4(n) == <<Backslash, 117, HexDigits[n \div 4096], HexDigits[(n \div 256) % 16],
             HexDigits[(n \div 16) % 16], HexDigits[n % 16]>>

\* What is written for a code point whose last byte is "byte".
Escaped(codepoint, byte, ensure_ascii) ==
    CASE codepoint \in DOMAIN ShortEscapes -> <<Backslash, ShortEscapes[codepoint]>>
      [] codepoint \in 0..31 \ DOMAIN ShortEscapes -> Hex4(codepoint)
      [] codepoint \in 127..65535 /\ ensure_ascii -> Hex4(codepoint)
      [] codepoint > 65535 /\ ensure_ascii ->
             Hex4(55232 + codepoint \div 1024) \o Hex4(56320 + (codepoint % 1024))
      [] OTHER -> <<byte>>

Replacement(ensure_ascii) == IF ensure_ascii THEN Hex4(65533) ELSE <<239, 191, 189>>

\* i bytes of s are read; "accepted" of what is written belongs to whole characters.
RECURSIVE DumpBytes(_, _, _, _)
DumpBytes(s, ensure_ascii, error_handler, d) ==
    LET byte == s[d.i + 1]
        decoded == decode(d.state, d.codepoint, byte)
        written == SubSeq(d.buffer, 1, d.accepted)
        replaced == written \o Replacement(ensure_ascii)
        char == d.buffer \o Escaped(decoded[2], byte, ensure_ascii)
        next == [d EXCEPT !.i = @ + 1, !.state = decoded[1], !.codepoint = decoded[2]]
        recovered == IF error_handler = "replace" THEN replaced ELSE written
    IN  CASE d.i = Len(s) /\ d.state = UTF8_ACCEPT -> d.buffer
          [] d.i = Len(s) /\ d.state # UTF8_ACCEPT ->
                 IF error_handler = "strict" THEN Throws ELSE recovered
          [] d.i < Len(s) /\ decoded[1] = UTF8_ACCEPT ->
                 DumpBytes(s, ensure_ascii, error_handler,
                     [next EXCEPT !.buffer = char, !.accepted = Len(char), !.undumped = 0])
          [] d.i < Len(s) /\ decoded[1] = UTF8_REJECT ->
                 IF error_handler = "strict" THEN Throws
                 ELSE DumpBytes(s, ensure_ascii, error_handler,
                          [next EXCEPT !.i = IF d.undumped > 0 THEN d.i ELSE d.i + 1,
                                       !.state = UTF8_ACCEPT, !.buffer = recovered,
                                       !.accepted = Len(recovered), !.undumped = 0])
          [] OTHER ->
                 DumpBytes(s, ensure_ascii, error_handler,
                     [next EXCEPT !.buffer = IF ensure_ascii THEN @ ELSE Append(@, byte),
                                  !.undumped = @ + 1])
dump_escaped(s, ensure_ascii, error_handler) ==
    DumpBytes(s, ensure_ascii, error_handler,
        [i |-> 0, state |-> UTF8_ACCEPT, codepoint |-> 0, buffer |-> <<>>, accepted |-> 0,
         undumped |-> 0])

(***************************************************************************)
(* dump()                                                                  *)
(***************************************************************************)
\* std::map's order of the keys.
Before(k, l) ==
    \/ k # l /\ IsPrefix(k, l)
    \/ \E i \in DOMAIN k \cap DOMAIN l :
           k[i] < l[i] /\ SubSeq(k, 1, i - 1) = SubSeq(l, 1, i - 1)
Keys(object) == SetToSortSeq(DOMAIN Content(object), Before)

\* A text that contains one that could not be written throws as well.
Joined(parts) == IF Throws \in Range(parts) THEN Throws ELSE FlattenSeq(parts)
Quoted(s, ensure_ascii) == Joined(<<<<Quote>>, dump_escaped(s, ensure_ascii, "strict"), <<Quote>>>>)
NewLine(pretty_print, indent) ==
    IF pretty_print THEN <<10>> \o [i \in 1..indent |-> 32] ELSE <<>>
\* Elements between brackets, each on a line of its own when the text is to be pretty.
Bracketed(open, elements, close, pretty_print, step, indent) ==
    IF elements = <<>> THEN <<open, close>>
    ELSE Joined([i \in DOMAIN elements |->
                    Joined(<<<<IF i = 1 THEN open ELSE 44>>, NewLine(pretty_print, indent + step),
                             elements[i]>>)]
                \o <<NewLine(pretty_print, indent), <<close>>>>)

RECURSIVE dump(_, _, _, _, _)
DumpObject(object, pretty_print, ensure_ascii, step, indent) ==
    LET keys == Keys(object)
        Member(k) ==
            Joined(<<Quoted(k, ensure_ascii), IF pretty_print THEN <<58, 32>> ELSE <<58>>,
                     dump(Content(object)[k], pretty_print, ensure_ascii, step, indent + step)>>)
    IN  Bracketed(123, [i \in DOMAIN keys |-> Member(keys[i])], 125, pretty_print, step, indent)
DumpArray(array, pretty_print, ensure_ascii, step, indent) ==
    LET Element(v) == dump(v, pretty_print, ensure_ascii, step, indent + step)
    IN  Bracketed(91, [i \in DOMAIN Content(array) |-> Element(Content(array)[i])], 93,
                  pretty_print, step, indent)
DumpScalar(value, ensure_ascii) ==
    CASE value[1] = "string" -> Quoted(Content(value), ensure_ascii)
      [] value = Null -> Literals[110][2]
      [] value[1] = "boolean" ->
             (IF Content(value) = "true" THEN Literals[116] ELSE Literals[102])[2]
      [] OTHER -> Content(value)
dump(value, pretty_print, ensure_ascii, step, indent) ==
    CASE value[1] = "object" -> DumpObject(value, pretty_print, ensure_ascii, step, indent)
      [] value[1] = "array" -> DumpArray(value, pretty_print, ensure_ascii, step, indent)
      [] OTHER -> DumpScalar(value, ensure_ascii)
=============================================================================
