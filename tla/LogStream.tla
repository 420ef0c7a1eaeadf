----------------------------- MODULE LogStream -----------------------------
(***************************************************************************)
(* muduo::LogStream (base/logging/LogStream.h, LogStream.cpp): operands    *)
(* are formatted into a buffer of fixed size.  A text is appended whole or *)
(* not at all; a number is written in place, which needs kMaxNumericSize   *)
(* free bytes whatever its length.                                         *)
(*                                                                         *)
(* A buffer is the sequence of its fields: [text, len] for a text of which *)
(* only the length matters, [chars, len, value, base] for a number with    *)
(* the characters written for it: base 10 for the integers, base 16        *)
(* for a pointer.  A double is a number of which snprintf makes at most 19 *)
(* characters ("%.12g"); its value and base are 0.                         *)
(***************************************************************************)
EXTENDS Integers, Sequences, SequencesExt

kSmallBuffer == 4000
kMaxNumericSize == 32

length(buffer) == FoldLeft(LAMBDA n, field : n + field.len, 0, buffer)
avail(buffer) == kSmallBuffer - length(buffer)

Text(what, len) == [text |-> what, len |-> len]

append(buffer, field) == IF avail(buffer) > field.len THEN Append(buffer, field) ELSE buffer

-----------------------------------------------------------------------------
(* convert and convertHex: the last digit is i % base, negative when i is,  *)
(* and is looked up in a table that runs from 9 down to 0 and up to 9 again *)
(* (the one of convertHex only upwards).                                    *)

Quotient(i, n) == IF i >= 0 \/ i % n = 0 THEN i \div n ELSE (i \div n) + 1
Remainder(i, n) == i - (n * Quotient(i, n))
zero == [lsd \in -9..15 |-> IF lsd < 0 THEN -lsd ELSE lsd]

RECURSIVE Digits(_, _)
Digits(i, base) ==
  LET rest == Quotient(i, base)
      digit == <<zero[Remainder(i, base)]>>
  IN  IF rest = 0 THEN digit ELSE Digits(rest, base) \o digit

convert(value) ==
  [digits |-> Digits(value, 10), sign |-> IF value < 0 THEN "-" ELSE "",
   len |-> Len(Digits(value, 10)) + (IF value < 0 THEN 1 ELSE 0)]
convertHex(value) ==
  [digits |-> Digits(value, 16), sign |-> "", len |-> Len(Digits(value, 16))]

Number(value) == [chars |-> convert(value), len |-> convert(value).len, value |-> value, base |-> 10]
Pointer(value) ==
  [chars |-> convertHex(value), len |-> convertHex(value).len + 2, value |-> value, base |-> 16]
Double == [chars |-> <<>>, len |-> 19, value |-> 0, base |-> 0]

\* The room is only tested against the length of this number.
FormatIntegerTight(buffer, x) ==
  IF avail(buffer) >= x.len THEN Append(buffer, x) ELSE buffer

\* formatInteger, and the same test in operator<< of const void* and double
FormatInteger(buffer, x) ==
  IF avail(buffer) >= kMaxNumericSize THEN Append(buffer, x) ELSE buffer

\* operator<<
Put(buffer, x) == IF "value" \in DOMAIN x THEN FormatInteger(buffer, x) ELSE append(buffer, x)

PutAll(buffer, xs) == FoldLeft(Put, buffer, xs)
=============================================================================
