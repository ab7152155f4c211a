---------------------------- MODULE Conversions ----------------------------
(***************************************************************************)
(* What crosses the boundary between Go and V8: sizes, integers and texts. *)
(*                                                                         *)
(* A size is a 64-bit int in Go, an int or a uint32_t in the C interface   *)
(* and a size_t in V8; an int64 travels as a double; a text travels with   *)
(* its length or as a C string.  The widths are constants, scaled down so  *)
(* that TLC can try every input, with the order of the real ones: C int    *)
(* (32) < significand of a double (53) < int64 (64), and three bytes for   *)
(* every character of the longest string fit an int.                       *)
(***************************************************************************)
EXTENDS Integers, Sequences, SequencesExt, FiniteSetsExt

CONSTANTS Width,      \* bits of a C int, 32
          Mantissa,   \* bits of the significand of a double, 53
          Wide,       \* bits of an int64, 64
          MaxString,  \* String::kMaxLength, 2^29 - 24
          MaxSize,    \* bound: the largest size tried
          MaxText     \* bound: the longest text tried

ASSUME ConversionConstants ==
  /\ Width \in Nat \ {0} /\ Mantissa \in Nat /\ Wide \in Nat
  /\ Width < Mantissa /\ Mantissa < Wide
  /\ MaxString \in Nat /\ 3 * MaxString < 2^(Width - 1)
  /\ MaxSize \in Nat /\ MaxText \in Nat

\* The law of exponents that the proofs use; the provers know none.
ASSUME PowersGrow == \A a, b \in 0..(Mantissa + Wide) : a < b => 2^a < 2^b

VARIABLES input,  \* what is converted
          output  \* what comes out: nothing yet, or one result

convars == <<input, output>>

\* Results that are none: C.GoBytes panics, NewFromUtf8 fails and the call returns
\* without a value, or ToLocalChecked aborts the process.
Panic == -1
Failed == <<"failed">>
Abort == <<"abort">>

MaxInt == 2^(Width - 1) - 1
Int64 == -(2^(Wide - 1)) .. 2^(Wide - 1) - 1

----------------------------------------------------------------------------
(* Sizes.                                                                  *)

\* C.int(n), static_cast<int>(n): the low bits, read as a signed number.
CInt(n) == LET u == n % 2^Width IN IF u <= MaxInt THEN u ELSE u - 2^Width

NotNegative(n) == IF n > 0 THEN n ELSE 0

\* The copy as it would be if a negative length went on as a size_t.
ArrayBufferCopyUnchecked(n) == CInt(n) % 2^Wide

\* NewArrayBufferCopy and NewUint8ArrayCopy: how many of n bytes are copied.
ArrayBufferCopy(n) == NotNegative(CInt(n))

\* NewArray: the length of the array for a uint32 n.
NewArray(n) == NotNegative(CInt(n % 2^Width))

\* Bytes of a buffer of n bytes: how many the slice has.  The copy of a buffer
\* whose length comes out as 0 is not freed.
Bytes(n) == IF CInt(n) < 0 THEN Panic ELSE CInt(n)

\* Len of a buffer of n bytes.
BufferLen(n) == n % 2^Width

SizeResult(n) ==
  [ copied |-> ArrayBufferCopy(n),                 \* Go bytes into V8
    back   |-> Bytes(ArrayBufferCopy(n)),          \* and out again
    bytes  |-> Bytes(n),                           \* a buffer of a script
    len    |-> BufferLen(n),
    array  |-> NewArray(n) ]

----------------------------------------------------------------------------
(* Integers.                                                               *)

Abs(n) == IF n < 0 THEN -n ELSE n

\* The distance between neighbouring doubles around n.
Step(n) == Min({2^e : e \in {k \in 0..Wide : Abs(n) <= 2^(Mantissa + k)}})

\* NewIntegerValue as it would be through a C int.
ToDoubleNarrow(n) == CInt(n)

\* static_cast<double>(int64): to the nearest double, ties to even.
ToDouble(n) ==
  LET s == Step(n)
      q == n \div s
      r == n % s
  IN IF 2 * r < s \/ (2 * r = s /\ q % 2 = 0) THEN q * s ELSE (q + 1) * s

\* Value::IntegerValue: doubles beyond int64 saturate.
IntegerValue(d) == Min({2^(Wide - 1) - 1, Max({-(2^(Wide - 1)), d})})

IntegerResult(n) == IntegerValue(ToDouble(n))

----------------------------------------------------------------------------
(* Texts.                                                                  *)

Texts == BoundedSeq({"char", "nul"}, MaxText)

\* What a C function sees of a text: everything before the first NUL.
CString(s) ==
  SubSeq(s, 1, Max({k \in 0..Len(s) : \A i \in 1..k : s[i] # "nul"}))

\* String::NewFromUtf8: a negative length means strlen.
NewFromUtf8(s, length) ==
  LET n == IF length < 0 THEN Len(CString(s)) ELSE length
  IN IF n > MaxString THEN Failed ELSE SubSeq(s, 1, n)

\* NewStringValue as it would be with a C string.
StringUntilNul(s) == NewFromUtf8(s, -1)

\* NewStringValue, JSONParse.
NewStringValue(s) == NewFromUtf8(s, CInt(Len(s)))

\* Object.Get, Set, Has, CallMethod, sources and resource names: ToLocalChecked.
Name(s) == IF NewFromUtf8(s, -1) = Failed THEN Abort ELSE NewFromUtf8(s, -1)

TextResult(s) == [value |-> NewStringValue(s), name |-> Name(s)]

----------------------------------------------------------------------------

Inputs == [kind : {"size"}, x : 0..MaxSize]
          \cup [kind : {"integer"}, x : Int64]
          \cup [kind : {"text"}, x : Texts]

ConversionsInit == input \in Inputs /\ output = <<>>

Convert(kind, result(_)) ==
  /\ input.kind = kind /\ output = <<>>
  /\ output' = <<result(input.x)>>
  /\ UNCHANGED input

ConversionsNext ==
  \/ Convert("size", SizeResult)
  \/ Convert("integer", IntegerResult)
  \/ Convert("text", TextResult)

ConversionsSpec == ConversionsInit /\ [][ConversionsNext]_convars

----------------------------------------------------------------------------
(* Properties.                                                             *)

Done(kind) == input.kind = kind /\ output # <<>>
in == input.x
out == output[1]

\* As long as an int can hold a size, Go bytes survive the way into V8 and back,
\* the two ways to measure a buffer agree and an array has the length asked for.
\* Otherwise fewer bytes arrive, never more than there are, and come back as they
\* arrived; only Bytes of a buffer that a script made panics.  Nothing is said of an
\* array of more than MaxInt elements: GV8ContextNewArray makes it an empty one.
SizesAgree ==
  Done("size") =>
    /\ in <= MaxInt => out = [copied |-> in, back |-> in, bytes |-> in,
                              len |-> in, array |-> in]
    /\ out.copied <= in /\ out.back = out.copied
    /\ out.bytes \in 0..MaxInt \cup {Panic}

\* An int64 survives if a double can hold it, so every int and uint32 does;
\* otherwise it comes back with its sign, half a step away at most.
IntegerRoundTrip ==
  Done("integer") =>
    /\ Abs(in) <= 2^Mantissa => out = in
    /\ in >= 0 <=> out >= 0
    /\ 2 * Abs(out - in) <= Step(in)

\* A text with a length arrives whole or not at all, NULs included, unless an
\* int cannot hold the length; a name without NUL arrives whole, or is too long for
\* V8 and aborts the process.
TextsArriveWhole ==
  Done("text") =>
    /\ Len(in) <= MaxInt => out.value \in {in, Failed}
    /\ Len(in) <= MaxString => out.value = in
    /\ CString(in) = in
       => out.name = IF Len(in) <= MaxString THEN in ELSE Abort
=============================================================================
