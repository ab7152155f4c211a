------------------------- MODULE ConversionsProofs -------------------------
(***************************************************************************)
(* For every width, so for the real ones too, and every size, integer and  *)
(* text: what arrives on the other side is what was sent, or less in a     *)
(* known way.                                                              *)
(***************************************************************************)
EXTENDS Conversions, SequenceTheorems, WellFoundedInduction, TLAPS

USE ConversionConstants

\* The output, once there is one, is the result for the input.
VInv ==
  /\ input \in Inputs
  /\ output # <<>> =>
       \/ input.kind = "size" /\ output = <<SizeResult(input.x)>>
       \/ input.kind = "integer" /\ output = <<IntegerResult(input.x)>>
       \/ input.kind = "text" /\ output = <<TextResult(input.x)>>

----------------------------------------------------------------------------
(* Arithmetic.                                                             *)

\* The powers of two that occur are positive integers.
LEMMA Powers ==
  ASSUME NEW a \in 0..(Mantissa + Wide)
  PROVE  2^a \in Nat \ {0}
<1>1. 2^a \in Int /\ 2^0 = 1 /\ 0 \in 0..(Mantissa + Wide)
  OBVIOUS
<1>2. CASE a = 0
  BY <1>1, <1>2
<1>3. CASE a # 0
  <2>1. 0 < a
    BY <1>3
  <2>2. 2^0 < 2^a
    BY <1>1, <2>1, PowersGrow
  <2> QED
    BY <1>1, <2>2
<1> QED
  BY <1>2, <1>3

\* Quotient and remainder.
LEMMA Division ==
  ASSUME NEW n \in Int, NEW s \in Nat \ {0},
         NEW q \in Int, q = n \div s, NEW r \in Int, r = n % s
  PROVE  n = s * q + r
  BY SMTT(60)

\* A set of naturals that is not empty has a least element.
LEMMA LeastElement ==
  ASSUME NEW S \in SUBSET Nat, S # {}
  PROVE  Min(S) \in S /\ \A y \in S : Min(S) <= y
<1>1. PICK x \in S : \A y \in S : ~(<<y, x>> \in OpToRel(<, Nat))
  BY WFMin, NatLessThanWellFounded, Zenon
<1>2. ASSUME NEW y \in S PROVE x <= y
  <2>1. ~(y < x)
    BY <1>1 DEF OpToRel
  <2> QED
    BY <2>1
<1>3. \E m \in S : \A y \in S : m <= y
  BY <1>2
<1> QED
  BY <1>3 DEF Min

\* An int holds fewer values that are not negative than it holds values.
LEMMA IntRange ==
  /\ 2^Width \in Nat \ {0} /\ 2^(Width - 1) \in Nat \ {0}
  /\ 2^(Width - 1) < 2^Width
  /\ MaxInt \in Nat /\ MaxInt = 2^(Width - 1) - 1 /\ MaxString <= MaxInt
<1>1. Width \in 0..(Mantissa + Wide) /\ Width - 1 \in 0..(Mantissa + Wide) /\ Width - 1 < Width
  OBVIOUS
<1>2. 2^Width \in Nat \ {0} /\ 2^(Width - 1) \in Nat \ {0}
  BY <1>1, Powers
<1>3. 2^(Width - 1) < 2^Width
  BY <1>1, PowersGrow
<1>4. MaxInt = 2^(Width - 1) - 1
  BY DEF MaxInt
<1> QED
  BY <1>2, <1>3, <1>4

----------------------------------------------------------------------------
(* Sizes.                                                                  *)

\* A cast to int is the identity on what an int can hold, and otherwise less
\* than what it is given.
LEMMA CIntFacts ==
  ASSUME NEW n \in Nat
  PROVE  /\ CInt(n) \in Int /\ CInt(n) <= MaxInt /\ CInt(n) <= n
         /\ n <= MaxInt => CInt(n) = n
         /\ n > MaxInt /\ n < 2^Width => CInt(n) < 0
         /\ n % 2^Width \in Nat /\ (n < 2^Width => n % 2^Width = n)
<1>1. PICK w \in Nat \ {0} : w = 2^Width
  BY IntRange
<1>2. n % w \in 0..w-1 /\ n % w <= n /\ (n < w => n % w = n)
  OBVIOUS
<1>3. CInt(n) = IF n % w <= MaxInt THEN n % w ELSE (n % w) - w
  BY <1>1 DEF CInt
<1>4. MaxInt \in Nat /\ MaxInt < w
  BY <1>1, IntRange
<1> HIDE DEF MaxInt
<1> QED
  BY <1>1, <1>2, <1>3, <1>4

\* What happens to a size.
LEMMA SizeFacts ==
  ASSUME NEW n \in Nat, NEW res, res = SizeResult(n)
  PROVE  /\ n <= MaxInt => res = [copied |-> n, back |-> n, bytes |-> n,
                                  len |-> n, array |-> n]
         /\ res.copied <= n /\ res.back = res.copied
         /\ res.bytes \in 0..MaxInt \cup {Panic}
<1>1. PICK w \in Nat \ {0} : w = 2^Width /\ MaxInt \in Nat /\ MaxInt < w
  BY IntRange
<1>2. /\ CInt(n) \in Int /\ CInt(n) <= MaxInt /\ CInt(n) <= n
      /\ n <= MaxInt => CInt(n) = n
      /\ n > MaxInt /\ n < w => CInt(n) < 0
      /\ n % w \in Nat /\ (n < w => n % w = n)
  BY <1>1, CIntFacts
<1>3. PICK c \in Nat : c = ArrayBufferCopy(n) /\ c <= n /\ c <= MaxInt /\ (n <= MaxInt => c = n)
  BY <1>1, <1>2 DEF ArrayBufferCopy, NotNegative
<1>4. CInt(c) = c /\ Bytes(c) = c
  BY <1>1, <1>3, CIntFacts DEF Bytes
<1>5. /\ Bytes(n) \in 0..MaxInt \cup {Panic}
      /\ n <= MaxInt => Bytes(n) = n
  BY <1>1, <1>2 DEF Bytes
<1>6. n <= MaxInt => NewArray(n) = n
  BY <1>1, <1>2 DEF NewArray, NotNegative
<1>7. n <= MaxInt => BufferLen(n) = n
  BY <1>1, <1>2 DEF BufferLen
<1>8. res = [copied |-> c, back |-> c, bytes |-> Bytes(n), len |-> BufferLen(n),
             array |-> NewArray(n)]
  BY <1>3, <1>4 DEF SizeResult
<1> HIDE DEF MaxInt
<1> QED
  BY <1>1, <1>3, <1>5, <1>6, <1>7, <1>8

----------------------------------------------------------------------------
(* Texts.                                                                  *)

\* What happens to a text.
LEMMA TextFacts ==
  ASSUME NEW s \in Texts, NEW res, res = TextResult(s)
  PROVE  /\ Len(s) <= MaxInt => res.value \in {s, Failed}
         /\ Len(s) <= MaxString => res.value = s
         /\ CString(s) = s => res.name = IF Len(s) <= MaxString THEN s ELSE Abort
<1>1. s \in Seq({"char", "nul"})
  BY DEF Texts, BoundedSeq, SeqOf
<1>2. Len(s) \in Nat /\ SubSeq(s, 1, Len(s)) = s
  BY <1>1
<1>3. NewFromUtf8(s, Len(s)) = IF Len(s) <= MaxString THEN s ELSE Failed
  <2>1. ~(Len(s) < 0) /\ (Len(s) > MaxString <=> ~(Len(s) <= MaxString))
    BY <1>2
  <2> QED
    BY <1>2, <2>1, Zenon DEF NewFromUtf8
<1>4. Len(s) <= MaxInt => NewStringValue(s) = IF Len(s) <= MaxString THEN s ELSE Failed
  BY <1>2, <1>3, CIntFacts DEF NewStringValue
<1>5. CString(s) = s => Name(s) = IF Len(s) <= MaxString THEN s ELSE Abort
  <2>1. CString(s) = s => NewFromUtf8(s, -1) = IF Len(s) <= MaxString THEN s ELSE Failed
    BY <1>2, <1>3 DEF NewFromUtf8
  <2>2. \A i \in 1..Len(s) : s[i] # "failed"
    <3>1. \A i \in 1..Len(s) : s[i] \in {"char", "nul"}
      BY <1>1, ElementOfSeq
    <3> QED
      BY <3>1
  <2>3. s # Failed
    <3>1. Len(Failed) = 1 /\ Failed[1] = "failed" /\ 1 \in 1..1
      BY DEF Failed
    <3> QED
      BY <2>2, <3>1
  <2> QED
    BY <2>1, <2>3 DEF Name
<1>6. Len(s) <= MaxString => Len(s) <= MaxInt
  BY <1>2, IntRange
<1> QED
  BY <1>4, <1>5, <1>6 DEF TextResult

----------------------------------------------------------------------------
(* Integers.                                                               *)

\* Neighbouring doubles are 1 apart as far as the significand reaches, and
\* further on closer to each other than to 0.
LEMMA StepFacts ==
  ASSUME NEW n \in Int64, NEW s, s = Step(n)
  PROVE  /\ s \in Nat \ {0}
         /\ Abs(n) <= 2^Mantissa => s = 1
         /\ s # 1 => Abs(n) > s
<1> DEFINE K == {k \in 0..Wide : Abs(n) <= 2^(Mantissa + k)}
           S == {2^e : e \in K}
<1>1. \A k \in 0..Wide : k \in 0..(Mantissa + Wide) /\ Mantissa + k \in 0..(Mantissa + Wide)
  OBVIOUS
<1>2. n \in Int /\ Abs(n) \in Nat /\ Abs(n) <= 2^(Wide - 1)
  <2>1. 2^(Wide - 1) \in Nat
    BY Powers
  <2> QED
    BY <2>1 DEF Int64, Abs
<1>3. S # {}
  <2>1. Wide - 1 - Mantissa \in 0..Wide /\ Mantissa + (Wide - 1 - Mantissa) = Wide - 1
    OBVIOUS
  <2> QED
    BY <1>2, <2>1
<1>4. S \in SUBSET Nat
  BY <1>1, Powers
<1>5. s \in S /\ \A y \in S : s <= y
  BY <1>3, <1>4, LeastElement DEF Step
<1>6. PICK e \in K : s = 2^e
  BY <1>5
<1>7. e \in 0..Wide /\ s \in Nat \ {0}
  BY <1>1, <1>6, Powers
<1>8. ASSUME Abs(n) <= 2^Mantissa PROVE s = 1
  <2>1. Mantissa + 0 = Mantissa /\ 0 \in 0..Wide /\ 2^0 = 1
    OBVIOUS
  <2>2. 0 \in K
    BY <1>8, <2>1
  <2>3. s <= 1
    BY <1>5, <2>1, <2>2
  <2> QED
    BY <1>7, <2>3
<1>9. ASSUME s # 1 PROVE Abs(n) > s
  <2>1. e # 0
    <3>1. 2^0 = 1
      OBVIOUS
    <3> QED
      BY <1>6, <1>9, <3>1
  <2>2. /\ e - 1 \in 0..Wide /\ e - 1 < e
        /\ e < Mantissa + (e - 1)
    BY <1>7, <2>1
  <2>3. 2^(e - 1) < s /\ s < 2^(Mantissa + (e - 1))
    BY <1>1, <1>6, <1>7, <2>2, PowersGrow
  <2>4. 2^(e - 1) \in Nat /\ 2^(Mantissa + (e - 1)) \in Nat
    BY <1>1, <2>2, Powers
  <2>5. e - 1 \notin K
    <3> SUFFICES ASSUME e - 1 \in K PROVE FALSE
      OBVIOUS
    <3>1. s <= 2^(e - 1)
      BY <1>5
    <3> QED
      BY <1>7, <2>3, <2>4, <3>1
  <2>6. ~(Abs(n) <= 2^(Mantissa + (e - 1)))
    BY <2>2, <2>5
  <2> QED
    BY <1>2, <1>7, <2>3, <2>4, <2>6
<1> QED
  BY <1>7, <1>8, <1>9

\* A double is a multiple of the step, half a step away at most.
LEMMA ToDoubleFacts ==
  ASSUME NEW n \in Int, NEW s \in Nat \ {0}, s = Step(n), NEW d, d = ToDouble(n)
  PROVE  \E r \in 0..s-1 : \/ d = n - r /\ 2 * r <= s
                           \/ d = n - r + s /\ 2 * r >= s
<1>1. PICK q \in Int, r \in 0..s-1 : q = n \div s /\ r = n % s
  OBVIOUS
<1>2. n = s * q + r
  <2>1. r \in Int
    OBVIOUS
  <2> QED
    BY <1>1, <2>1, Division
<1>3. d = IF 2 * r < s \/ (2 * r = s /\ q % 2 = 0) THEN q * s ELSE (q + 1) * s
  BY <1>1 DEF ToDouble
<1>4. q * s = n - r /\ (q + 1) * s = n - r + s
  BY <1>2
<1> QED
  BY <1>2, <1>3, <1>4

\* Saturation.
LEMMA IntegerValueFacts ==
  ASSUME NEW d \in Int, NEW v, v = IntegerValue(d)
  PROVE  /\ 2^(Wide - 1) \in Nat \ {0}
         /\ v = IF d > 2^(Wide - 1) - 1 THEN 2^(Wide - 1) - 1
                ELSE IF d < -(2^(Wide - 1)) THEN -(2^(Wide - 1)) ELSE d
<1>1. PICK h \in Nat \ {0} : h = 2^(Wide - 1)
  BY Powers
<1>2. Max({-h, d}) = IF d < -h THEN -h ELSE d
  BY DEF Max
<1>3. \A m \in Int : Min({h - 1, m}) = IF m > h - 1 THEN h - 1 ELSE m
  BY DEF Min
<1>4. v = Min({h - 1, IF d < -h THEN -h ELSE d})
  BY <1>1, <1>2 DEF IntegerValue
<1> QED
  BY <1>1, <1>3, <1>4

\* What happens to an integer.
LEMMA IntegerFacts ==
  ASSUME NEW n \in Int64, NEW v, v = IntegerResult(n)
  PROVE  /\ Abs(n) <= 2^Mantissa => v = n
         /\ n >= 0 <=> v >= 0
         /\ 2 * Abs(v - n) <= Step(n)
<1>1. PICK s : s = Step(n)
  OBVIOUS
<1>2. PICK h \in Nat \ {0} : h = 2^(Wide - 1)
  BY IntegerValueFacts
<1>3. n \in Int /\ n >= -h /\ n <= h - 1
  BY <1>2 DEF Int64
<1>4. s \in Nat \ {0} /\ (Abs(n) <= 2^Mantissa => s = 1) /\ (s # 1 => Abs(n) > s)
  BY <1>1, StepFacts
<1>5. PICK d : d = ToDouble(n)
  OBVIOUS
<1>6. PICK r \in 0..s-1 : \/ d = n - r /\ 2 * r <= s
                          \/ d = n - r + s /\ 2 * r >= s
  BY <1>1, <1>3, <1>4, <1>5, ToDoubleFacts
<1>7. d \in Int /\ 2 * Abs(d - n) <= s /\ (s = 1 => d = n)
  BY <1>3, <1>4, <1>6 DEF Abs
<1>8. /\ n >= 0 => d >= 0
      /\ n < 0 => d < 0
  <2>1. CASE s = 1
    BY <1>7, <2>1
  <2>2. CASE s # 1
    BY <1>3, <1>4, <1>6, <2>2 DEF Abs
  <2> QED
    BY <2>1, <2>2
<1>9. v = IF d > h - 1 THEN h - 1 ELSE IF d < -h THEN -h ELSE d
  BY <1>2, <1>5, <1>7, IntegerValueFacts DEF IntegerResult
<1> QED
  BY <1>1, <1>2, <1>3, <1>4, <1>7, <1>8, <1>9 DEF Abs

----------------------------------------------------------------------------
(* The steps.                                                              *)

\* There is no output at first.
LEMMA InitVInv == ConversionsInit => VInv
  BY DEF ConversionsInit, VInv

\* Every conversion keeps the invariant.
LEMMA NextVInv == VInv /\ [ConversionsNext]_convars => VInv'
<1> SUFFICES ASSUME VInv, [ConversionsNext]_convars PROVE VInv'
  OBVIOUS
<1>1. CASE Convert("size", SizeResult)
  BY <1>1 DEF Convert, VInv
<1>2. CASE Convert("integer", IntegerResult)
  BY <1>2 DEF Convert, VInv
<1>3. CASE Convert("text", TextResult)
  BY <1>3 DEF Convert, VInv
<1>4. CASE UNCHANGED convars
  BY <1>4 DEF convars, VInv
<1> QED
  BY <1>1, <1>2, <1>3, <1>4 DEF ConversionsNext

\* The result of a conversion of each kind, and what it is the result of.
LEMMA Results ==
  ASSUME VInv
  PROVE  /\ Done("size") => in \in Nat /\ out = SizeResult(in)
         /\ Done("integer") => in \in Int64 /\ out = IntegerResult(in)
         /\ Done("text") => in \in Texts /\ out = TextResult(in)
<1>1. /\ input.kind = "size" => input.x \in 0..MaxSize
      /\ input.kind = "integer" => input.x \in Int64
      /\ input.kind = "text" => input.x \in Texts
  BY DEF VInv, Inputs
<1>2. \A v : <<v>>[1] = v
  OBVIOUS
<1> QED
  BY <1>1, <1>2 DEF VInv, Done, in, out

----------------------------------------------------------------------------
(* Theorems.                                                               *)

\* The invariant holds throughout.
THEOREM ConversionsInvariant == ConversionsSpec => []VInv
  BY InitVInv, NextVInv, PTL DEF ConversionsSpec

\* For every width of a C int: sizes an int can hold cross whole and back, and
\* beyond that NewArrayBufferCopy never copies more than there is and Bytes panics
\* or returns a size an int can hold.
THEOREM SizesCross == ConversionsSpec => []SizesAgree
<1>1. VInv => SizesAgree
  <2> SUFFICES ASSUME VInv, Done("size") PROVE SizesAgree
    BY DEF SizesAgree
  <2>1. in \in Nat /\ out = SizeResult(in)
    BY Results
  <2> QED
    BY <2>1, SizeFacts DEF SizesAgree
<1> QED
  BY <1>1, ConversionsInvariant, PTL

\* For every significand and every width of an integer: NewIntegerValue and
\* IntegerValue keep what a double can hold, and the sign and half a step of
\* everything else.
THEOREM IntegersCross == ConversionsSpec => []IntegerRoundTrip
<1>1. VInv => IntegerRoundTrip
  <2> SUFFICES ASSUME VInv, Done("integer") PROVE IntegerRoundTrip
    BY DEF IntegerRoundTrip
  <2>1. in \in Int64 /\ out = IntegerResult(in)
    BY Results
  <2> QED
    BY <2>1, IntegerFacts DEF IntegerRoundTrip
<1> QED
  BY <1>1, ConversionsInvariant, PTL

\* For every text: one with a length an int can hold arrives whole or not at
\* all, and a name without NULs arrives whole or aborts the process.
THEOREM TextsCross == ConversionsSpec => []TextsArriveWhole
<1>1. VInv => TextsArriveWhole
  <2> SUFFICES ASSUME VInv, Done("text") PROVE TextsArriveWhole
    BY DEF TextsArriveWhole
  <2>1. in \in Texts /\ out = TextResult(in)
    BY Results
  <2> QED
    BY <2>1, TextFacts DEF TextsArriveWhole
<1> QED
  BY <1>1, ConversionsInvariant, PTL
=============================================================================
