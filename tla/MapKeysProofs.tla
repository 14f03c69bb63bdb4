---------------------------- MODULE MapKeysProofs ----------------------------
(***************************************************************************)
(* Keys of maps, for words of any width, every type, column and selector.  *)
(*                                                                         *)
(* Numbers that differ by a multiple of a word are Same: all that a cast,  *)
(* or a union whose halves are set one at a time, leaves of a key.  A key  *)
(* is told from the others of its type by what is the Same, so that it is  *)
(* printed as it was written, and matched by no other.                     *)
(***************************************************************************)
EXTENDS MapKeys, TLAPS, SequenceTheorems

-----------------------------------------------------------------------------
(* Division *)

LEMMA Division ==
  ASSUME NEW w \in Nat \ {0}, NEW n \in Int
  PROVE  /\ n \div w \in Int /\ n % w \in 0 .. w - 1
         /\ n = w * (n \div w) + (n % w)
<1>1. n \div w \in Int
  OBVIOUS
<1>2. n % w \in 0 .. w - 1
  OBVIOUS
<1>3. n = w * (n \div w) + (n % w)
  OBVIOUS
<1> QED
  BY <1>1, <1>2, <1>3

LEMMA Multiples ==
  ASSUME NEW w \in Nat \ {0}, NEW k \in Int
  PROVE  /\ w * k \in Int
         /\ k >= 1 => w * k >= w
         /\ k <= -1 => w * k <= -w
         /\ k = 0 => w * k = 0
  OBVIOUS

LEMMA UniqueDivision ==
  ASSUME NEW w \in Nat \ {0}, NEW k \in Int, NEW r \in 0 .. w - 1
  PROVE  (w * k + r) % w = r /\ (w * k + r) \div w = k
<1> DEFINE n == w * k + r
           j == n \div w
           s == n % w
<1>1. n \in Int
  BY Multiples
<1>2. j \in Int /\ s \in 0 .. w - 1 /\ n = w * j + s
  BY <1>1, Division
<1> HIDE DEF j, s
<1>3. w * (k - j) = s - r
  <2>1. w * (k - j) = w * k - w * j
    BY <1>2
  <2> QED
    BY <1>2, <2>1, Multiples
<1>4. k - j = 0
  BY <1>2, <1>3, Multiples
<1>5. k = j /\ s = r
  BY <1>2, <1>3, <1>4
<1> QED
  BY <1>5 DEF j, s

LEMMA Small ==
  ASSUME NEW w \in Nat \ {0}, NEW n \in 0 .. w - 1
  PROVE  n % w = n
  BY UniqueDivision

\* n and m are equal up to a multiple of w.
Same(n, m, w) == \E k \in Int : n = w * k + m

LEMMA SameRemainder ==
  ASSUME NEW w \in Nat \ {0}, NEW n \in Int, NEW m \in Int
  PROVE  /\ Same(n, m, w) => n % w = m % w
         /\ n % w = m % w => Same(n, m, w)
         /\ Same(n, m, w) => (n - m) % w = 0
         /\ Same(n % w, n, w) /\ Same(n, n % w, w)
<1>1. PICK j \in Int, r \in 0 .. w - 1 : m = w * j + r /\ m % w = r
  BY Division
<1>2. PICK i \in Int, q \in 0 .. w - 1 : n = w * i + q /\ n % w = q
  BY Division
<1>3. \A a \in Int, b \in Int : w * (a + b) = w * a + w * b /\ w * (a - b) = w * a - w * b
                                /\ w * a \in Int
  OBVIOUS
<1>4. ASSUME NEW k \in Int, n = w * k + m
      PROVE  n % w = m % w /\ (n - m) % w = 0
  <2>1. n = w * (k + j) + r /\ k + j \in Int
    BY <1>1, <1>3, <1>4
  <2>2. n % w = r
    BY <2>1, UniqueDivision
  <2>3. n - m = w * k + 0 /\ 0 \in 0 .. w - 1
    BY <1>3, <1>4
  <2> QED
    BY <1>1, <2>2, <2>3, UniqueDivision
<1>5. ASSUME n % w = m % w
      PROVE  Same(n, m, w)
  <2>1. n = w * (i - j) + m /\ i - j \in Int
    BY <1>1, <1>2, <1>3, <1>5
  <2> QED
    BY <2>1 DEF Same
<1>6. Same(n % w, n, w)
  <2>1. n % w = w * (0 - i) + n /\ 0 - i \in Int
    <3>1. w * (0 - i) = w * 0 - w * i
      BY <1>3
    <3>2. w * 0 = 0
      OBVIOUS
    <3> QED
      BY <1>2, <1>3, <3>1, <3>2
  <2> QED
    BY <2>1 DEF Same
<1>7. Same(n, n % w, w)
  BY <1>2 DEF Same
<1> QED
  BY <1>4, <1>5, <1>6, <1>7 DEF Same

LEMMA SameSteps ==
  ASSUME NEW w \in Nat \ {0}, NEW n \in Int, NEW m \in Int, NEW l \in Int
  PROVE  /\ Same(n, n, w)
         /\ Same(n, m, w) => Same(m, n, w)
         /\ Same(n, m, w) /\ Same(m, l, w) => Same(n, l, w)
<1>1. \A i \in Int, j \in Int : Same(i, j, w) <=> i % w = j % w
  BY SameRemainder
<1> QED
  BY <1>1

LEMMA SameSmall ==
  ASSUME NEW w \in Nat \ {0}, NEW n \in 0 .. w - 1, NEW m \in 0 .. w - 1, Same(n, m, w)
  PROVE  n = m
<1>1. n \in Int /\ m \in Int
  OBVIOUS
<1>2. n % w = m % w
  BY <1>1, SameRemainder
<1> QED
  BY <1>2, Small

-----------------------------------------------------------------------------
(* Words *)

Words == {Half, Full}

\* A word has as many negative numbers as others.
LEMMA WordSize ==
  /\ Half \in Nat \ {0} /\ Full \in Nat \ {0} /\ Half >= 2 /\ Full >= Half
  /\ Full = Half * Half
  /\ \A w \in Words : \E h \in Nat \ {0} : w = 2 * h /\ w \div 2 = h
<1>1. PICK h \in Int : Half = 2 * h + 0 /\ h = Half \div 2
  <2>1. Half \div 2 \in Int /\ Half = 2 * (Half \div 2) + (Half % 2)
    BY Division, HalfAssumption
  <2> QED
    BY <2>1, HalfAssumption
<1>2. h \in Nat \ {0} /\ Half \in Nat \ {0} /\ Half >= 2
  BY <1>1, HalfAssumption
<1>3. PICK f \in Int : f = h * Half
  BY <1>2
<1>4. f >= Half
  BY <1>2, <1>3
<1>5. Full = 2 * f + 0
  BY <1>1, <1>2, <1>3 DEF Full
<1>6. f = Full \div 2
  <2>1. (2 * f + 0) \div 2 = f
    BY UniqueDivision
  <2> QED
    BY <1>5, <2>1
<1>7. f \in Nat \ {0} /\ Full \in Nat \ {0} /\ Full >= Half
  BY <1>2, <1>4, <1>5
<1> QED
  BY <1>1, <1>2, <1>5, <1>6, <1>7 DEF Words, Full

\* A number that is equal to n but for what does not fit into a word is a multiple
\* of 2^64 off, and then of 2^32 as well.
LEMMA SameInHalf ==
  ASSUME NEW n \in Int, NEW m \in Int, Same(n, m, Full)
  PROVE  Same(n, m, Half)
<1>1. PICK k \in Int : n = Full * k + m
  BY DEF Same
<1>2. Full * k = Half * (Half * k) /\ Half * k \in Int
  BY WordSize
<1> QED
  BY <1>1, <1>2 DEF Same

LEMMA SignedCast ==
  ASSUME NEW w \in Words, NEW n \in Int
  PROVE  /\ AsSigned(n, w) \in Signed(w)
         /\ Same(AsSigned(n, w), n, w)
         /\ \A k \in Signed(w) : Same(n, k, w) => AsSigned(n, w) = k
<1>1. PICK h \in Nat \ {0} : w = 2 * h /\ w \div 2 = h
  BY WordSize
<1>2. w \in Nat \ {0}
  BY WordSize DEF Words
<1>3. PICK r \in 0 .. w - 1 : r = n % w
  BY <1>2, Division
<1>4. AsSigned(n, w) = IF r < h THEN r ELSE r - w
  BY <1>1, <1>3 DEF AsSigned
<1>5. AsSigned(n, w) \in Signed(w)
  BY <1>1, <1>3, <1>4 DEF Signed
<1>6. Same(AsSigned(n, w), n, w)
  <2>1. Same(r, n, w)
    BY <1>2, <1>3, SameRemainder
  <2>2. Same(r - w, r, w)
    <3>1. r - w = w * (-1) + r
      BY <1>2, <1>3
    <3> QED
      BY <3>1 DEF Same
  <2> QED
    BY <1>2, <1>3, <1>4, <2>1, <2>2, SameSteps
<1>7. ASSUME NEW k \in Signed(w), Same(n, k, w)
      PROVE  AsSigned(n, w) = k
  <2>1. k \in Int /\ -h <= k /\ k < h
    BY <1>1 DEF Signed
  <2>2. r = k % w
    BY <1>2, <1>3, <1>7, <2>1, SameRemainder
  <2>3. CASE k >= 0
    <3>1. k % w = k
      BY <1>1, <1>2, <2>1, <2>3, Small
    <3> QED
      BY <1>4, <2>1, <2>2, <3>1
  <2>4. CASE k < 0
    <3>1. k + w \in 0 .. w - 1 /\ k = w * (-1) + (k + w)
      BY <1>1, <2>1, <2>4
    <3>2. k % w = k + w
      <4>1. PICK m \in 0 .. w - 1 : m = k + w
        BY <3>1
      <4>2. (w * (-1) + m) % w = m
        BY <1>2, UniqueDivision
      <4> QED
        BY <3>1, <4>1, <4>2
    <3> QED
      BY <1>1, <1>4, <2>1, <2>2, <3>2
  <2> QED
    BY <2>1, <2>3, <2>4
<1> QED
  BY <1>5, <1>6, <1>7

LEMMA ZigZag ==
  ASSUME NEW w \in Words, NEW n \in Signed(w)
  PROVE  /\ ZigZagEncode(n) \in 0 .. w - 1
         /\ ZigZagDecode(ZigZagEncode(n)) = n
<1>1. PICK h \in Nat \ {0} : w = 2 * h /\ w \div 2 = h
  BY WordSize
<1>2. n \in Int /\ -h <= n /\ n < h
  BY <1>1 DEF Signed
<1> QED
  BY <1>1, <1>2 DEF ZigZagEncode, ZigZagDecode

-----------------------------------------------------------------------------
(* Unions *)

LEMMA UnionOf ==
  ASSUME NEW u \in Unions
  PROVE  /\ u.lo \in 0 .. Half - 1 /\ u.hi \in 0 .. Half - 1
         /\ AsUint64(u) \in Int /\ Same(AsUint64(u), u.lo, Half)
         /\ u.hi = 0 => AsUint64(u) = u.lo
<1>1. u.lo \in 0 .. Half - 1 /\ u.hi \in 0 .. Half - 1 /\ Half \in Nat
  BY WordSize DEF Unions, Unsigned
<1>2. AsUint64(u) = Half * u.hi + u.lo /\ Half * u.hi \in Int
  BY <1>1 DEF AsUint64
<1>3. u.hi = 0 => Half * u.hi = 0
  BY <1>1
<1>4. AsUint64(u) \in Int
  BY <1>1, <1>2
<1>5. Same(AsUint64(u), u.lo, Half)
  <2>1. u.hi \in Int
    BY <1>1
  <2> QED
    BY <1>2, <2>1 DEF Same
<1>6. u.hi = 0 => AsUint64(u) = u.lo
  BY <1>1, <1>2, <1>3
<1> QED
  BY <1>1, <1>4, <1>5, <1>6

LEMMA UnionSet ==
  ASSUME NEW n \in 0 .. Full - 1
  PROVE  /\ SetUint64(n) \in Unions
         /\ AsUint64(SetUint64(n)) = n
<1>1. PICK q \in Int, r \in 0 .. Half - 1 : n = Half * q + r /\ q = n \div Half /\ r = n % Half
  BY WordSize, Division
<1>2. q \in 0 .. Half - 1
  <2>1. Half * q <= Half * Half - 1 /\ Half * q > -Half
    BY <1>1, WordSize
  <2>2. Half * (q - Half) = Half * q - Half * Half
    BY WordSize
  <2>3. ~(q - Half >= 0)
    <3>1. q - Half >= 0 => Half * (q - Half) >= 0
      BY WordSize
    <3> QED
      BY <2>1, <2>2, <3>1, WordSize
  <2>4. ~(q <= -1)
    BY <2>1, WordSize, Multiples
  <2> QED
    BY <2>3, <2>4, WordSize
<1>3. SetUint64(n) = [lo |-> r, hi |-> q]
  BY <1>1 DEF SetUint64
<1>4. SetUint64(n) \in Unions
  BY <1>2, <1>3 DEF Unions, Unsigned
<1>5. AsUint64(SetUint64(n)) = r + Half * q
  BY <1>3 DEF AsUint64
<1>6. Half * q \in Int
  BY WordSize
<1>7. AsUint64(SetUint64(n)) = n
  BY <1>1, <1>5, <1>6
<1> QED
  BY <1>4, <1>7

-----------------------------------------------------------------------------
(* Keys *)

KeyTypesOfMaps == SignedTypes \cup UnsignedTypes \cup ZigZagTypes \cup {"bool"}

LEMMA TypesAreDisjoint ==
  ASSUME NEW type \in KeyTypesOfMaps
  PROVE  /\ Width(type) \in Words /\ Width(type) \in Nat \ {0}
         /\ type \in SignedTypes => type \notin UnsignedTypes \cup ZigZagTypes \cup {"bool"}
         /\ type \in UnsignedTypes => type \notin ZigZagTypes \cup {"bool"}
         /\ type \in ZigZagTypes => type # "bool"
         /\ type \in Types64 => Width(type) = Full /\ WireType(type) # 5 /\ type # "bool"
         /\ type \notin Types64 => Width(type) = Half
         /\ type = "sfixed32" => WireType(type) = 5 /\ type \notin ZigZagTypes
         /\ WireType(type) = 5 => type \in {"sfixed32", "fixed32"}
<1>1. Width(type) \in Words /\ Width(type) \in Nat \ {0}
  BY WordSize DEF Width, Words
<1>2. /\ type \in SignedTypes => type \notin UnsignedTypes \cup ZigZagTypes \cup {"bool"}
      /\ type \in UnsignedTypes => type \notin ZigZagTypes \cup {"bool"}
      /\ type \in ZigZagTypes => type # "bool"
  BY DEF SignedTypes, UnsignedTypes, ZigZagTypes
<1>3. /\ type \in Types64 => Width(type) = Full /\ WireType(type) # 5 /\ type # "bool"
      /\ type \notin Types64 => Width(type) = Half
  BY DEF Types64, Width, WireType
<1>4. /\ type = "sfixed32" => WireType(type) = 5 /\ type \notin ZigZagTypes
      /\ WireType(type) = 5 => type \in {"sfixed32", "fixed32"}
  BY DEF WireType, ZigZagTypes
<1> QED
  BY <1>1, <1>2, <1>3, <1>4

LEMMA KeysOf ==
  ASSUME NEW type \in KeyTypesOfMaps, NEW key \in Keys(type)
  PROVE  /\ key \in Int
         /\ type \in SignedTypes \cup ZigZagTypes => key \in Signed(Width(type))
         /\ type \in UnsignedTypes \cup {"bool"} => key \in 0 .. Width(type) - 1
<1>1. type \in UnsignedTypes \/ type = "bool" \/ type \in SignedTypes \cup ZigZagTypes
  BY DEF KeyTypesOfMaps
<1>2. CASE type \in UnsignedTypes
  BY <1>2, TypesAreDisjoint DEF Keys, Unsigned
<1>3. CASE type = "bool"
  <2>1. Width(type) = Half
    BY <1>3 DEF Width, Types64
  <2> QED
    BY <1>3, <2>1, TypesAreDisjoint, WordSize DEF Keys
<1>4. CASE type \in SignedTypes \cup ZigZagTypes
  <2>1. key \in Signed(Width(type)) /\ type \notin UnsignedTypes \cup {"bool"}
    BY <1>4, TypesAreDisjoint DEF Keys
  <2>2. PICK h \in Nat \ {0} : Width(type) \div 2 = h
    BY TypesAreDisjoint, WordSize
  <2> QED
    BY <2>1, <2>2 DEF Signed
<1> QED
  BY <1>1, <1>2, <1>3, <1>4

\* A key is written as a number that tells it from the other keys of its type.
LEMMA WrittenKey ==
  ASSUME NEW type \in KeyTypesOfMaps, NEW key \in Keys(type)
  PROVE  /\ Serialized(type, key) \in 0 .. Full - 1
         /\ WireType(type) = 5 => Serialized(type, key) \in 0 .. Half - 1
         /\ type \in ZigZagTypes => /\ Serialized(type, key) = ZigZagEncode(key)
                                    /\ Serialized(type, key) \in 0 .. Width(type) - 1
         /\ type \notin ZigZagTypes => Same(Serialized(type, key), key, Width(type))
<1>1. key \in Int
  BY KeysOf
<1>2. CASE type \in ZigZagTypes
  <2>1. Serialized(type, key) = ZigZagEncode(key)
    BY <1>2 DEF Serialized
  <2>2. ZigZagEncode(key) \in 0 .. Width(type) - 1
    BY <1>2, KeysOf, TypesAreDisjoint, ZigZag
  <2>3. Width(type) <= Full /\ WireType(type) # 5
    BY <1>2, TypesAreDisjoint, WordSize DEF Words, ZigZagTypes, WireType
  <2> QED
    BY <1>2, <2>1, <2>2, <2>3, WordSize, TypesAreDisjoint
<1>3. CASE type = "sfixed32"
  <2>1. Serialized(type, key) = key % Half /\ Width(type) = Half /\ type \notin ZigZagTypes
    BY <1>3 DEF Serialized, ZigZagTypes, Width, Types64
  <2>2. key % Half \in 0 .. Half - 1 /\ Same(key % Half, key, Half)
    BY <1>1, WordSize, Division, SameRemainder
  <2> QED
    BY <2>1, <2>2, WordSize
<1>4. CASE type \notin ZigZagTypes /\ type # "sfixed32"
  <2>1. Serialized(type, key) = key % Full
    BY <1>4 DEF Serialized
  <2>2. key % Full \in 0 .. Full - 1 /\ Same(key % Full, key, Full)
    BY <1>1, WordSize, Division, SameRemainder
  <2>3. Same(key % Full, key, Width(type))
    BY <1>1, <2>2, SameInHalf, TypesAreDisjoint DEF Words
  <2>4. WireType(type) = 5 => key % Full = key /\ key \in 0 .. Half - 1
    <3>1. WireType(type) = 5 => type \in UnsignedTypes /\ Width(type) = Half
      BY <1>4, TypesAreDisjoint DEF UnsignedTypes, Width, Types64
    <3>2. WireType(type) = 5 => key \in 0 .. Half - 1 /\ key \in 0 .. Full - 1
      BY <3>1, KeysOf, WordSize
    <3> QED
      BY <3>2, Small, WordSize
  <2> QED
    BY <1>4, <2>1, <2>2, <2>3, <2>4
<1> QED
  BY <1>2, <1>3, <1>4

\* What is read of it, into a union that held something else.
LEMMA ReadKey ==
  ASSUME NEW type \in KeyTypesOfMaps, NEW key \in Keys(type), NEW before \in Unions,
         NEW u, u = ReadValue(type, Serialized(type, key), before)
  PROVE  /\ u \in Unions
         /\ WireType(type) = 5 => u.lo = Serialized(type, key)
         /\ WireType(type) # 5 => AsUint64(u) = Serialized(type, key)
<1>1. PICK n \in 0 .. Full - 1 : n = Serialized(type, key)
  BY WrittenKey
<1>2. CASE WireType(type) = 5
  <2>1. u = [before EXCEPT !.lo = n] /\ n \in 0 .. Half - 1
    BY <1>1, <1>2, WrittenKey DEF ReadValue, SetUint32
  <2> QED
    BY <1>1, <1>2, <2>1 DEF Unions, Unsigned
<1>3. CASE WireType(type) # 5
  BY <1>1, <1>3, UnionSet DEF ReadValue
<1> QED
  BY <1>2, <1>3

\* PrimitiveEmitter prints what was written.
LEMMA PrintsKey ==
  ASSUME NEW type \in KeyTypesOfMaps, NEW key \in Keys(type), NEW before \in Unions
  PROVE  Printed(type, ReadValue(type, Serialized(type, key), before)) = key
<1>1. PICK u \in Unions : /\ u = ReadValue(type, Serialized(type, key), before)
                          /\ WireType(type) = 5 => u.lo = Serialized(type, key)
                          /\ WireType(type) # 5 => AsUint64(u) = Serialized(type, key)
  BY ReadKey
<1>2. PICK w \in Nat \ {0} : w = Width(type) /\ w \in Words
  BY TypesAreDisjoint
<1>3. PICK n \in 0 .. Full - 1 : n = Serialized(type, key)
  BY WrittenKey
<1>4. PICK raw : raw = Raw(type, u)
  OBVIOUS
<1>5. key \in Int
  BY KeysOf
<1>6. CASE type = "bool"
  <2>1. raw = n
    BY <1>1, <1>3, <1>4, <1>6 DEF Raw, WireType
  <2>2. key \in {0, 1} /\ n = key % Full
    BY <1>3, <1>6 DEF Keys, Serialized, ZigZagTypes
  <2>3. n = key
    BY <2>2, WordSize, Small
  <2>4. Printed(type, u) = IF raw # 0 THEN 1 ELSE raw
    BY <1>4, <1>6, TypesAreDisjoint DEF Printed, SignedTypes, ZigZagTypes
  <2> QED
    BY <1>1, <2>1, <2>2, <2>3, <2>4
<1>7. CASE type # "bool"
  <2>1. raw \in Int /\ Same(raw, n, w) /\ (type \notin Types64 => raw \in 0 .. w - 1)
        /\ (type \in Types64 => raw = n)
    <3>1. CASE type \in Types64
      BY <1>1, <1>2, <1>3, <1>4, <3>1, TypesAreDisjoint, SameSteps DEF Raw
    <3>2. CASE type \notin Types64
      <4>1. raw = u.lo /\ w = Half
        BY <1>2, <1>4, <1>7, <3>2 DEF Raw, Width
      <4>2. Same(u.lo, n, Half)
        <5>1. CASE WireType(type) = 5
          BY <1>1, <1>3, <5>1, WordSize, SameSteps
        <5>2. CASE WireType(type) # 5
          BY <1>1, <1>3, <5>2, UnionOf, WordSize, SameSteps
        <5> QED
          BY <5>1, <5>2
      <4> QED
        BY <3>2, <4>1, <4>2, UnionOf
    <3> QED
      BY <3>1, <3>2
  <2>2. raw \in 0 .. w - 1
    BY <1>2, <1>3, <2>1, TypesAreDisjoint
  <2>3. CASE type \in SignedTypes
    <3>1. Same(raw, key, w) /\ key \in Signed(w)
      BY <1>2, <1>3, <1>5, <2>1, <2>3, WrittenKey, KeysOf, TypesAreDisjoint, SameSteps
    <3>2. Printed(type, u) = AsSigned(raw, w)
      BY <1>2, <1>4, <2>3 DEF Printed
    <3> QED
      BY <1>1, <1>2, <2>1, <3>1, <3>2, SignedCast
  <2>4. CASE type \in UnsignedTypes
    <3>1. Same(raw, key, w) /\ key \in 0 .. w - 1
      BY <1>2, <1>3, <1>5, <2>1, <2>4, WrittenKey, KeysOf, TypesAreDisjoint, SameSteps
    <3>2. Printed(type, u) = raw
      BY <1>4, <2>4, TypesAreDisjoint DEF Printed
    <3> QED
      BY <1>1, <1>2, <2>2, <3>1, <3>2, SameSmall
  <2>5. CASE type \in ZigZagTypes
    <3>1. n = ZigZagEncode(key) /\ n \in 0 .. w - 1 /\ key \in Signed(w)
      BY <1>2, <1>3, <2>5, WrittenKey, KeysOf
    <3>2. raw = n
      BY <1>2, <2>1, <2>2, <3>1, SameSmall
    <3>3. Printed(type, u) = ZigZagDecode(raw)
      BY <1>4, <2>5, TypesAreDisjoint DEF Printed
    <3> QED
      BY <1>1, <1>2, <3>1, <3>2, <3>3, ZigZag
  <2> QED
    BY <1>7, <2>3, <2>4, <2>5 DEF KeyTypesOfMaps
<1> QED
  BY <1>6, <1>7

\* A numeral is read as the key that its bits are, and a key as itself.
LEMMA ParsedKey ==
  ASSUME NEW type \in KeyTypesOfMaps, NEW t, t.n \in Int
  PROVE  /\ \A p \in ParseKey(type, t) :
              /\ p \in Keys(type)
              /\ \E n \in Names(t) : n \in Int /\ Same(p, n, Width(type)) /\ (n \in Keys(type) => p = n)
         /\ t.kind \in TextOf(type) /\ Names(t) \subseteq Keys(type) => ParseKey(type, t) # {}
<1>1. PICK w \in Nat \ {0} : w = Width(type) /\ w \in Words
  BY TypesAreDisjoint
<1>2. CASE type = "bool"
  <2>1. ParseKey(type, t) = {b \in {0, 1} : t.kind = IF b = 1 THEN "true" ELSE "false"}
    BY <1>2 DEF ParseKey
  <2>2. Keys(type) = {0, 1} /\ TextOf(type) = {"true", "false"}
    BY <1>2 DEF Keys, TextOf
  <2>3. ASSUME NEW p \in ParseKey(type, t)
        PROVE  p \in Keys(type) /\ p \in Names(t) /\ p \in Int
    BY <2>1, <2>2 DEF Names
  <2>4. t.kind \in TextOf(type) => ParseKey(type, t) # {}
    <3>1. t.kind = "true" => 1 \in ParseKey(type, t)
      BY <2>1
    <3>2. t.kind = "false" => 0 \in ParseKey(type, t)
      BY <2>1
    <3> QED
      BY <2>2, <3>1, <3>2
  <2>5. \A p \in Int : Same(p, p, w)
    BY SameSteps
  <2>6. ASSUME NEW p \in ParseKey(type, t), NEW q \in Names(t)
        PROVE  p = q
    BY <2>1 DEF Names
  <2> QED
    BY <1>1, <2>3, <2>4, <2>5, <2>6
<1>3. CASE type # "bool"
  <2>1. ParseKey(type, t) = IF t.kind = "numeral" THEN ParseNum(type, t.n) ELSE {}
    BY <1>3 DEF ParseKey
  <2>2. TextOf(type) = {"numeral"} /\ (t.kind = "numeral" => Names(t) = {t.n})
    BY <1>3 DEF TextOf, Names
  <2>3. CASE type \in UnsignedTypes
    <3>1. ParseNum(type, t.n) = {m % w : m \in {t.n} \cap (-(Full - 1) .. Full - 1)}
      BY <1>1, <2>3 DEF ParseNum
    <3>2. Keys(type) = 0 .. w - 1
      BY <1>1, <1>3, <2>3 DEF Keys, Unsigned
    <3>3. t.n % w \in 0 .. w - 1 /\ Same(t.n % w, t.n, w) /\ (t.n \in 0 .. w - 1 => t.n % w = t.n)
      BY Division, SameRemainder, Small
    <3>4. ASSUME NEW p \in ParseNum(type, t.n)
          PROVE  p = t.n % w
      BY <3>1
    <3>5. t.n \in 0 .. w - 1 => t.n % w \in ParseNum(type, t.n)
      <4>1. t.n \in 0 .. w - 1 => t.n \in -(Full - 1) .. Full - 1
        BY <1>1, WordSize DEF Words
      <4> QED
        BY <3>1, <4>1
    <3> QED
      BY <1>1, <2>1, <2>2, <3>2, <3>3, <3>4, <3>5
  <2>4. CASE type \notin UnsignedTypes
    <3>1. ParseNum(type, t.n) = {AsSigned(m, w) : m \in {t.n} \cap Signed(Full)}
      BY <1>1, <2>4 DEF ParseNum
    <3>2. Keys(type) = Signed(w)
      BY <1>1, <1>3, <2>4 DEF Keys
    <3>3. AsSigned(t.n, w) \in Signed(w) /\ Same(AsSigned(t.n, w), t.n, w)
          /\ (t.n \in Signed(w) => AsSigned(t.n, w) = t.n)
      BY <1>1, SignedCast, SameSteps
    <3>4. ASSUME NEW p \in ParseNum(type, t.n)
          PROVE  p = AsSigned(t.n, w)
      BY <3>1
    <3>5. t.n \in Signed(w) => AsSigned(t.n, w) \in ParseNum(type, t.n)
      <4>1. PICK h \in Nat \ {0} : w = 2 * h /\ w \div 2 = h
        BY <1>1, WordSize
      <4>2. PICK f \in Nat \ {0} : Full = 2 * f /\ Full \div 2 = f
        BY WordSize DEF Words
      <4>3. h <= f
        BY <1>1, <4>1, <4>2, WordSize DEF Words
      <4>4. t.n \in Signed(w) => t.n \in Signed(Full)
        BY <4>1, <4>2, <4>3 DEF Signed
      <4> QED
        BY <3>1, <4>4
    <3> QED
      BY <1>1, <2>1, <2>2, <3>2, <3>3, <3>4, <3>5
  <2> QED
    BY <2>3, <2>4
<1> QED
  BY <1>2, <1>3

\* What the wanted key of a MapFilter is: of 32 bits, only the lower half is set.
LEMMA WantedKey ==
  ASSUME NEW type \in KeyTypesOfMaps, NEW p \in Keys(type), NEW before \in Unions,
         NEW u, u = SetKey(type, p, before)
  PROVE  \E m \in 0 .. Width(type) - 1 :
           /\ u \in Unions
           /\ m = IF type \in ZigZagTypes THEN ZigZagEncode(p) ELSE p % Width(type)
           /\ type \in Types64 => AsUint64(u) = m
           /\ type \notin Types64 => u.lo = m /\ u.hi = before.hi
<1>1. PICK w \in Nat \ {0} : w = Width(type) /\ w \in Words
  BY TypesAreDisjoint
<1>2. PICK m : m = IF type \in ZigZagTypes THEN ZigZagEncode(p) ELSE p % w
  OBVIOUS
<1>3. m \in 0 .. w - 1
  <2>1. CASE type \in ZigZagTypes
    BY <1>1, <1>2, <2>1, KeysOf, ZigZag
  <2>2. CASE type \notin ZigZagTypes
    BY <1>2, <2>2, KeysOf, Division
  <2> QED
    BY <2>1, <2>2
<1>4. CASE type \in Types64
  BY <1>1, <1>2, <1>3, <1>4, TypesAreDisjoint, UnionSet DEF SetKey
<1>5. CASE type \notin Types64
  <2>1. u = [before EXCEPT !.lo = m] /\ w = Half
    BY <1>1, <1>2, <1>5, TypesAreDisjoint DEF SetKey, SetUint32
  <2>2. u \in Unions /\ u.lo = m /\ u.hi = before.hi
    BY <1>3, <2>1 DEF Unions, Unsigned
  <2> QED
    BY <1>1, <1>2, <1>3, <1>5, <2>2
<1> QED
  BY <1>4, <1>5

\* MapFilter finds the key that is written to be the wanted one.
Matches(type, key, u) ==
  Serialized(type, key) = IF WireType(type) = 5 THEN u.lo ELSE AsUint64(u)

LEMMA ComparedKey ==
  ASSUME NEW type \in KeyTypesOfMaps, NEW key \in Keys(type), NEW before \in Unions, NEW u
  PROVE  ValueEquals(type, ReadValue(type, Serialized(type, key), before), u) <=> Matches(type, key, u)
  BY ReadKey DEF ValueEquals, Matches

LEMMA MatchesNoOther ==
  ASSUME NEW type \in KeyTypesOfMaps, NEW key \in Keys(type), NEW p \in Keys(type), NEW before \in Unions,
         Matches(type, key, SetKey(type, p, before))
  PROVE  Same(key, p, Width(type))
<1>1. PICK w \in Nat \ {0} : w = Width(type) /\ w \in Words
  BY TypesAreDisjoint
<1>2. PICK u : u = SetKey(type, p, before)
  OBVIOUS
<1>3. PICK m \in 0 .. w - 1 :
        /\ u \in Unions
        /\ m = IF type \in ZigZagTypes THEN ZigZagEncode(p) ELSE p % w
        /\ type \in Types64 => AsUint64(u) = m
        /\ type \notin Types64 => u.lo = m /\ u.hi = before.hi
  BY <1>1, <1>2, WantedKey
<1>4. PICK n \in 0 .. Full - 1 : n = Serialized(type, key)
  BY WrittenKey
<1>5. key \in Int /\ p \in Int
  BY KeysOf
<1>6. Same(n, m, w)
  <2>1. n = IF WireType(type) = 5 THEN u.lo ELSE AsUint64(u)
    BY <1>2, <1>4 DEF Matches
  <2>2. CASE type \in Types64
    BY <1>3, <1>4, <2>1, <2>2, TypesAreDisjoint, SameSteps
  <2>3. CASE type \notin Types64
    <3>1. w = Half
      BY <1>1, <2>3, TypesAreDisjoint
    <3>2. CASE WireType(type) = 5
      BY <1>3, <1>4, <2>1, <2>3, <3>2, SameSteps
    <3>3. CASE WireType(type) # 5
      BY <1>3, <2>1, <2>3, <3>1, <3>3, UnionOf
    <3> QED
      BY <3>2, <3>3
  <2> QED
    BY <2>2, <2>3
<1>7. CASE type \in ZigZagTypes
  <2>1. n = ZigZagEncode(key) /\ n \in 0 .. w - 1 /\ m = ZigZagEncode(p)
    BY <1>1, <1>3, <1>4, <1>7, WrittenKey
  <2>2. n = m
    BY <1>6, <2>1, SameSmall
  <2>3. key = p
    BY <1>1, <1>7, <2>1, <2>2, KeysOf, ZigZag
  <2> QED
    BY <1>1, <1>5, <2>3, SameSteps
<1>8. CASE type \notin ZigZagTypes
  <2>1. Same(n, key, w) /\ Same(m, p, w)
    BY <1>1, <1>3, <1>4, <1>5, <1>8, WrittenKey, SameRemainder
  <2> QED
    BY <1>1, <1>5, <1>6, <2>1, SameSteps
<1> QED
  BY <1>7, <1>8

LEMMA MatchesItself ==
  ASSUME NEW type \in KeyTypesOfMaps, NEW p \in Keys(type), NEW before \in Unions,
         Width(type) = Half /\ WireType(type) = 0 => before.hi = 0 /\ (type = "int32" => p >= 0)
  PROVE  Matches(type, p, SetKey(type, p, before))
<1>1. PICK w \in Nat \ {0} : w = Width(type) /\ w \in Words
  BY TypesAreDisjoint
<1>2. PICK u : u = SetKey(type, p, before)
  OBVIOUS
<1>3. PICK m \in 0 .. w - 1 :
        /\ u \in Unions
        /\ m = IF type \in ZigZagTypes THEN ZigZagEncode(p) ELSE p % w
        /\ type \in Types64 => AsUint64(u) = m
        /\ type \notin Types64 => u.lo = m /\ u.hi = before.hi
  BY <1>1, <1>2, WantedKey
<1>4. p \in Int
  BY KeysOf
<1>5. CASE type \in Types64
  <2>1. w = Full /\ WireType(type) # 5
    BY <1>1, <1>5, TypesAreDisjoint
  <2>2. Serialized(type, p) = m
    BY <1>3, <1>5, <2>1 DEF Serialized, Types64
  <2> QED
    BY <1>2, <1>3, <1>5, <2>1, <2>2 DEF Matches
<1>6. CASE type \notin Types64
  <2>1. w = Half
    BY <1>1, <1>6, TypesAreDisjoint
  <2>2. Serialized(type, p) = m
    <3>1. CASE type \in ZigZagTypes
      BY <1>3, <3>1 DEF Serialized
    <3>2. CASE type = "sfixed32"
      BY <1>3, <2>1, <3>2, TypesAreDisjoint DEF Serialized
    <3>3. CASE type \notin ZigZagTypes /\ type # "sfixed32"
      <4>1. p \in 0 .. Half - 1
        <5>1. CASE type \in UnsignedTypes \cup {"bool"}
          BY <1>1, <2>1, <5>1, KeysOf
        <5>2. CASE type \in SignedTypes
          <6>1. type = "int32" /\ WireType(type) = 0
            BY <1>6, <3>3, <5>2 DEF SignedTypes, Types64, WireType
          <6>2. p \in Signed(Half) /\ p >= 0
            BY <1>1, <2>1, <5>2, <6>1, KeysOf
          <6>3. PICK h \in Nat \ {0} : Half = 2 * h /\ Half \div 2 = h
            BY WordSize DEF Words
          <6> QED
            BY <6>2, <6>3 DEF Signed
        <5> QED
          BY <3>3, <5>1, <5>2 DEF KeyTypesOfMaps
      <4>2. p % Full = p /\ p % Half = p
        BY <4>1, WordSize, Small
      <4>3. Serialized(type, p) = p % Full
        BY <3>3 DEF Serialized
      <4> QED
        BY <1>3, <2>1, <3>3, <4>2, <4>3
    <3> QED
      BY <3>1, <3>2, <3>3
  <2>3. CASE WireType(type) = 5
    BY <1>2, <1>3, <1>6, <2>2, <2>3 DEF Matches
  <2>4. CASE WireType(type) # 5
    <3>1. WireType(type) = 0
      BY <1>6, <2>4 DEF WireType, Types64
    <3>2. u.hi = 0
      BY <1>1, <1>3, <1>6, <2>1, <3>1
    <3>3. AsUint64(u) = m
      BY <1>3, <1>6, <3>2, UnionOf
    <3> QED
      BY <1>2, <2>2, <2>4, <3>3 DEF Matches
  <2> QED
    BY <2>3, <2>4
<1> QED
  BY <1>5, <1>6

-----------------------------------------------------------------------------
(* The invariant *)

MTypeOK ==
  /\ ty \in KeyTypesOfMaps
  /\ column \in Seq(Keys(ty))
  /\ text.n \in Int
  /\ pc \in {"Compile", "Scan", "BadQuery"}
  /\ garbage \in Unions /\ wanted \in Unions
  /\ printed \in Seq(Int) /\ Len(printed) <= Len(column)

\* Wanted is what the text has been parsed to; the entries read so far have been
\* printed, and those selected whose key matches it.
MInv ==
  /\ MTypeOK
  /\ pc = "Compile" => wanted = garbage
  /\ pc # "Scan" => printed = <<>>
  /\ pc = "BadQuery" => ParseKey(ty, text) = {}
  /\ pc = "Scan" => \E p \in ParseKey(ty, text) : wanted = SetKey(ty, p, garbage)
  /\ PrintsKeys
  /\ selected = {i \in DOMAIN printed : Matches(ty, column[i], wanted)}

LEMMA KeysInitial ==
  ASSUME Init
  PROVE  MInv
<1>1. ty \in KeyTypesOfMaps /\ column \in Seq(Keys(ty)) /\ text.n \in Int
  BY KeyTypesAssumption, ColumnsAssumption, TextsAssumption DEF Init, KeyTypesOfMaps
<1>2. <<>> \in Seq(Int) /\ Len(<<>>) = 0 /\ Len(column) \in Nat
  BY <1>1, LenProperties, EmptySeq
<1>3. MTypeOK
  BY <1>1, <1>2 DEF Init, MTypeOK
<1> QED
  BY <1>3 DEF Init, MInv, PrintsKeys

LEMMA RejectedKeys ==
  ASSUME MInv, Rejected
  PROVE  MInv'
  BY DEF MInv, MTypeOK, Rejected, PrintsKeys

LEMMA CompileKeys ==
  ASSUME MInv, Compile
  PROVE  MInv'
<1>1. PICK p \in ParseKey(ty, text) : wanted' = SetKey(ty, p, garbage)
  BY DEF Compile, MInv
<1>2. p \in Keys(ty)
  BY <1>1, ParsedKey DEF MInv, MTypeOK
<1>3. wanted' \in Unions
  BY <1>1, <1>2, WantedKey DEF MInv, MTypeOK
<1>4. printed = <<>> /\ selected = {}
  BY DEF Compile, MInv
<1> QED
  BY <1>1, <1>3, <1>4 DEF Compile, MInv, MTypeOK, PrintsKeys

LEMMA ReadEntryKeys ==
  ASSUME MInv, NEW before \in Unions, ReadEntry(before)
  PROVE  MInv'
<1>1. PICK n \in Nat : n = Len(printed)
  BY LenProperties DEF MInv, MTypeOK
<1>2. PICK i : i = n + 1
  OBVIOUS
<1>3. PICK key : key = ReadValue(ty, Serialized(ty, column[i]), before)
  OBVIOUS
<1>4. /\ pc = "Scan" /\ n < Len(column)
      /\ printed' = Append(printed, Printed(ty, key))
      /\ selected' = IF ValueEquals(ty, key, wanted) THEN selected \cup {i} ELSE selected
      /\ UNCHANGED <<ty, column, text, pc, garbage, wanted>>
  BY <1>1, <1>2, <1>3 DEF ReadEntry
<1>5. MTypeOK /\ Len(column) \in Nat
  BY LenProperties DEF MInv, MTypeOK
<1>6. column[i] \in Keys(ty)
  <2>1. i \in 1 .. Len(column)
    BY <1>1, <1>2, <1>4, <1>5
  <2> QED
    BY <1>5, <2>1, ElementOfSeq DEF MTypeOK
<1>7. Printed(ty, key) = column[i] /\ column[i] \in Int
  BY <1>3, <1>5, <1>6, PrintsKey, KeysOf DEF MTypeOK
<1>8. ValueEquals(ty, key, wanted) <=> Matches(ty, column[i], wanted)
  BY <1>3, <1>5, <1>6, ComparedKey DEF MTypeOK
<1>9. /\ printed' \in Seq(Int) /\ Len(printed') = n + 1
      /\ \A k \in 1 .. n : printed'[k] = printed[k]
      /\ printed'[n + 1] = column[i]
      /\ DOMAIN printed = 1 .. n /\ DOMAIN printed' = 1 .. n + 1
  BY <1>1, <1>4, <1>5, <1>7, AppendProperties, LenProperties DEF MTypeOK
<1>10. MTypeOK'
  BY <1>1, <1>4, <1>5, <1>9 DEF MTypeOK
<1>11. PrintsKeys'
  <2>1. \A k \in 1 .. n + 1 : k \in 1 .. n \/ k = n + 1
    BY <1>1
  <2> QED
    BY <1>2, <1>4, <1>9, <2>1 DEF MInv, PrintsKeys
<1>12. selected' = {k \in DOMAIN printed' : Matches(ty, column[k], wanted)}
  <2>1. \A k : k \in 1 .. n + 1 <=> k \in 1 .. n \/ k = i
    BY <1>1, <1>2
  <2>2. selected = {k \in 1 .. n : Matches(ty, column[k], wanted)}
    BY <1>9 DEF MInv
  <2> QED
    BY <1>4, <1>8, <1>9, <2>1, <2>2
<1> QED
  BY <1>4, <1>10, <1>11, <1>12 DEF MInv

LEMMA KeysInductive ==
  ASSUME MInv, [Next]_vars
  PROVE  MInv'
<1>1. CASE UNCHANGED vars
  BY <1>1 DEF vars, MInv, MTypeOK, PrintsKeys
<1>2. CASE Done
  BY <1>1, <1>2 DEF Done
<1> QED
  BY <1>1, <1>2, RejectedKeys, CompileKeys, ReadEntryKeys DEF Next

LEMMA KeysInvariant == Spec => []MInv
<1>1. Init => MInv
  BY KeysInitial
<1>2. MInv /\ [Next]_vars => MInv'
  BY KeysInductive
<1> QED
  BY <1>1, <1>2, PTL DEF Spec

-----------------------------------------------------------------------------
(* The theorems *)

\* PrimitiveEmitter prints every key as it was written, whatever the width of a
\* word, the type of the key, and what was in the union it is read into.
THEOREM KeysArePrinted == Spec => []PrintsKeys
<1>1. MInv => PrintsKeys
  BY DEF MInv
<1> QED
  BY <1>1, KeysInvariant, PTL

LEMMA SelectsOnly ==
  ASSUME MInv
  PROVE  SelectsNoOtherKey
<1> SUFFICES ASSUME NEW i \in selected
             PROVE  \E n \in Names(text) : (column[i] - n) % Width(ty) = 0
  BY DEF SelectsNoOtherKey
<1>1. ty \in KeyTypesOfMaps /\ garbage \in Unions /\ text.n \in Int
  BY DEF MInv, MTypeOK
<1>2. i \in DOMAIN printed /\ Matches(ty, column[i], wanted)
  BY DEF MInv
<1>3. pc = "Scan"
  BY <1>2 DEF MInv
<1>4. PICK p \in ParseKey(ty, text) : wanted = SetKey(ty, p, garbage)
  BY <1>3 DEF MInv
<1>5. p \in Keys(ty) /\ \E n \in Names(text) : n \in Int /\ Same(p, n, Width(ty))
  BY <1>1, ParsedKey
<1>6. column[i] \in Keys(ty)
  <2>1. i \in 1 .. Len(column)
    BY <1>2, LenProperties DEF MInv, MTypeOK
  <2> QED
    BY <2>1, ElementOfSeq DEF MInv, MTypeOK
<1>7. Same(column[i], p, Width(ty))
  BY <1>1, <1>2, <1>4, <1>5, <1>6, MatchesNoOther
<1>8. PICK n \in Names(text) : n \in Int /\ Same(p, n, Width(ty))
  BY <1>5
<1>9. Same(column[i], n, Width(ty)) /\ column[i] \in Int
  BY <1>1, <1>5, <1>6, <1>7, <1>8, KeysOf, TypesAreDisjoint, SameSteps
<1>10. (column[i] - n) % Width(ty) = 0
  <2>1. PICK w \in Nat \ {0} : w = Width(ty)
    BY <1>1, TypesAreDisjoint
  <2>2. PICK key \in Int : key = column[i]
    BY <1>9
  <2>3. PICK m \in Int : m = n
    BY <1>8
  <2>4. Same(key, m, w)
    BY <1>9, <2>1, <2>2, <2>3
  <2>5. (key - m) % w = 0
    BY <2>4, SameRemainder
  <2> QED
    BY <2>1, <2>2, <2>3, <2>5
<1> QED
  BY <1>10

\* No selector selects an entry with another key than the one it names, but for
\* the bits of a numeral that are cut off.
THEOREM OtherKeysAreNotSelected == Spec => []SelectsNoOtherKey
<1>1. MInv => SelectsNoOtherKey
  BY SelectsOnly
<1> QED
  BY <1>1, KeysInvariant, PTL

LEMMA FindsEntries ==
  ASSUME MInv
  PROVE  KeysFindTheirEntries
<1> SUFFICES ASSUME NamesKey, ComparedAsSet
             PROVE  pc # "BadQuery" /\ NamedEntries \subseteq selected
  BY DEF KeysFindTheirEntries
<1>1. ty \in KeyTypesOfMaps /\ garbage \in Unions /\ text.n \in Int
  BY DEF MInv, MTypeOK
<1>2. text.kind \in TextOf(ty) /\ Names(text) \subseteq Keys(ty)
  BY DEF NamesKey
<1>3. pc # "BadQuery"
  BY <1>1, <1>2, ParsedKey DEF MInv
<1>4. ASSUME NEW i \in NamedEntries
      PROVE  i \in selected
  <2>1. i \in DOMAIN printed /\ column[i] \in Names(text)
    BY <1>4 DEF NamedEntries
  <2>2. pc = "Scan"
    BY <2>1 DEF MInv
  <2>3. PICK p \in ParseKey(ty, text) : wanted = SetKey(ty, p, garbage)
    BY <2>2 DEF MInv
  <2>4. PICK n \in Names(text) : n \in Keys(ty) => p = n
    BY <1>1, <2>3, ParsedKey
  <2>5. p = n /\ p \in Keys(ty)
    BY <1>2, <2>4
  <2>6. \A k \in Names(text), l \in Names(text) : k = l
    BY DEF Names
  <2>7. column[i] = p
    BY <2>1, <2>4, <2>5, <2>6
  <2>8. Width(ty) = Half /\ WireType(ty) = 0 => garbage.hi = 0 /\ (ty = "int32" => p >= 0)
    <3>1. ty = "int32" => p = text.n
      <4>1. ty = "int32" => text.kind = "numeral"
        BY <1>2 DEF TextOf
      <4> QED
        BY <2>5, <4>1 DEF Names
    <3> QED
      BY <3>1 DEF ComparedAsSet
  <2>9. Matches(ty, p, wanted)
    BY <1>1, <2>3, <2>5, <2>8, MatchesItself
  <2> QED
    BY <2>1, <2>7, <2>9 DEF MInv
<1> QED
  BY <1>3, <1>4

\* A key selects, by the text it is printed as, each of its entries, unless it is
\* compared with bits of wanted_key_field that nothing has set.
THEOREM KeysAreFound == Spec => []KeysFindTheirEntries
<1>1. MInv => KeysFindTheirEntries
  BY FindsEntries
<1> QED
  BY <1>1, KeysInvariant, PTL

=============================================================================
