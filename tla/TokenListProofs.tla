---------------------------- MODULE TokenListProofs ----------------------------
(* The tokens tile every file, whatever its length and wherever the arena puts    *)
(* them: the invariant of tokenize (tokenizer.c:97-117) under the steps of         *)
(* TokenList, which are those of Tokenizer or leave its variables alone.           *)
EXTENDS TokenList, FiniteSets, FiniteSetTheorems, SequenceTheorems, TLAPS

(* Induction over the natural numbers, for a set of them instead of a predicate: the  *)
(* step maps the members below a number that is missing into themselves, so onto.      *)
LEMMA SetInduction ==
  ASSUME NEW S \in SUBSET Nat, 0 \in S, \A n \in S : n + 1 \in S
  PROVE  S = Nat
<1>. SUFFICES ASSUME NEW k \in Nat \ {0}, k \notin S PROVE FALSE
  OBVIOUS
<1>. DEFINE D    == {n \in 0 .. k : n \in S /\ n < k}
            step == [n \in D |-> n + 1]
<1>1. 0 \in D /\ D \in SUBSET Nat /\ \A n \in D : n <= k
  OBVIOUS
<1>2. ASSUME NEW n \in D PROVE n + 1 \in D
  <2>1. n + 1 \in S /\ n + 1 # k
    OBVIOUS
  <2>. QED  BY <2>1
<1>. HIDE DEF D
<1>3. IsFiniteSet(D)
  BY <1>1, FS_BoundedSetOfNaturals
<1>4. step \in Injection(D, D)
  BY <1>1, <1>2 DEF Injection, IsInjective
<1>5. step \in Surjection(D, D)
  BY <1>3, <1>4, FS_Injection
<1>6. PICK n \in D : step[n] = 0
  BY <1>1, <1>5 DEF Surjection
<1>. QED  BY <1>1, <1>6

(* A non-empty set of numbers has a least element.                                    *)
LEMMA LeastNat ==
  ASSUME NEW T \in SUBSET Nat, T # {}
  PROVE  \E x \in T : \A y \in T : x <= y
<1>. DEFINE Below == {d \in Nat : \A t \in T : d <= t}
<1>1. PICK t \in T : TRUE
  OBVIOUS
<1>2. Below \in SUBSET Nat /\ 0 \in Below /\ t + 1 \notin Below /\ t + 1 \in Nat
  BY <1>1
<1>3. PICK d \in Below : d + 1 \notin Below
  <2>. HIDE DEF Below
  <2>. QED  BY <1>2, SetInduction
<1>. QED  BY <1>3

(* No step of the storage touches the text. *)
Reads ==
    \/ Next
    \/ Finish(FALSE)
    \/ pc' = "aborted" /\ UNCHANGED <<input, behind, idx, token>>

LEMMA ListSteps == ListSpec => Init /\ [][Reads]_vars
<1>1. ListInit => Init
  BY DEF ListInit
<1>2. [ListNext]_listVars => [Reads]_vars
  BY DEF ListNext, listVars, Reads, Next, AllocMain, PushFile, PlaceFile, CopyMain,
         PushFirst, PlaceFirst, Grow, PushToken, AddToken, EndUnread, AbortRead, vars
<1>. QED  BY <1>1, <1>2, PTL DEF ListSpec

------------------------------------------------------------------------------
(* The file and the byte behind it. *)
File == input \in Seq(0 .. 255) /\ behind \in Unwritten

LEMMA ByteType ==
  ASSUME File, NEW k \in 0 .. Len(input)
  PROVE  Byte(k) \in 0 .. 255
<1>1. behind \in 0 .. 255
  BY UnwrittenAssumption DEF File
<1>2. CASE k < Len(input)
  <2>1. k + 1 \in 1 .. Len(input)
    BY <1>2 DEF File
  <2>2. input[k + 1] \in 0 .. 255
    BY <2>1, ElementOfSeq DEF File
  <2>. QED  BY <1>2, <2>2 DEF Byte
<1>. QED  BY <1>1, <1>2 DEF Byte

(* The classes of bytes have none in common but the digit 0, which is a mark. *)
LEMMA Classes ==
  ASSUME NEW b
  PROVE  /\ b \in Space => b \notin Alpha /\ b \notin Digit
         /\ b \in Marks => b \notin Space /\ b \notin Alpha
         /\ b \in Alpha => b \notin Digit
<1>1. b \in Space => b \notin Alpha /\ b \notin Digit
  BY DEF Space, Alpha, Digit
<1>2. b \in Marks => b \notin Space /\ b \notin Alpha
  BY DEF Marks, Space, Alpha
<1>3. b \in Alpha => b \notin Digit
  BY DEF Alpha, Digit
<1>. QED  BY <1>1, <1>2, <1>3

LEMMA BehindStops ==
  ASSUME File
  PROVE  /\ Byte(Len(input)) \notin Space
         /\ Byte(Len(input)) \notin Alpha
         /\ Byte(Len(input)) \notin Digit
         /\ Byte(Len(input)) \notin Marks
BY UnwrittenAssumption DEF File, Byte

(* A run ends within the file, or at the byte behind it. *)
LEMMA RunEnds ==
  ASSUME File, NEW S, Byte(Len(input)) \notin S, NEW k \in 0 .. Len(input)
  PROVE  /\ EndOfRun(k, S) \in k .. Len(input)
         /\ Byte(EndOfRun(k, S)) \notin S
         /\ \A m \in k .. EndOfRun(k, S) - 1 : Byte(m) \in S
<1> DEFINE Ends == {e \in k .. Len(input) : Byte(e) \notin S}
<1>1. Ends \in SUBSET Nat /\ Ends # {}
  BY DEF File
<1>2. PICK e \in Ends : \A d \in Ends : e <= d
  <2>. HIDE DEF Ends
  <2>. QED  BY <1>1, LeastNat
<1>3. /\ e \in k .. Len(input)
      /\ Byte(e) \notin S
      /\ \A m \in k .. e - 1 : Byte(m) \in S
  <2>1. ASSUME NEW m \in k .. e - 1, Byte(m) \notin S PROVE FALSE
    <3>1. m \in Ends /\ ~(e <= m)
      BY <1>2, <2>1 DEF File
    <3>. QED  BY <1>2, <3>1
  <2>. QED  BY <1>2, <2>1
<1>. QED  BY <1>3 DEF EndOfRun

(* A run of at least one byte is not empty. *)
LEMMA RunNotEmpty ==
  ASSUME File, NEW S, Byte(Len(input)) \notin S, NEW k \in 0 .. Len(input), Byte(k) \in S
  PROVE  EndOfRun(k, S) \in k + 1 .. Len(input)
<1>1. EndOfRun(k, S) \in k .. Len(input) /\ EndOfRun(k, S) # k
  BY RunEnds
<1>. QED  BY <1>1 DEF File

------------------------------------------------------------------------------
(* u64_from_string as an equation for the values of the prefixes of s.             *)
Wrapped(v) == v % Modulus
NextValue(x, s, n) == Wrapped(x[n - 1] * 10 + s[n] - 48)
Values(s, x) == x = [n \in 0 .. Len(s) |-> IF n = 0 THEN 0 ELSE NextValue(x, s, n)]

LEMMA WrappedType ==
  ASSUME NEW v \in Int
  PROVE  Wrapped(v) \in 0 .. Modulus - 1
BY ModulusAssumption DEF Wrapped

LEMMA ShiftType ==
  ASSUME NEW a \in Int, NEW b \in 0 .. 255
  PROVE  a * 10 + b - 48 \in Int
OBVIOUS

(* The loop has a result: each round extends the values of the ones before. *)
LEMMA ValuesExist ==
  ASSUME NEW s \in Seq(0 .. 255)
  PROVE  \E x : Values(s, x)
<1> DEFINE UpTo(n, x) == x = [k \in 0 .. n |-> IF k = 0 THEN 0 ELSE NextValue(x, s, k)]
           S == {n \in Nat : \E x : UpTo(n, x)}
<1>1. 0 \in S
  <2>1. UpTo(0, [k \in 0 .. 0 |-> 0])
    OBVIOUS
  <2>. HIDE DEF UpTo
  <2>. QED  BY <2>1
<1>2. ASSUME NEW n \in S PROVE n + 1 \in S
  <2>1. PICK x : UpTo(n, x)
    OBVIOUS
  <2> DEFINE y == [k \in 0 .. n + 1 |-> IF k <= n THEN x[k] ELSE NextValue(x, s, k)]
  <2>2. \A k \in 0 .. n : y[k] = x[k]
    OBVIOUS
  <2>3. \A k \in 0 .. n + 1 : k # 0 => NextValue(y, s, k) = NextValue(x, s, k)
    <3>. HIDE DEF y
    <3>. SUFFICES ASSUME NEW k \in 0 .. n + 1, k # 0 PROVE NextValue(y, s, k) = NextValue(x, s, k)
      OBVIOUS
    <3>1. k - 1 \in 0 .. n
      OBVIOUS
    <3>. QED  BY <2>2, <3>1 DEF NextValue
  <2>4. \A k \in 0 .. n : x[k] = IF k = 0 THEN 0 ELSE NextValue(x, s, k)
    <3>1. x = [k \in 0 .. n |-> IF k = 0 THEN 0 ELSE NextValue(x, s, k)]
      BY <2>1
    <3>. QED  BY <3>1, Zenon
  <2>5. \A k \in 0 .. n + 1 : y[k] = IF k = 0 THEN 0 ELSE NextValue(y, s, k)
    <3>. HIDE DEF UpTo
    <3>1. \A k \in 0 .. n + 1 : y[k] = IF k = 0 THEN 0 ELSE NextValue(x, s, k)
      BY <2>4
    <3>. HIDE DEF y
    <3>. QED  BY <2>3, <3>1
  <2>6. y = [k \in 0 .. n + 1 |-> y[k]]
    OBVIOUS
  <2>7. UpTo(n + 1, y)
    <3>. HIDE DEF y
    <3>. QED  BY <2>5, <2>6
  <2>. HIDE DEF UpTo, y
  <2>. QED  BY <2>7
<1>3. Len(s) \in S
  <2>. HIDE DEF S
  <2>1. S = Nat
    <3>1. S \in SUBSET Nat
      BY DEF S
    <3>. QED  BY <1>1, <1>2, <3>1, SetInduction
  <2>. QED  BY <2>1
<1>. QED  BY <1>3 DEF Values

LEMMA ValuesOf ==
  ASSUME NEW s \in Seq(0 .. 255)
  PROVE  \E x : Values(s, x) /\ u64_from_string(s) = x[Len(s)]
<1>1. Values(s, CHOOSE x : Values(s, x))
  BY ValuesExist
<1>2. u64_from_string(s) = (CHOOSE x : Values(s, x))[Len(s)]
  BY DEF u64_from_string, Values, NextValue, Wrapped
<1>. QED  BY <1>1, <1>2

(* Its values are numbers of an u64. *)
LEMMA ValuesType ==
  ASSUME NEW s \in Seq(0 .. 255), NEW x, Values(s, x)
  PROVE  \A n \in 0 .. Len(s) : x[n] \in 0 .. Modulus - 1
<1> DEFINE S == {n \in Nat : n <= Len(s) => x[n] \in 0 .. Modulus - 1}
<1>1. x[0] = 0 /\ \A n \in 1 .. Len(s) : x[n] = Wrapped(x[n - 1] * 10 + s[n] - 48)
  BY DEF Values, NextValue
<1>2. S \in SUBSET Nat /\ 0 \in S
  BY <1>1, ModulusAssumption
<1>3. ASSUME NEW n \in S PROVE n + 1 \in S
  <2>. SUFFICES ASSUME n + 1 <= Len(s) PROVE x[n + 1] \in 0 .. Modulus - 1
    OBVIOUS
  <2>1. n + 1 \in 1 .. Len(s) /\ (n + 1) - 1 = n
    OBVIOUS
  <2>2. x[n + 1] = Wrapped(x[n] * 10 + s[n + 1] - 48)
    BY <1>1, <2>1
  <2>3. s[n + 1] \in 0 .. 255
    BY <2>1, ElementOfSeq
  <2>4. x[n] \in Int
    BY ModulusAssumption
  <2>5. x[n] * 10 + s[n + 1] - 48 \in Int
    BY <2>3, <2>4, ShiftType
  <2>. QED  BY <2>2, <2>5, WrappedType
<1>4. S = Nat
  <2>. HIDE DEF S
  <2>. QED  BY <1>2, <1>3, SetInduction
<1>. QED  BY <1>4

LEMMA NumberType ==
  ASSUME NEW s \in Seq(0 .. 255)
  PROVE  u64_from_string(s) \in 0 .. Modulus - 1
BY ValuesOf, ValuesType

LEMMA TextType ==
  ASSUME File, NEW i \in 0 .. Len(input), NEW e \in i .. Len(input)
  PROVE  /\ Text(i, e) \in Seq(0 .. 255)
         /\ Len(Text(i, e)) = e - i
         /\ \A k \in 1 .. e - i : Text(i, e)[k] = input[i + k]
<1>1. Len(input) \in Nat /\ i + 1 \in Int /\ e \in Int
  BY DEF File
<1>2. \A k \in i + 1 .. e : input[k] \in 0 .. 255
  <2>. SUFFICES ASSUME NEW k \in i + 1 .. e PROVE input[k] \in 0 .. 255
    OBVIOUS
  <2>1. k \in 1 .. Len(input)
    BY <1>1
  <2>. QED  BY <2>1, ElementOfSeq DEF File
<1>3. /\ SubSeq(input, i + 1, e) \in Seq(0 .. 255)
      /\ Len(SubSeq(input, i + 1, e)) = IF i + 1 <= e THEN e - (i + 1) + 1 ELSE 0
      /\ \A k \in 1 .. e - (i + 1) + 1 : SubSeq(input, i + 1, e)[k] = input[(i + 1) + k - 1]
  BY <1>1, <1>2, SubSeqProperties
<1>4. e - (i + 1) + 1 = e - i /\ (i + 1 <= e \/ e - i = 0)
  BY <1>1
<1>5. \A k \in 1 .. e - i : (i + 1) + k - 1 = i + k
  BY <1>1
<1>. QED  BY <1>3, <1>4, <1>5 DEF Text
------------------------------------------------------------------------------
(* Numbers with the same rest differ by a multiple. *)
LEMMA Divides ==
  ASSUME NEW m \in Nat \ {0}, NEW v \in Int
  PROVE  \E q \in Int : v = q * m + (v % m) /\ v % m \in 0 .. m - 1
<1>1. v = m * (v \div m) + (v % m) /\ v \div m \in Int /\ v % m \in 0 .. m - 1
  OBVIOUS
<1>2. m * (v \div m) = (v \div m) * m
  BY <1>1
<1>. QED  BY <1>1, <1>2

LEMMA NoMultiple ==
  ASSUME NEW m \in Nat \ {0}, NEW k \in Int, k * m < m, k * m > -m
  PROVE  k = 0
OBVIOUS

LEMMA SameRest ==
  ASSUME NEW m \in Nat \ {0}, NEW a \in Int, NEW b \in Int, NEW q \in Int, a = b + q * m
  PROVE  a % m = b % m
<1>1. PICK i \in Int : a = i * m + (a % m) /\ a % m \in 0 .. m - 1
  BY Divides
<1>2. PICK j \in Int : b = j * m + (b % m) /\ b % m \in 0 .. m - 1
  BY Divides
<1>3. PICK r \in 0 .. m - 1 : r = a % m
  BY <1>1
<1>4. PICK s \in 0 .. m - 1 : s = b % m
  BY <1>2
<1>5. (i - j - q) * m = s - r
  <2>1. i * m + r = j * m + s + q * m
    BY <1>1, <1>2, <1>3, <1>4
  <2>2. (i - j - q) * m = i * m - j * m - q * m
    OBVIOUS
  <2>3. i * m \in Int /\ j * m \in Int /\ q * m \in Int
    OBVIOUS
  <2>. QED  BY <2>1, <2>2, <2>3
<1>6. i - j - q = 0
  BY <1>5, NoMultiple
<1>. QED  BY <1>3, <1>4, <1>5, <1>6

LEMMA Difference ==
  ASSUME NEW m \in Nat \ {0}, NEW a \in Int, NEW b \in Int, a % m = b % m
  PROVE  \E q \in Int : a = b + q * m
<1>1. PICK i \in Int : a = i * m + (a % m) /\ a % m \in 0 .. m - 1
  BY Divides
<1>2. PICK j \in Int : b = j * m + (b % m) /\ b % m \in 0 .. m - 1
  BY Divides
<1>3. PICK r \in 0 .. m - 1 : r = a % m
  BY <1>1
<1>4. a = i * m + r /\ b = j * m + r
  BY <1>1, <1>2, <1>3
<1>5. a = b + (i - j) * m
  <2>1. (i - j) * m = i * m - j * m
    OBVIOUS
  <2>2. i * m \in Int /\ j * m \in Int
    OBVIOUS
  <2>. QED  BY <1>4, <2>1, <2>2
<1>. QED  BY <1>5

(* The rest that the parser looks at. *)
Rest(v) == v % Short

(* An u64 that wraps keeps its rest: 2^64 is a multiple of 2^16. *)
LEMMA WrappedRest ==
  ASSUME NEW v \in Int
  PROVE  Rest(Wrapped(v)) = Rest(v)
<1>1. PICK i \in Int : v = i * Modulus + Wrapped(v)
  BY Divides, ModulusAssumption DEF Wrapped
<1>2. Modulus \in Int /\ Short \in Nat \ {0} /\ Modulus % Short = 0
  BY ModulusAssumption
<1>3. PICK j \in Int : Modulus = j * Short
  <2>1. PICK j \in Int : Modulus = j * Short + (Modulus % Short)
    BY <1>2, Divides
  <2>2. j * Short \in Int
    BY <1>2
  <2>. QED  BY <1>2, <2>1, <2>2
<1>4. Wrapped(v) \in Int /\ Short \in Nat \ {0} /\ Modulus \in Nat
  BY WrappedType, ModulusAssumption
<1>5. v = Wrapped(v) + (i * j) * Short
  <2>1. i * Modulus = (i * j) * Short
    BY <1>3, <1>4
  <2>. QED  BY <1>1, <1>4, <2>1
<1>6. i * j \in Int
  OBVIOUS
<1>. QED  BY <1>4, <1>5, <1>6, SameRest DEF Rest

(* One more digit leaves equal rests equal. *)
LEMMA ShiftRest ==
  ASSUME NEW a \in Int, NEW b \in Int, NEW d \in 0 .. 255, Rest(a) = Rest(b)
  PROVE  Rest(a * 10 + d - 48) = Rest(b * 10 + d - 48)
<1>1. PICK q \in Int : a = b + q * Short
  BY Difference, ModulusAssumption DEF Rest
<1>2. Short \in Nat \ {0}
  BY ModulusAssumption
<1>3. a * 10 + d - 48 = (b * 10 + d - 48) + (q * 10) * Short
  <2>1. (q * 10) * Short = (q * Short) * 10 /\ q * Short \in Int
    BY <1>2
  <2>. QED  BY <1>1, <2>1
<1>4. PICK u \in Int : u = a * 10 + d - 48
  BY ShiftType
<1>5. PICK v \in Int : v = b * 10 + d - 48
  BY ShiftType
<1>6. PICK k \in Int : k = q * 10
  OBVIOUS
<1>7. u = v + k * Short
  BY <1>3, <1>4, <1>5, <1>6
<1>8. Rest(u) = Rest(v)
  <2>1. ASSUME NEW m \in Nat \ {0}, m = Short PROVE u % m = v % m
    <3>1. u = v + k * m
      BY <1>7, <2>1
    <3>. QED  BY <3>1, SameRest
  <2>. QED  BY <1>2, <2>1 DEF Rest
<1>. QED  BY <1>4, <1>5, <1>8

(* What the digits of a file from one offset to another say, as NumeralsKept has  *)
(* it, and as an equation.                                                         *)
NumeralValue(file, from, to) ==
    LET value[n \in 0 .. to] == IF n <= from THEN 0 ELSE (value[n - 1] * 10 + file[n] - 48)
    IN  value[to]
NextDigit(x, file, n) == x[n - 1] * 10 + file[n] - 48
Numeral(file, from, to, x) ==
    x = [n \in 0 .. to |-> IF n <= from THEN 0 ELSE NextDigit(x, file, n)]

LEMMA NumeralExists ==
  ASSUME NEW file, NEW from \in Nat, NEW to \in Nat
  PROVE  \E x : Numeral(file, from, to, x)
<1> DEFINE S == {n \in Nat : \E x : Numeral(file, from, n, x)}
<1>1. 0 \in S
  <2> DEFINE z == [k \in 0 .. 0 |-> 0]
  <2>1. \A k \in 0 .. 0 : k <= from
    OBVIOUS
  <2>2. z = [k \in 0 .. 0 |-> IF k <= from THEN 0 ELSE NextDigit(z, file, k)]
    BY <2>1
  <2>. HIDE DEF z
  <2>3. Numeral(file, from, 0, z)
    BY <2>2 DEF Numeral
  <2>. QED  BY <2>3
<1>2. ASSUME NEW n \in S PROVE n + 1 \in S
  <2>1. PICK x : Numeral(file, from, n, x)
    OBVIOUS
  <2> DEFINE y == [k \in 0 .. n + 1 |-> IF k <= n THEN x[k]
                                        ELSE IF k <= from THEN 0 ELSE NextDigit(x, file, k)]
  <2>2. \A k \in 0 .. n : y[k] = x[k]
    OBVIOUS
  <2>3. \A k \in 0 .. n + 1 : ~(k <= from) => NextDigit(y, file, k) = NextDigit(x, file, k)
    <3>. HIDE DEF y
    <3>. SUFFICES ASSUME NEW k \in 0 .. n + 1, ~(k <= from)
                  PROVE  NextDigit(y, file, k) = NextDigit(x, file, k)
      OBVIOUS
    <3>1. k - 1 \in 0 .. n
      OBVIOUS
    <3>. QED  BY <2>2, <3>1 DEF NextDigit
  <2>4. \A k \in 0 .. n : x[k] = IF k <= from THEN 0 ELSE NextDigit(x, file, k)
    BY <2>1, Zenon DEF Numeral
  <2>5. \A k \in 0 .. n + 1 : y[k] = IF k <= from THEN 0 ELSE NextDigit(y, file, k)
    <3>1. \A k \in 0 .. n + 1 : y[k] = IF k <= from THEN 0 ELSE NextDigit(x, file, k)
      BY <2>4
    <3>. HIDE DEF y
    <3>. QED  BY <2>3, <3>1
  <2>6. y = [k \in 0 .. n + 1 |-> y[k]]
    OBVIOUS
  <2>7. Numeral(file, from, n + 1, y)
    <3>. HIDE DEF y
    <3>. QED  BY <2>5, <2>6 DEF Numeral
  <2>. HIDE DEF y
  <2>. QED  BY <2>7
<1>3. S \in SUBSET Nat
  OBVIOUS
<1>4. S = Nat
  <2>. HIDE DEF S
  <2>. QED  BY <1>1, <1>2, <1>3, SetInduction
<1>. QED  BY <1>4

LEMMA NumeralOf ==
  ASSUME NEW file, NEW from \in Nat, NEW to \in Nat
  PROVE  \E x : Numeral(file, from, to, x) /\ NumeralValue(file, from, to) = x[to]
<1>1. Numeral(file, from, to, CHOOSE x : Numeral(file, from, to, x))
  BY NumeralExists
<1>2. NumeralValue(file, from, to) = (CHOOSE x : Numeral(file, from, to, x))[to]
  BY DEF NumeralValue, Numeral, NextDigit
<1>. QED  BY <1>1, <1>2

(* u64_from_string has the rest of the numeral, after every digit. *)
LEMMA NumberRest ==
  ASSUME File, NEW s \in 0 .. Len(input), NEW end \in s .. Len(input)
  PROVE  Rest(u64_from_string(Text(s, end))) = Rest(NumeralValue(input, s, end))
<1>0. /\ Text(s, end) \in Seq(0 .. 255) /\ Len(Text(s, end)) = end - s
      /\ \A k \in 1 .. end - s : Text(s, end)[k] = input[s + k]
  BY TextType
<1>1. /\ s \in Nat /\ end \in Nat /\ Len(input) \in Nat /\ s <= end /\ end <= Len(input)
      /\ end - s \in Nat /\ s + (end - s) = end
      /\ Text(s, end) \in Seq(0 .. 255) /\ Len(Text(s, end)) = end - s
      /\ \A k \in 1 .. end - s : Text(s, end)[k] = input[s + k]
  <2>1. Len(input) \in Nat
    BY DEF File
  <2>. QED  BY <1>0, <2>1
<1>2. PICK x : Values(Text(s, end), x) /\ u64_from_string(Text(s, end)) = x[end - s]
  BY <1>1, ValuesOf
<1>3. PICK y : Numeral(input, s, end, y) /\ NumeralValue(input, s, end) = y[end]
  BY <1>1, NumeralOf
<1> DEFINE S == {k \in Nat : k <= end - s =>
                   x[k] \in Int /\ y[s + k] \in Int /\ Rest(x[k]) = Rest(y[s + k])}
<1>4. 0 \in S
  <2>1. 0 \in 0 .. end - s /\ s \in 0 .. end /\ s + 0 = s
    BY <1>1
  <2>2. x[0] = 0
    BY <1>1, <1>2, <2>1 DEF Values
  <2>3. y[s + 0] = 0
    BY <1>1, <1>3, <2>1 DEF Numeral
  <2>. QED  BY <2>2, <2>3
<1>5. ASSUME NEW k \in S PROVE k + 1 \in S
  <2>. SUFFICES ASSUME k + 1 <= end - s
                PROVE  /\ x[k + 1] \in Int /\ y[s + (k + 1)] \in Int
                       /\ Rest(x[k + 1]) = Rest(y[s + (k + 1)])
    OBVIOUS
  <2>1. /\ k + 1 \in 1 .. end - s /\ k + 1 \in 0 .. end - s /\ (k + 1) - 1 = k /\ k + 1 # 0
        /\ s + (k + 1) \in 0 .. end /\ ~(s + (k + 1) <= s) /\ (s + (k + 1)) - 1 = s + k
        /\ s + (k + 1) \in 1 .. Len(input) /\ k <= end - s
    BY <1>1
  <2>2. PICK d \in 0 .. 255 : d = input[s + (k + 1)]
    BY <2>1, ElementOfSeq DEF File
  <2>3. x[k + 1] = Wrapped(x[k] * 10 + d - 48)
    <3>1. x[k + 1] = NextValue(x, Text(s, end), k + 1)
      BY <1>1, <1>2, <2>1 DEF Values
    <3>. QED  BY <1>1, <2>1, <2>2, <3>1 DEF NextValue
  <2>4. y[s + (k + 1)] = y[s + k] * 10 + d - 48
    <3>1. y[s + (k + 1)] = NextDigit(y, input, s + (k + 1))
      BY <1>3, <2>1 DEF Numeral
    <3>. QED  BY <2>1, <2>2, <3>1 DEF NextDigit
  <2>5. PICK a \in Int, b \in Int : a = x[k] /\ b = y[s + k] /\ Rest(a) = Rest(b)
    BY <2>1
  <2>6. a * 10 + d - 48 \in Int /\ b * 10 + d - 48 \in Int
    BY ShiftType
  <2>7. Rest(Wrapped(a * 10 + d - 48)) = Rest(b * 10 + d - 48)
    <3>1. Rest(Wrapped(a * 10 + d - 48)) = Rest(a * 10 + d - 48)
      BY <2>6, WrappedRest
    <3>2. Rest(a * 10 + d - 48) = Rest(b * 10 + d - 48)
      BY ZenonT(30), <2>5, ShiftRest
    <3>. QED  BY <3>1, <3>2
  <2>8. Wrapped(a * 10 + d - 48) \in Int
    BY <2>6, WrappedType, ModulusAssumption
  <2>. QED  BY <2>3, <2>4, <2>5, <2>6, <2>7, <2>8
<1>6. S \in SUBSET Nat
  OBVIOUS
<1>7. S = Nat
  <2>. HIDE DEF S
  <2>. QED  BY <1>4, <1>5, <1>6, SetInduction
<1>8. Rest(x[end - s]) = Rest(y[s + (end - s)])
  <2>1. end - s \in S
    <3>. HIDE DEF S
    <3>. QED  BY <1>1, <1>7
  <2>2. end - s <= end - s
    BY <1>1
  <2>. QED  BY <2>1, <2>2
<1>. QED  BY <1>1, <1>2, <1>3, <1>8

------------------------------------------------------------------------------
(* The tiling of a list of tokens up to an offset, by its parts. *)
Ordered(list, i) ==
    /\ \A k \in 1 .. Len(list) : list[k].start <= list[k].end /\ list[k].end <= i
    /\ \A k \in 1 .. Len(list) - 1 : list[k].end <= list[k + 1].start
Covered(list, i) ==
    \A p \in 0 .. i - 1 : Byte(p) \notin Space => \E k \in 1 .. Len(list) : Covers(list[k], p)
NoBlank(t) == \A p \in t.start .. t.end - 1 : Byte(p) \notin Space
Whole(t) ==
    t.start < t.end =>
        /\ Byte(t.start) \in Alpha =>
               (t.start = 0 \/ Byte(t.start - 1) \notin Alpha) /\ Byte(t.end) \notin Alpha
        /\ t.kind = "NUM" /\ Byte(t.start) \in Digit => Byte(t.end) \notin Digit
Tiles(list, i) ==
    /\ Ordered(list, i)
    /\ Covered(list, i)
    /\ \A k \in 1 .. Len(list) : NoBlank(list[k]) /\ Whole(list[k])

LEMMA TilesIsTokensTile == TokensTile <=> Tiles(token, idx)
BY DEF TokensTile, Tiles, Ordered, Covered, NoBlank, Whole

(* What is read never ends within a word: otherwise the next round would read     *)
(* the rest of it as another one.                                                  *)
Boundary(i) == i > 0 /\ Byte(i - 1) \in Alpha => Byte(i) \notin Alpha

Inv == TypeOK /\ Tiles(token, idx) /\ Boundary(idx)

LEMMA InvFile == Inv => File
BY InputsAssumption DEF Inv, TypeOK, File

(* The bytes stay what they are, so the tokens of the next state may be judged    *)
(* by those of this one.                                                            *)
LEMMA SameBytes ==
  ASSUME UNCHANGED <<input, behind>>, NEW list, NEW i, token' = list, idx' = i,
         Tiles(list, i), Boundary(i)
  PROVE  Tiles(token, idx)' /\ Boundary(idx)'
BY DEF Byte, Tiles, Ordered, Covered, NoBlank, Whole, Boundary, Covers

LEMMA InitInv == Init => Inv
<1>. SUFFICES ASSUME Init PROVE Inv
  OBVIOUS
<1>1. Len(input) \in Nat
  BY InputsAssumption DEF Init
<1>2. TypeOK
  BY <1>1 DEF Init, TypeOK
<1>3. Tiles(token, idx) /\ Boundary(idx)
  BY DEF Init, Tiles, Ordered, Covered, Boundary
<1>. QED  BY <1>2, <1>3 DEF Inv

(* A token at the end of the list that begins where the last one ends or later,   *)
(* with nothing but blanks between them.                                            *)
LEMMA AppendTiles ==
  ASSUME Inv, NEW t \in Token_, t.start \in idx .. t.end,
         \A p \in idx .. t.start - 1 : Byte(p) \in Space,
         NoBlank(t), Whole(t)
  PROVE  Tiles(Append(token, t), t.end)
<1>. DEFINE list == Append(token, t)
            n == Len(token)
<1>1. /\ idx \in Nat /\ n \in Nat /\ t.start \in Nat /\ t.end \in Nat
      /\ Tiles(token, idx)
  BY InvFile DEF Inv, TypeOK, Token_, File
<1>2. /\ Len(list) = n + 1 /\ list[n + 1] = t
      /\ \A k \in 1 .. n : list[k] = token[k]
  BY AppendProperties DEF Inv, TypeOK
<1>3. \A k \in 1 .. n : token[k].start \in Nat /\ token[k].end \in Nat
  <2>1. \A k \in 1 .. n : token[k] \in Token_
    BY ElementOfSeq DEF Inv, TypeOK
  <2>. QED  BY <2>1 DEF Token_
<1>. HIDE DEF list, n
<1>4. \A k \in 1 .. n + 1 : k \in 1 .. n \/ k = n + 1
  BY <1>1
<1>5. \A k \in 1 .. n : token[k].start <= token[k].end /\ token[k].end <= idx
  BY <1>1 DEF Tiles, Ordered, n
<1>6. \A k \in 1 .. Len(list) : list[k].start <= list[k].end /\ list[k].end <= t.end
  BY <1>1, <1>2, <1>3, <1>4, <1>5
<1>7. ASSUME NEW k \in 1 .. Len(list) - 1 PROVE list[k].end <= list[k + 1].start
  <2>1. k \in 1 .. n
    BY <1>1, <1>2
  <2>2. CASE k = n
    BY <1>1, <1>2, <1>3, <1>5, <2>1, <2>2
  <2>3. CASE k # n
    <3>1. k \in 1 .. n - 1 /\ k + 1 \in 1 .. n
      BY <1>1, <2>1, <2>3
    <3>2. token[k].end <= token[k + 1].start
      BY <1>1, <3>1 DEF Tiles, Ordered, n
    <3>. QED  BY <1>2, <2>1, <3>1, <3>2
  <2>. QED  BY <2>2, <2>3
<1>8. Covered(list, t.end)
  <2>. SUFFICES ASSUME NEW p \in 0 .. t.end - 1, Byte(p) \notin Space
                PROVE  \E k \in 1 .. Len(list) : Covers(list[k], p)
    BY DEF Covered
  <2>1. CASE p < idx
    <3>1. p \in 0 .. idx - 1
      BY <1>1, <2>1
    <3>2. PICK k \in 1 .. n : Covers(token[k], p)
      BY <1>1, <3>1 DEF Tiles, Covered, n
    <3>3. k \in 1 .. Len(list) /\ list[k] = token[k]
      BY <1>1, <1>2
    <3>. QED  BY <3>2, <3>3
  <2>2. CASE idx <= p
    <3>1. t.start <= p
      BY <1>1, <2>2
    <3>2. Covers(t, p) /\ n + 1 \in 1 .. Len(list)
      BY <1>1, <1>2, <3>1 DEF Covers
    <3>. QED  BY <1>2, <3>2
  <2>. QED  BY <1>1, <2>1, <2>2
<1>9. \A k \in 1 .. Len(list) : NoBlank(list[k]) /\ Whole(list[k])
  BY <1>1, <1>2, <1>4 DEF Tiles, n
<1>10. Ordered(list, t.end)
  BY <1>6, <1>7 DEF Ordered
<1>. QED  BY <1>8, <1>9, <1>10 DEF Tiles, list
------------------------------------------------------------------------------
(* A round that reads a token from the start of it to an end preserves the        *)
(* invariant, if the token is whole.                                                *)
LEMMA RoundInv ==
  ASSUME Inv, NEW kind \in Kinds, NEW s, s = start, NEW end \in s .. Len(input),
         NEW num \in 0 .. Modulus - 1, Round(kind, end, num),
         NoBlank(Token(kind, s, end, num)), Whole(Token(kind, s, end, num)),
         end > s => Boundary(end)
  PROVE  Inv'
<1>. DEFINE t == Token(kind, s, end, num)
<1>1. /\ File
      /\ idx \in 0 .. Len(input) /\ Len(input) \in Nat
      /\ token' = Append(token, t) /\ idx' = end
      /\ UNCHANGED <<input, behind, pc>>
  BY InvFile DEF Inv, TypeOK, Round, File
<1>2. /\ s \in idx .. Len(input)
      /\ \A p \in idx .. s - 1 : Byte(p) \in Space
  BY <1>1, RunEnds, BehindStops DEF start
<1>3. /\ t \in Token_ /\ t.start = s /\ t.end = end
      /\ t.start \in idx .. t.end
  BY <1>1, <1>2 DEF Token, Token_
<1>4. Tiles(Append(token, t), end)
  <2>. HIDE DEF t
  <2>. QED  BY <1>2, <1>3, AppendTiles DEF t
<1>5. Boundary(end)
  <2>1. CASE end = idx
    BY <2>1 DEF Inv
  <2>2. CASE end # idx /\ end = s
    <3>1. s - 1 \in idx .. s - 1
      BY <1>1, <1>2, <2>2
    <3>2. Byte(s - 1) \in Space
      BY <1>2, <3>1
    <3>3. Byte(s - 1) \notin Alpha
      BY <3>2, Classes
    <3>. QED  BY <2>2, <3>3 DEF Boundary
  <2>3. CASE end # s
    BY <1>1, <1>2, <2>3
  <2>. QED  BY <2>1, <2>2, <2>3
<1>6. TypeOK'
  <2>1. token' \in Seq(Token_)
    BY <1>1, <1>3, AppendProperties DEF Inv, TypeOK
  <2>2. end \in 0 .. Len(input)
    BY <1>1, <1>2
  <2>. QED  BY <1>1, <2>1, <2>2 DEF Inv, TypeOK
<1>7. Tiles(token, idx)' /\ Boundary(idx)'
  <2>. HIDE DEF t
  <2>. QED  BY <1>1, <1>4, <1>5, SameBytes
<1>. QED  BY <1>6, <1>7 DEF Inv

(* Where the token begins. *)
LEMMA StartType ==
  ASSUME Inv
  PROVE  /\ File /\ Len(input) \in Nat
         /\ idx \in 0 .. Len(input)
         /\ start \in idx .. Len(input)
         /\ \A p \in idx .. start - 1 : Byte(p) \in Space
<1>1. File /\ idx \in 0 .. Len(input) /\ Len(input) \in Nat
  BY InvFile DEF Inv, TypeOK, File
<1>. QED  BY <1>1, RunEnds, BehindStops DEF start

(* A mark is one byte and no word. *)
LEMMA MarkInv ==
  ASSUME Inv, ReadMark
  PROVE  Inv'
<1>1. PICK s : s = start
  OBVIOUS
<1>2. /\ File /\ Len(input) \in Nat /\ s \in 0 .. Len(input)
      /\ Byte(s) \in Marks
  BY <1>1, StartType DEF ReadMark
<1>3. s # Len(input)
  BY <1>2, BehindStops
<1>. DEFINE kind == lut_one_character_token(Byte(s))
            t == Token(kind, s, s + 1, 0)
<1>4. s + 1 \in s .. Len(input) /\ Round(kind, s + 1, 0)
  BY <1>1, <1>2, <1>3 DEF ReadMark
<1>5. kind \in Kinds /\ kind # "NUM"
  BY <1>2 DEF Marks, lut_one_character_token, Kinds
<1>6. Byte(s) \notin Space /\ Byte(s) \notin Alpha
  BY <1>2, Classes
<1>7. t.start = s /\ t.end = s + 1 /\ t.kind = kind
  BY DEF Token
<1>8. NoBlank(t)
  <2>1. \A p \in s .. (s + 1) - 1 : p = s
    BY <1>2
  <2>. HIDE DEF t
  <2>. QED  BY <1>6, <1>7, <2>1 DEF NoBlank
<1>9. Whole(t)
  <2>. HIDE DEF t, kind
  <2>. QED  BY <1>5, <1>6, <1>7 DEF Whole
<1>10. Boundary(s + 1)
  <2>1. (s + 1) - 1 = s
    BY <1>2
  <2>. QED  BY <1>6, <2>1 DEF Boundary
<1>11. 0 \in 0 .. Modulus - 1
  BY ModulusAssumption
<1>. HIDE DEF kind
<1>. QED  BY <1>1, <1>4, <1>5, <1>8, <1>9, <1>10, <1>11, RoundInv

(* A word is the whole run: the byte before it is a blank, or the end of the      *)
(* token before, which is no letter.                                                *)
LEMMA WordInv ==
  ASSUME Inv, ReadWord
  PROVE  Inv'
<1>1. PICK s : s = start
  OBVIOUS
<1>2. PICK end : end = EndOfRun(s, Alpha)
  OBVIOUS
<1>3. /\ File /\ Len(input) \in Nat /\ s \in 0 .. Len(input)
      /\ idx \in 0 .. s
      /\ \A p \in idx .. s - 1 : Byte(p) \in Space
      /\ Byte(s) \in Alpha
  BY <1>1, StartType DEF ReadWord
<1>4. /\ end \in s + 1 .. Len(input)
      /\ Byte(end) \notin Alpha
      /\ \A m \in s .. end - 1 : Byte(m) \in Alpha
  BY <1>2, <1>3, BehindStops, RunEnds, RunNotEmpty
<1>5. PICK kind : kind = WordKind(Text(s, end))
  OBVIOUS
<1>6. kind \in Kinds /\ Round(kind, end, 0)
  <2>1. kind \in Kinds
    BY <1>5 DEF WordKind, Kinds
  <2>. QED  BY <1>1, <1>2, <1>5, <2>1 DEF ReadWord
<1>. DEFINE t == Token(kind, s, end, 0)
<1>7. t.start = s /\ t.end = end
  BY DEF Token
<1>8. NoBlank(t)
  <2>1. \A m \in s .. end - 1 : Byte(m) \notin Space
    BY <1>4, Classes
  <2>. HIDE DEF t
  <2>. QED  BY <1>7, <2>1 DEF NoBlank
<1>9. s = 0 \/ Byte(s - 1) \notin Alpha
  <2>1. CASE s = idx
    BY <1>3, <2>1 DEF Inv, Boundary
  <2>2. CASE s # idx
    <3>1. Byte(s - 1) \in Space
      <4>1. s - 1 \in idx .. s - 1
        BY <1>3, <2>2
      <4>. QED  BY <1>3, <4>1
    <3>. QED  BY <3>1, Classes
  <2>. QED  BY <2>1, <2>2
<1>10. Whole(t)
  <2>1. Byte(s) \notin Digit
    BY <1>3, Classes
  <2>. HIDE DEF t
  <2>. QED  BY <1>4, <1>7, <1>9, <2>1 DEF Whole
<1>11. Boundary(end)
  BY <1>4 DEF Boundary
<1>12. 0 \in 0 .. Modulus - 1 /\ end \in s .. Len(input)
  BY <1>3, <1>4, ModulusAssumption
<1>. QED  BY <1>1, <1>6, <1>8, <1>10, <1>11, <1>12, RoundInv

(* A number is all of its digits, and its value fits an u64. *)
LEMMA NumberInv ==
  ASSUME Inv, ReadNumber
  PROVE  Inv'
<1>1. PICK s : s = start
  OBVIOUS
<1>2. PICK end : end = EndOfRun(s, Digit)
  OBVIOUS
<1>3. /\ File /\ Len(input) \in Nat /\ s \in 0 .. Len(input)
      /\ Byte(s) \in Digit
  BY <1>1, StartType DEF ReadNumber
<1>4. /\ end \in s + 1 .. Len(input)
      /\ Byte(end) \notin Digit
      /\ \A m \in s .. end - 1 : Byte(m) \in Digit
  BY <1>2, <1>3, BehindStops, RunEnds, RunNotEmpty
<1>5. PICK num : num = u64_from_string(Text(s, end))
  OBVIOUS
<1>6. num \in 0 .. Modulus - 1 /\ end \in s .. Len(input)
  <2>1. end \in s .. Len(input)
    BY <1>3, <1>4
  <2>2. Text(s, end) \in Seq(0 .. 255)
    BY <1>3, <2>1, TextType
  <2>. QED  BY <1>5, <2>1, <2>2, NumberType
<1>7. "NUM" \in Kinds /\ Round("NUM", end, num)
  BY <1>1, <1>2, <1>5 DEF Kinds, ReadNumber
<1>. DEFINE t == Token("NUM", s, end, num)
<1>8. t.start = s /\ t.end = end
  BY DEF Token
<1>9. NoBlank(t)
  <2>1. \A m \in s .. end - 1 : Byte(m) \notin Space
    BY <1>4, Classes
  <2>. HIDE DEF t
  <2>. QED  BY <1>8, <2>1 DEF NoBlank
<1>10. Whole(t)
  <2>1. Byte(s) \notin Alpha
    BY <1>3, Classes
  <2>. HIDE DEF t
  <2>. QED  BY <1>4, <1>8, <2>1 DEF Whole
<1>11. Boundary(end)
  <2>1. end - 1 \in s .. end - 1
    BY <1>3, <1>4
  <2>2. Byte(end - 1) \in Digit
    BY <1>4, <2>1
  <2>3. Byte(end - 1) \notin Alpha
    BY <2>2, Classes
  <2>. QED  BY <2>3 DEF Boundary
<1>. QED  BY <1>1, <1>6, <1>7, <1>9, <1>10, <1>11, RoundInv

(* Anything else makes a token of no bytes. *)
LEMMA OtherInv ==
  ASSUME Inv, ReadOther
  PROVE  Inv'
<1>1. PICK s : s = start
  OBVIOUS
<1>2. Len(input) \in Nat /\ s \in 0 .. Len(input) /\ s \in s .. Len(input)
  BY <1>1, StartType
<1>3. PICK kind \in {"NULL", "NUM"} : Round(kind, s, 0)
  BY <1>1 DEF ReadOther
<1>. DEFINE t == Token(kind, s, s, 0)
<1>4. t.start = s /\ t.end = s
  BY DEF Token
<1>5. NoBlank(t) /\ Whole(t)
  <2>. HIDE DEF t
  <2>. QED  BY <1>2, <1>4 DEF NoBlank, Whole
<1>6. kind \in Kinds /\ 0 \in 0 .. Modulus - 1 /\ ~(s > s)
  BY <1>2, <1>3, ModulusAssumption DEF Kinds
<1>. QED  BY <1>1, <1>2, <1>3, <1>5, <1>6, RoundInv

(* The TOK_EOL behind the last token. *)
LEMMA FinishInv ==
  ASSUME Inv, NEW added \in BOOLEAN, Finish(added)
  PROVE  Inv'
<1>1. /\ Len(input) \in Nat /\ idx = Len(input)
      /\ idx' = idx /\ UNCHANGED <<input, behind>> /\ pc' = "done"
  BY StartType DEF Finish
<1>2. CASE added
  <2>. DEFINE t == Token("EOL", Len(input), Len(input), 0)
  <2>1. t \in Token_ /\ t.start = idx /\ t.end = idx
    BY <1>1, ModulusAssumption DEF Token, Token_, Kinds
  <2>2. token' = Append(token, t)
    BY <1>2 DEF Finish
  <2>. HIDE DEF t
  <2>3. NoBlank(t) /\ Whole(t)
    BY <1>1, <2>1 DEF NoBlank, Whole
  <2>4. Tiles(Append(token, t), idx)
    BY <1>1, <2>1, <2>3, AppendTiles
  <2>5. Tiles(token, idx)' /\ Boundary(idx)'
    BY <1>1, <2>2, <2>4, SameBytes DEF Inv
  <2>6. TypeOK'
    BY <1>1, <2>1, <2>2, AppendProperties DEF Inv, TypeOK
  <2>. QED  BY <2>5, <2>6 DEF Inv
<1>3. CASE ~added
  <2>1. token' = token
    BY <1>3 DEF Finish
  <2>2. Tiles(token, idx)' /\ Boundary(idx)'
    BY <1>1, <2>1, SameBytes DEF Inv
  <2>3. TypeOK'
    BY <1>1, <2>1 DEF Inv, TypeOK
  <2>. QED  BY <2>2, <2>3 DEF Inv
<1>. QED  BY <1>2, <1>3

LEMMA StepInv == Inv /\ [Reads]_vars => Inv'
<1>. SUFFICES ASSUME Inv, [Reads]_vars PROVE Inv'
  OBVIOUS
<1>1. ASSUME UNCHANGED <<input, behind, idx, token>>, pc' \in {pc, "aborted"} PROVE Inv'
  <2>1. Tiles(token, idx)' /\ Boundary(idx)'
    BY <1>1, SameBytes DEF Inv
  <2>2. TypeOK'
    BY <1>1 DEF Inv, TypeOK
  <2>. QED  BY <2>1, <2>2 DEF Inv
<1>2. CASE Read
  BY <1>2, MarkInv, WordInv, NumberInv, OtherInv DEF Read
<1>3. CASE \E added \in BOOLEAN : Finish(added)
  BY <1>3, FinishInv
<1>. QED  BY <1>1, <1>2, <1>3 DEF Reads, Next, Abort, vars

(* tokenize stays within the file and makes tokens that the tables name, for every *)
(* file and wherever its tokens are put (tokenizer.c:44-117).                       *)
THEOREM TypeCorrect == ListSpec => []TypeOK
<1>1. Inv => TypeOK
  BY DEF Inv
<1>. QED  BY <1>1, InitInv, StepInv, ListSteps, PTL

(* For every file the tokens are the file, cut where the classes of its bytes       *)
(* change, with nothing lost, split or joined (tokenizer.c:56-90, 99-109).          *)
THEOREM TilingCorrect == ListSpec => []TokensTile
<1>1. Inv => TokensTile
  BY TilesIsTokensTile DEF Inv
<1>. QED  BY <1>1, InitInv, StepInv, ListSteps, PTL
------------------------------------------------------------------------------
(* The number of a token that is a numeral. *)
Kept(t) ==
    t.start < t.end /\ Byte(t.start) \in Digit \ Marks =>
        Rest(t.num) = Rest(NumeralValue(input, t.start, t.end))
AllKept(list) == \A k \in 1 .. Len(list) : Kept(list[k])

LEMMA AllKeptIsNumeralsKept == NumeralsKept <=> AllKept(token)
BY DEF NumeralsKept, AllKept, Kept, Rest, NumeralValue

(* A token is added, and the numbers of the others stay. *)
LEMMA RoundKept ==
  ASSUME TypeOK, AllKept(token), UNCHANGED <<input, behind>>,
         NEW t \in Token_, Kept(t), token' = Append(token, t)
  PROVE  AllKept(token)'
<1>1. /\ Len(token') = Len(token) + 1 /\ token'[Len(token) + 1] = t
      /\ \A k \in 1 .. Len(token) : token'[k] = token[k]
      /\ Len(token) \in Nat
  BY AppendProperties DEF TypeOK
<1>2. \A k \in 1 .. Len(token) + 1 : k \in 1 .. Len(token) \/ k = Len(token) + 1
  BY <1>1
<1>3. \A k \in 1 .. Len(token') : Kept(token'[k])
  BY <1>1, <1>2 DEF AllKept
<1>. QED  BY <1>3 DEF AllKept, Kept, Byte

LEMMA KeptStep ==
  ASSUME Inv, AllKept(token), [Reads]_vars
  PROVE  AllKept(token)'
<1>1. PICK s : s = start
  OBVIOUS
<1>2. File /\ Len(input) \in Nat /\ s \in 0 .. Len(input) /\ TypeOK
  BY <1>1, StartType DEF Inv
<1>3. ASSUME NEW kind, NEW end, NEW num, Round(kind, end, num),
             Kept(Token(kind, s, end, num)), Token(kind, s, end, num) \in Token_
      PROVE  AllKept(token)'
  BY <1>1, <1>2, <1>3, RoundKept DEF Round
<1>4. 0 \in 0 .. Modulus - 1
  BY ModulusAssumption
<1>5. CASE ReadMark
  <2>. DEFINE t == Token(lut_one_character_token(Byte(s)), s, s + 1, 0)
  <2>1. Byte(s) \in Marks /\ Round(lut_one_character_token(Byte(s)), s + 1, 0)
    BY <1>1, <1>5 DEF ReadMark
  <2>2. t \in Token_
    BY <1>2, <1>4, <2>1 DEF Marks, lut_one_character_token, Kinds, Token, Token_
  <2>3. Kept(t)
    BY <2>1 DEF Kept, Token
  <2>. QED  BY <1>3, <2>1, <2>2, <2>3
<1>6. CASE ReadWord
  <2>1. PICK end : end = EndOfRun(s, Alpha)
    OBVIOUS
  <2>2. PICK kind : kind = WordKind(Text(s, end))
    OBVIOUS
  <2>3. Byte(s) \in Alpha /\ Round(kind, end, 0)
    BY <1>1, <1>6, <2>1, <2>2 DEF ReadWord
  <2>4. end \in s .. Len(input)
    BY <1>2, <2>1, BehindStops, RunEnds
  <2>. DEFINE t == Token(kind, s, end, 0)
  <2>5. t \in Token_
    <3>1. kind \in Kinds
      BY <2>2 DEF WordKind, Kinds
    <3>. QED  BY <1>2, <1>4, <2>4, <3>1 DEF Token, Token_
  <2>6. Kept(t)
    <3>1. Byte(s) \notin Digit
      BY <2>3, Classes
    <3>. QED  BY <3>1 DEF Kept, Token
  <2>. QED  BY <1>3, <2>3, <2>5, <2>6
<1>7. CASE ReadNumber
  <2>1. PICK end : end = EndOfRun(s, Digit)
    OBVIOUS
  <2>2. PICK num : num = u64_from_string(Text(s, end))
    OBVIOUS
  <2>3. Round("NUM", end, num)
    BY <1>1, <1>7, <2>1, <2>2 DEF ReadNumber
  <2>4. end \in s .. Len(input)
    BY <1>2, <2>1, BehindStops, RunEnds
  <2>5. num \in 0 .. Modulus - 1
    BY <1>2, <2>2, <2>4, TextType, NumberType
  <2>. DEFINE t == Token("NUM", s, end, num)
  <2>6. t \in Token_
    BY <1>2, <2>4, <2>5 DEF Token, Token_, Kinds
  <2>7. Kept(t)
    <3>1. Rest(num) = Rest(NumeralValue(input, s, end))
      BY <1>2, <2>2, <2>4, NumberRest
    <3>. QED  BY <3>1 DEF Kept, Token
  <2>. QED  BY <1>3, <2>3, <2>6, <2>7
<1>8. CASE ReadOther
  <2>1. PICK kind \in {"NULL", "NUM"} : Round(kind, s, 0)
    BY <1>1, <1>8 DEF ReadOther
  <2>. DEFINE t == Token(kind, s, s, 0)
  <2>2. t \in Token_
    BY <1>2, <1>4, <2>1 DEF Token, Token_, Kinds
  <2>3. Kept(t)
    BY <1>2 DEF Kept, Token
  <2>. QED  BY <1>3, <2>1, <2>2, <2>3
<1>9. ASSUME UNCHANGED <<input, behind, token>> PROVE AllKept(token)'
  BY <1>9 DEF AllKept, Kept, Byte
<1>10. CASE Finish(TRUE)
  <2>. DEFINE t == Token("EOL", Len(input), Len(input), 0)
  <2>1. t \in Token_
    BY <1>2, <1>4 DEF Token, Token_, Kinds
  <2>2. Kept(t)
    BY <1>2 DEF Kept, Token
  <2>. QED  BY <1>2, <1>10, <2>1, <2>2, RoundKept DEF Finish
<1>. QED  BY <1>5, <1>6, <1>7, <1>8, <1>9, <1>10 DEF Reads, Next, Read, Abort, Finish, vars

(* The numbers that the parser gets are those of the file modulo 2^16, for numerals  *)
(* of any length, although an u64 overflows on the way (string.c:240-251).            *)
THEOREM NumeralsCorrect == ListSpec => []NumeralsKept
<1>1. Init => AllKept(token)
  BY DEF Init, AllKept
<1>2. Inv /\ AllKept(token) /\ [Reads]_vars => (Inv /\ AllKept(token))'
  BY StepInv, KeptStep
<1>3. AllKept(token) => NumeralsKept
  BY AllKeptIsNumeralsKept
<1>. QED  BY <1>1, <1>2, <1>3, InitInv, ListSteps, PTL
------------------------------------------------------------------------------
(* The file is read up to its idx-th byte, and a token without a kind stands at one *)
(* that the tables do not know.                                                     *)
Placed(t)     == t.kind = "NULL" => t.start <= Len(input) /\ Byte(t.start) \notin Known
AllKnown(e)   == \A p \in 0 .. e - 1 : Byte(p) \in Known
KnownInv      == AllKnown(idx) /\ \A k \in 1 .. Len(token) : Placed(token[k])

(* A round passes blanks and a token, and adds the token.                           *)
LEMMA RoundKnown ==
  ASSUME Inv, KnownInv, NEW kind, NEW end \in start .. Len(input), NEW num, Round(kind, end, num),
         \A p \in start .. end - 1 : Byte(p) \in Known,
         kind = "NULL" => Byte(start) \notin Known
  PROVE  KnownInv'
<1>1. PICK s : s = start
  OBVIOUS
<1>2. /\ Len(input) \in Nat /\ idx \in 0 .. Len(input) /\ s \in idx .. Len(input)
      /\ \A p \in idx .. s - 1 : Byte(p) \in Known
  BY <1>1, StartType DEF Known
<1>. DEFINE t == Token(kind, s, end, num)
<1>3. t \in [kind : {kind}, start : {s}, end : {end}, num : {num}]
  BY DEF Token
<1>4. token' = Append(token, t) /\ idx' = end /\ UNCHANGED <<input, behind>>
  BY <1>1 DEF Round
<1>5. /\ Len(token') = Len(token) + 1 /\ token'[Len(token) + 1] = t
      /\ \A k \in 1 .. Len(token) : token'[k] = token[k]
      /\ Len(token) \in Nat
  BY <1>4, AppendProperties DEF Inv, TypeOK
<1>6. Placed(t)
  BY <1>1, <1>2, <1>3 DEF Placed
<1>7. AllKnown(end)
  <2>1. \A p \in 0 .. end - 1 : p \in 0 .. idx - 1 \/ p \in idx .. s - 1 \/ p \in s .. end - 1
    BY <1>1, <1>2
  <2>. QED  BY <1>1, <1>2, <2>1 DEF KnownInv, AllKnown
<1>8. \A k \in 1 .. Len(token) + 1 : k \in 1 .. Len(token) \/ k = Len(token) + 1
  BY <1>5
<1>9. \A k \in 1 .. Len(token') : Placed(token'[k])
  <2>. HIDE DEF t
  <2>. QED  BY <1>5, <1>6, <1>8 DEF KnownInv
<1>. QED  BY <1>4, <1>7, <1>9 DEF KnownInv, AllKnown, Placed, Byte

LEMMA KnownStep ==
  ASSUME Inv, KnownInv, [Reads]_vars
  PROVE  KnownInv'
<1>1. PICK s : s = start
  OBVIOUS
<1>2. File /\ Len(input) \in Nat /\ s \in 0 .. Len(input)
  BY <1>1, StartType
<1>3. CASE ReadMark
  <2>1. Byte(s) \in Marks /\ Round(lut_one_character_token(Byte(s)), s + 1, 0)
    BY <1>1, <1>3 DEF ReadMark
  <2>2. s + 1 \in s .. Len(input)
    BY <1>2, <2>1, BehindStops
  <2>3. lut_one_character_token(Byte(s)) # "NULL"
    BY <2>1 DEF Marks, lut_one_character_token
  <2>4. \A p \in s .. (s + 1) - 1 : Byte(p) \in Known
    BY <1>2, <2>1 DEF Known
  <2>. QED  BY <1>1, <2>1, <2>2, <2>3, <2>4, RoundKnown
<1>4. CASE ReadWord
  <2>1. PICK end : end = EndOfRun(s, Alpha)
    OBVIOUS
  <2>2. PICK kind : kind = WordKind(Text(s, end))
    OBVIOUS
  <2>3. Round(kind, end, 0)
    BY <1>1, <1>4, <2>1, <2>2 DEF ReadWord
  <2>4. end \in s .. Len(input) /\ \A p \in s .. end - 1 : Byte(p) \in Known
    BY <1>2, <2>1, BehindStops, RunEnds DEF Known
  <2>5. kind # "NULL"
    BY <2>2 DEF WordKind
  <2>. QED  BY <1>1, <2>3, <2>4, <2>5, RoundKnown
<1>5. CASE ReadNumber
  <2>1. PICK end : end = EndOfRun(s, Digit)
    OBVIOUS
  <2>2. PICK num : num = u64_from_string(Text(s, end))
    OBVIOUS
  <2>3. Round("NUM", end, num)
    BY <1>1, <1>5, <2>1, <2>2 DEF ReadNumber
  <2>4. end \in s .. Len(input) /\ \A p \in s .. end - 1 : Byte(p) \in Known
    BY <1>2, <2>1, BehindStops, RunEnds DEF Known
  <2>. QED  BY <1>1, <2>3, <2>4, RoundKnown
<1>6. CASE ReadOther
  <2>1. PICK kind \in {"NULL", "NUM"} : Round(kind, s, 0)
    BY <1>1, <1>6 DEF ReadOther
  <2>2. Byte(s) \notin Marks \cup Alpha \cup Digit /\ Byte(s) \notin Space
    BY <1>1, <1>6, <1>2, RunEnds, BehindStops, StartType DEF ReadOther, start
  <2>3. s \in s .. Len(input) /\ \A p \in s .. s - 1 : Byte(p) \in Known
    BY <1>2
  <2>. QED  BY <1>1, <2>1, <2>2, <2>3, RoundKnown DEF Known
<1>7. ASSUME UNCHANGED <<input, behind, idx, token>> PROVE KnownInv'
  BY <1>7 DEF KnownInv, AllKnown, Placed, Byte
<1>8. CASE \E added \in BOOLEAN : Finish(added)
  <2>. DEFINE t == Token("EOL", Len(input), Len(input), 0)
  <2>1. t.kind = "EOL"
    BY DEF Token
  <2>2. UNCHANGED <<input, behind, idx>> /\ (token' = Append(token, t) \/ token' = token)
    BY <1>8 DEF Finish
  <2>. HIDE DEF t
  <2>3. \A k \in 1 .. Len(token') :
            token'[k] = t \/ (k \in 1 .. Len(token) /\ token'[k] = token[k])
    <3>1. CASE token' = token
      BY <3>1
    <3>2. CASE token' = Append(token, t)
      <4>1. /\ Len(token') = Len(token) + 1 /\ token'[Len(token) + 1] = t
            /\ \A k \in 1 .. Len(token) : token'[k] = token[k]
            /\ Len(token) \in Nat
        BY <3>2, AppendProperties DEF Inv, TypeOK
      <4>2. \A k \in 1 .. Len(token') : k \in 1 .. Len(token) \/ k = Len(token) + 1
        BY <4>1
      <4>. QED  BY <4>1, <4>2
    <3>. QED  BY <2>2, <3>1, <3>2
  <2>4. \A k \in 1 .. Len(token') : Placed(token'[k])
    BY <2>1, <2>3 DEF KnownInv, Placed
  <2>. QED  BY <2>2, <2>4 DEF KnownInv, AllKnown, Placed, Byte
<1>. QED  BY <1>3, <1>4, <1>5, <1>6, <1>7, <1>8 DEF Reads, Next, Read, Abort, vars

(* A list that is complete comes from a file of known characters, and gives no token *)
(* without a kind within it, for every file (tokenizer.c:45-117).                    *)
THEOREM KnownCorrect == ListSpec => []KnownTokens
<1>1. Init => KnownInv /\ (pc = "done" => idx >= Len(input))
  BY InputsAssumption DEF Init, KnownInv, AllKnown
<1>. DEFINE Ended == pc = "done" => idx >= Len(input)
<1>2. Inv /\ KnownInv /\ Ended /\ [Reads]_vars => (Inv /\ KnownInv /\ Ended)'
  <2>1. Inv /\ KnownInv /\ [Reads]_vars => (Inv /\ KnownInv)'
    BY StepInv, KnownStep
  <2>2. Ended /\ [Reads]_vars => Ended'
    BY DEF Reads, Next, Read, ReadMark, ReadWord, ReadNumber, ReadOther, Round, Abort, Finish, vars
  <2>. QED  BY <2>1, <2>2
<1>3. Inv /\ KnownInv /\ Ended => KnownTokens
  <2>. SUFFICES ASSUME Inv, KnownInv, Ended, pc = "done"
                PROVE  Readable /\ \A k \in 1 .. Len(token) : token[k].kind = "NULL" => token[k].start = Len(input)
    BY DEF KnownTokens
  <2>1. idx = Len(input) /\ Len(input) \in Nat
    BY InvFile DEF Inv, TypeOK, File
  <2>2. Readable
    BY <2>1 DEF KnownInv, AllKnown, Readable
  <2>3. ASSUME NEW k \in 1 .. Len(token), token[k].kind = "NULL" PROVE token[k].start = Len(input)
    <3>1. token[k].start \in Nat
      <4>1. token[k] \in Token_
        BY ElementOfSeq DEF Inv, TypeOK
      <4>. QED  BY <4>1 DEF Token_
    <3>. QED  BY <2>1, <2>2, <2>3, <3>1 DEF KnownInv, Placed, Readable
  <2>. QED  BY <2>2, <2>3
<1>. QED  BY <1>1, <1>2, <1>3, InitInv, ListSteps, PTL
------------------------------------------------------------------------------
(* The list of tokens is one array as far as the block of its first element goes, *)
(* for every file, every size of that block and any number of blocks: what the      *)
(* parser reads as token[idx] is what token_list_add pushed (tokenizer.c:15-33).    *)

AP == INSTANCE ArenaProofs WITH
          Handles   <- {"main", "list"}, arenas <- <<>>,
          Requests  <- {TokenRequest} \cup {FileRequest(Len(i)) : i \in Inputs},
          MaxGrowth <- 1, MaxTemps <- 0, MaxAllocs <- MaxTokens + 3

ListRequest == [handle |-> "list", size |-> SizeOfToken, align |-> 8]

(* What is pushed in which order, and how many places the list has. *)
Order ==
    /\ input \in Inputs
    /\ phase \in {"start", "file", "first", "tokens"}
    /\ place \in Seq([block : Nat, start : Nat])
    /\ phase # "tokens" => place = <<>> /\ token = <<>> /\ pc = "reading"
    /\ phase \in {"first", "tokens"} => request \subseteq {ListRequest}
    /\ phase = "tokens" => Count >= 1

(* A place for every token and for the element that is tested for TOK_EOL.         *)
Ending ==
    phase = "tokens" =>
        /\ pc = "reading" => Count = Len(token) + 1
        /\ pc = "done" =>
               \/ Count = Len(token) + 1 /\ Len(token) >= 1 /\ token[Len(token)].kind = "EOL"
               \/ ~BehindInBlock

(* While the list has one block its places follow each other up to the position of *)
(* the block; the first m of them stay when the list goes on in other blocks.       *)
InOneBlock ==
    /\ handle["list"] = place[1].block
    /\ \A k \in 1 .. Count : ReadsBack(k)
    /\ blocks[place[1].block].pos = place[1].start + SizeOfToken * Count

SplitAt(m) ==
    /\ handle["list"] # place[1].block
    /\ \A k \in 1 .. m : ReadsBack(k)
    /\ \A k \in m + 1 .. Count : place[k].block # place[1].block
    /\ place[1].start + SizeOfToken * m <= blocks[place[1].block].size
    /\ blocks[place[1].block].size < place[1].start + SizeOfToken * (m + 1)

Array ==
    phase = "tokens" =>
        /\ place[1].block \in 1 .. Len(blocks)
        /\ place[1].start % 8 = 0
        /\ InOneBlock \/ \E m \in 1 .. Count : SplitAt(m)

ListInv == Inv /\ AP!Inv /\ Order /\ Ending /\ Array

------------------------------------------------------------------------------
LEMMA ArenaSizes == AP!SizesAssumption
BY FirstSizeAssumption, InputsAssumption
   DEF AP!SizesAssumption, TokenRequest, FileRequest, SizeOfToken

(* The steps of the arena are those of Arena. *)
LEMMA ArenaSteps ==
  ASSUME input \in Inputs, [ListNext]_listVars
  PROVE  [AP!Next]_(AP!vars)
<1>1. CASE A!Alloc("main")
  <2>1. AP!Alloc("main")
    BY <1>1 DEF A!Alloc, AP!Alloc, A!Idle, AP!Idle, A!NewBlock, AP!NewBlock,
                A!Header, AP!Header, A!RootOf, AP!RootOf, A!Chain, AP!Chain
  <2>. QED  BY <2>1 DEF AP!Next
<1>2. CASE A!Copy("main", "list")
  <2>1. AP!Copy("main", "list")
    BY <1>2 DEF A!Copy, AP!Copy, A!Idle, AP!Idle
  <2>. QED  BY <2>1 DEF AP!Next
<1>3. ASSUME NEW h \in {"main", "list"},
             NEW r \in {TokenRequest} \cup {FileRequest(Len(i)) : i \in Inputs}, A!Push(h, r)
      PROVE  [AP!Next]_(AP!vars)
  <2>1. AP!Push(h, r)
    BY <1>3 DEF A!Push, AP!Push, A!Idle, AP!Idle, A!Cardinality, AP!Cardinality
  <2>. QED  BY <2>1 DEF AP!Next
<1>4. CASE A!PushFits
  <2>1. AP!PushFits
    BY <1>4 DEF A!PushFits, AP!PushFits, A!Fits, AP!Fits, A!Start, AP!Start,
                A!AlignForward, AP!AlignForward
  <2>. QED  BY <2>1 DEF AP!Next
<1>5. CASE A!PushGrows
  <2>1. AP!PushGrows
    BY <1>5 DEF A!PushGrows, AP!PushGrows, A!Fits, AP!Fits, A!Start, AP!Start,
                A!AlignForward, AP!AlignForward, A!NewBlock, AP!NewBlock,
                A!Header, AP!Header, A!RootOf, AP!RootOf, A!Chain, AP!Chain
  <2>. QED  BY <2>1 DEF AP!Next
<1>6. CASE UNCHANGED arena
  BY <1>6 DEF arena, AP!vars
<1>7. ListNext =>
          \/ A!Alloc("main") \/ A!Copy("main", "list") \/ A!PushFits \/ A!PushGrows
          \/ A!Push("main", FileRequest(Len(input))) \/ A!Push("list", TokenRequest)
          \/ UNCHANGED arena
  BY DEF ListNext, AllocMain, PushFile, PlaceFile, CopyMain, PushFirst, PlaceFirst,
         Grow, PushToken, AddToken, EndUnread, AbortRead
<1>. QED  BY <1>1, <1>2, <1>3, <1>4, <1>5, <1>6, <1>7 DEF listVars, arena

LEMMA ListInit_ == ListInit => ListInv
<1>. SUFFICES ASSUME ListInit PROVE ListInv
  OBVIOUS
<1>1. AP!Inv
  <2>1. AP!Init
    BY DEF ListInit, A!Init, AP!Init
  <2>. QED  BY <2>1, ArenaSizes, AP!InitInv
<1>2. Inv
  BY InitInv DEF ListInit
<1>3. Order /\ Ending /\ Array
  BY DEF ListInit, Init, Order, Ending, Array
<1>. QED  BY <1>1, <1>2, <1>3 DEF ListInv

------------------------------------------------------------------------------
LEMMA BlockRoom ==
  ASSUME AP!Inv, NEW b \in 1 .. Len(blocks)
  PROVE  /\ blocks[b].size \in Nat /\ blocks[b].pos \in Nat
         /\ blocks[b].pos <= blocks[b].size
<1>1. b \in AP!Blocks
  BY DEF AP!Blocks
<1>2. blocks[b].size \in Nat /\ blocks[b].pos \in Nat
  BY <1>1, ArenaSizes, AP!BlockFields DEF AP!Inv
<1>. QED  BY <1>1, <1>2 DEF AP!Inv, AP!BlocksLinked

(* The arena of the list has a block while it is asked for room. *)
LEMMA ListBlock ==
  ASSUME AP!Inv, request = {ListRequest}
  PROVE  handle["list"] \in 1 .. Len(blocks)
<1>1. ListRequest \in request /\ ListRequest.handle = "list"
  BY DEF ListRequest
<1>2. handle["list"] # 0
  BY <1>1 DEF AP!Inv, AP!RequestsServed
<1>3. handle["list"] \in 0 .. Len(blocks) /\ Len(blocks) \in Nat
  BY DEF AP!Inv, AP!TypeOK
<1>. QED  BY <1>2, <1>3

(* Room is found at the next multiple of 8. *)
LEMMA AlignTo8 ==
  ASSUME NEW p \in Nat
  PROVE  \E s \in Nat :
             s = A!AlignForward(p, 8) /\ s % 8 = 0 /\ p <= s /\ (p % 8 = 0 => s = p)
<1>1. CASE (p % 8) = 0
  BY <1>1 DEF A!AlignForward
<1>2. CASE (p % 8) # 0
  <2>1. PICK r \in 1 .. 7 : r = (p % 8)
    BY <1>2
  <2>2. PICK s \in Nat : s = p + (8 - r)
    OBVIOUS
  <2>3. (s % 8) = 0 /\ p <= s
    BY <2>1, <2>2
  <2>4. A!AlignForward(p, 8) = s
    BY <1>2, <2>1, <2>2 DEF A!AlignForward
  <2>. QED  BY <1>2, <2>3, <2>4
<1>. QED  BY <1>1, <1>2

(* A token that finds room lies where the arena is, on a multiple of 8. *)
LEMMA TokenFits ==
  ASSUME AP!Inv, request \subseteq {ListRequest}, A!PushFits, Address
  PROVE  \E b \in 1 .. Len(blocks), s \in Nat :
             /\ b = handle["list"] /\ place' = Append(place, [block |-> b, start |-> s])
             /\ s % 8 = 0 /\ (blocks[b].pos % 8 = 0 => s = blocks[b].pos)
             /\ blocks'[b].pos = s + SizeOfToken
             /\ Len(blocks') = Len(blocks) /\ handle' = handle /\ request' = {}
             /\ \A c \in 1 .. Len(blocks) : blocks'[c].size = blocks[c].size
<1>1. request = {ListRequest}
  BY DEF A!PushFits
<1>2. PICK b \in 1 .. Len(blocks) : b = handle["list"]
  BY <1>1, ListBlock
<1>3. PICK s \in Nat :
          /\ s = A!AlignForward(blocks[b].pos, 8) /\ s % 8 = 0
          /\ blocks[b].pos % 8 = 0 => s = blocks[b].pos
  BY BlockRoom, AlignTo8
<1>4. A!Start(ListRequest) = s /\ ListRequest.handle = "list" /\ ListRequest.size = SizeOfToken
  BY <1>2, <1>3 DEF A!Start, ListRequest
<1>5. /\ blocks' = [blocks EXCEPT ![b].pos = s + SizeOfToken]
      /\ handle' = handle /\ request' = {}
  BY <1>1, <1>2, <1>4 DEF A!PushFits
<1>6. place' = Append(place, [block |-> b, start |-> s])
  BY <1>1, <1>2, <1>4 DEF Address
<1>7. b \in AP!Blocks /\ s + SizeOfToken \in Nat
  BY DEF AP!Blocks, SizeOfToken
<1>8. /\ Len(blocks') = Len(blocks) /\ blocks'[b].pos = s + SizeOfToken
      /\ \A c \in AP!Blocks : blocks'[c].size = blocks[c].size
  BY <1>5, <1>7, ArenaSizes, AP!SetPos DEF AP!Inv
<1>. QED  BY <1>2, <1>3, <1>5, <1>6, <1>8 DEF AP!Blocks

(* When a token finds no room the list goes on in a new block. *)
LEMMA TokenGrows ==
  ASSUME AP!Inv, request \subseteq {ListRequest}, A!PushGrows
  PROVE  \E b \in 1 .. Len(blocks) :
             /\ b = handle["list"] /\ handle'["list"] = Len(blocks) + 1
             /\ request' = request /\ Len(blocks') = Len(blocks) + 1
             /\ \A c \in 1 .. Len(blocks) : blocks'[c] = blocks[c]
             /\ blocks[b].pos % 8 = 0 => blocks[b].size < blocks[b].pos + SizeOfToken
<1>1. request = {ListRequest}
  BY DEF A!PushGrows
<1>2. PICK b \in 1 .. Len(blocks) : b = handle["list"]
  BY <1>1, ListBlock
<1>3. PICK s \in Nat :
          s = A!AlignForward(blocks[b].pos, 8) /\ (blocks[b].pos % 8 = 0 => s = blocks[b].pos)
  BY BlockRoom, AlignTo8
<1>4. A!Start(ListRequest) = s /\ ListRequest.handle = "list" /\ ListRequest.size = SizeOfToken
  BY <1>2, <1>3 DEF A!Start, ListRequest
<1>5. ~(s + SizeOfToken <= blocks[b].size)
  BY <1>1, <1>2, <1>4 DEF A!PushGrows, A!Fits
<1>6. PICK new : /\ blocks' = Append(blocks, new)
                 /\ handle' = [handle EXCEPT !["list"] = Len(blocks) + 1]
                 /\ request' = request
  BY <1>1, <1>4 DEF A!PushGrows
<1>7. blocks \in Seq(AP!Header_) /\ handle \in [{"main", "list"} -> 0 .. Len(blocks)]
  BY DEF AP!Inv, AP!TypeOK
<1>8. /\ Len(blocks') = Len(blocks) + 1
      /\ \A c \in 1 .. Len(blocks) : blocks'[c] = blocks[c]
  BY <1>6, <1>7
<1>9. blocks[b].size \in Nat /\ blocks[b].pos \in Nat
  BY BlockRoom
<1>. QED  BY <1>2, <1>3, <1>5, <1>6, <1>7, <1>8, <1>9 DEF SizeOfToken

------------------------------------------------------------------------------
(* The first place. *)
LEMMA FirstArray ==
  ASSUME ListInv, PlaceFirst
  PROVE  Order' /\ Ending' /\ Array'
<1>1. /\ phase = "first" /\ phase' = "tokens" /\ UNCHANGED vars
      /\ place = <<>> /\ token = <<>> /\ pc = "reading" /\ input \in Inputs
      /\ request \subseteq {ListRequest}
  BY DEF PlaceFirst, ListInv, Order
<1>2. PICK b \in 1 .. Len(blocks), s \in Nat :
          /\ b = handle["list"] /\ place' = Append(place, [block |-> b, start |-> s])
          /\ s % 8 = 0 /\ blocks'[b].pos = s + SizeOfToken
          /\ Len(blocks') = Len(blocks) /\ handle' = handle /\ request' = {}
  BY <1>1, TokenFits DEF PlaceFirst, ListInv
<1>3. b \in Nat /\ Len(blocks) \in Nat
  BY <1>2 DEF ListInv, AP!Inv, AP!TypeOK
<1>4. place' = <<[block |-> b, start |-> s]>>
  BY <1>1, <1>2
<1>5. /\ place' \in Seq([block : Nat, start : Nat]) /\ Count' = 1
      /\ place'[1].block = b /\ place'[1].start = s
      /\ place'[1] = [block |-> b, start |-> s]
  BY <1>3, <1>4 DEF Count
<1>6. Order'
  <2>1. input' = input
    BY <1>1 DEF vars
  <2>. QED  BY <1>1, <1>2, <1>5, <2>1 DEF Order
<1>7. Ending'
  <2>1. token' = <<>> /\ pc' = "reading"
    BY <1>1 DEF vars
  <2>. QED  BY <1>5, <2>1 DEF Ending
<1>8. ReadsBack(1)'
  BY <1>5 DEF ReadsBack, Element, SizeOfToken
<1>9. InOneBlock'
  BY <1>2, <1>5, <1>8 DEF InOneBlock, SizeOfToken
<1>10. Array'
  BY <1>2, <1>5, <1>9 DEF Array
<1>. QED  BY <1>6, <1>7, <1>10

(* A token more leaves the places before it where they are. *)
LEMMA AppendPlace ==
  ASSUME Order, phase = "tokens", NEW x \in [block : Nat, start : Nat], place' = Append(place, x)
  PROVE  /\ Count \in Nat /\ Count >= 1 /\ Count' = Count + 1 /\ place'[Count + 1] = x
         /\ place' \in Seq([block : Nat, start : Nat])
         /\ place'[1] = place[1] /\ place[1] \in [block : Nat, start : Nat]
         /\ \A k \in 1 .. Count : place'[k] = place[k] /\ (ReadsBack(k)' <=> ReadsBack(k))
<1>1. place \in Seq([block : Nat, start : Nat]) /\ Len(place) >= 1
  BY DEF Order, Count
<1>2. /\ Len(place) \in Nat /\ Len(place') = Len(place) + 1
      /\ \A k \in 1 .. Len(place) : place'[k] = place[k]
      /\ place'[Len(place) + 1] = x
      /\ place' \in Seq([block : Nat, start : Nat])
  BY <1>1, AppendProperties
<1>3. place'[1] = place[1] /\ place[1] \in [block : Nat, start : Nat]
  <2>1. 1 \in 1 .. Len(place)
    BY <1>1, <1>2
  <2>. QED  BY <1>1, <1>2, <2>1, ElementOfSeq
<1>4. \A k \in 1 .. Len(place) : ReadsBack(k)' <=> ReadsBack(k)
  BY <1>2, <1>3 DEF ReadsBack, Element
<1>. QED  BY <1>1, <1>2, <1>3, <1>4 DEF Count

LEMMA AddArray ==
  ASSUME ListInv, AddToken
  PROVE  Order' /\ Array'
<1>1. /\ phase = "tokens" /\ phase' = "tokens" /\ input' = input
      /\ request \subseteq {ListRequest}
      /\ Order
  <2>1. input' = input
    BY DEF AddToken, Read, Finish, ReadMark, ReadWord, ReadNumber, ReadOther, Round
  <2>. QED  BY <2>1 DEF AddToken, ListInv, Order
<1>2. PICK b \in 1 .. Len(blocks), s \in Nat :
          /\ b = handle["list"] /\ place' = Append(place, [block |-> b, start |-> s])
          /\ s % 8 = 0 /\ (blocks[b].pos % 8 = 0 => s = blocks[b].pos)
          /\ blocks'[b].pos = s + SizeOfToken
          /\ Len(blocks') = Len(blocks) /\ handle' = handle /\ request' = {}
          /\ \A c \in 1 .. Len(blocks) : blocks'[c].size = blocks[c].size
  BY <1>1, TokenFits DEF AddToken, ListInv
<1>3. PICK n \in Nat : n = Count /\ n >= 1
  BY <1>1 DEF Order, Count
<1>4. b \in Nat
  BY <1>2 DEF ListInv, AP!Inv, AP!TypeOK
<1>5. PICK x \in [block : Nat, start : Nat] : x = [block |-> b, start |-> s]
  BY <1>4
<1>6. /\ Count' = n + 1 /\ place'[n + 1] = x /\ x.block = b /\ x.start = s
      /\ place' \in Seq([block : Nat, start : Nat])
      /\ place'[1] = place[1]
      /\ \A k \in 1 .. n : place'[k] = place[k] /\ (ReadsBack(k)' <=> ReadsBack(k))
  BY <1>1, <1>2, <1>3, <1>5, AppendPlace
<1>7. PICK B \in 1 .. Len(blocks), S \in Nat :
          B = place[1].block /\ S = place[1].start /\ S % 8 = 0
  BY <1>1, <1>2, <1>5, AppendPlace DEF ListInv, Array
<1>8. InOneBlock \/ \E m \in 1 .. n : SplitAt(m)
  BY <1>1, <1>3 DEF ListInv, Array
<1>9. CASE InOneBlock
  <2>1. b = B /\ blocks[b].pos = S + SizeOfToken * n /\ \A k \in 1 .. n : ReadsBack(k)
    BY <1>2, <1>3, <1>7, <1>9 DEF InOneBlock
  <2>2. s = S + SizeOfToken * n
    <3>1. ((S + 32 * n) % 8) = 0
      BY <1>7
    <3>. QED  BY <1>2, <2>1, <3>1 DEF SizeOfToken
  <2>3. ReadsBack(n + 1)'
    BY <1>5, <1>6, <1>7, <2>1, <2>2 DEF ReadsBack, Element, SizeOfToken
  <2>4. blocks'[B].pos = S + SizeOfToken * (n + 1)
    BY <1>2, <2>1, <2>2 DEF SizeOfToken
  <2>5. \A k \in 1 .. n + 1 : ReadsBack(k)'
    <3>1. \A k \in 1 .. n : ReadsBack(k)'
      BY <1>6, <2>1
    <3>. QED  BY <2>3, <3>1
  <2>6. InOneBlock'
    BY <1>2, <1>6, <1>7, <2>1, <2>4, <2>5 DEF InOneBlock
  <2>. QED  BY <1>1, <1>2, <1>3, <1>6, <1>7, <2>6 DEF Array, Order
<1>10. ASSUME NEW m \in 1 .. n, SplitAt(m) PROVE Order' /\ Array'
  <2>1. /\ b # B
        /\ \A k \in 1 .. m : ReadsBack(k)
        /\ \A k \in m + 1 .. n : place[k].block # B
        /\ S + SizeOfToken * m <= blocks[B].size
        /\ blocks[B].size < S + SizeOfToken * (m + 1)
    BY <1>2, <1>3, <1>7, <1>10 DEF SplitAt
  <2>2. \A k \in 1 .. m : ReadsBack(k)'
    <3>1. \A k \in 1 .. m : k \in 1 .. n
      OBVIOUS
    <3>. QED  BY <1>6, <2>1, <3>1
  <2>3. ASSUME NEW k \in m + 1 .. n + 1 PROVE place'[k].block # B
    <3>1. CASE k = n + 1
      BY <1>6, <2>1, <3>1
    <3>2. CASE k # n + 1
      <4>1. k \in 1 .. n /\ k \in m + 1 .. n
        BY <3>2
      <4>2. place'[k] = place[k]
        BY <1>6, <4>1
      <4>. QED  BY <2>1, <4>1, <4>2
    <3>. QED  BY <3>1, <3>2
  <2>4. SplitAt(m)'
    BY <1>2, <1>6, <1>7, <2>1, <2>2, <2>3 DEF SplitAt
  <2>5. Array'
    <3>1. m \in 1 .. Count'
      BY <1>6
    <3>. QED  BY <1>2, <1>6, <1>7, <2>4, <3>1 DEF Array
  <2>6. Order'
    BY <1>1, <1>2, <1>3, <1>6 DEF Order
  <2>. QED  BY <2>5, <2>6
<1>. QED  BY <1>8, <1>9, <1>10

(* A token has its place; the last is TOK_EOL when the element behind it was tested. *)
LEMMA AddEnding ==
  ASSUME ListInv, AddToken
  PROVE  Ending'
<1>1. /\ phase = "tokens" /\ phase' = "tokens" /\ Order
      /\ request \subseteq {ListRequest}
  BY DEF AddToken, ListInv, Order
<1>2. PICK x \in [block : Nat, start : Nat] : place' = Append(place, x)
  <2>1. PICK b \in 1 .. Len(blocks), s \in Nat : place' = Append(place, [block |-> b, start |-> s])
    BY <1>1, TokenFits DEF AddToken, ListInv
  <2>2. b \in Nat
    BY DEF ListInv, AP!Inv, AP!TypeOK
  <2>. QED  BY <2>1, <2>2
<1>3. Count' = Count + 1 /\ Count \in Nat
  BY <1>1, <1>2, AppendPlace
<1>4. token \in Seq(Token_)
  BY DEF ListInv, Inv, TypeOK
<1>5. pc = "reading"
  BY DEF AddToken, Idle, Read, Finish, ReadMark, ReadWord, ReadNumber, ReadOther, Round
<1>6. Count = Len(token) + 1
  BY <1>1, <1>5 DEF ListInv, Ending
<1>7. CASE Read
  <2>1. PICK t : token' = Append(token, t)
    BY <1>7 DEF Read, ReadMark, ReadWord, ReadNumber, ReadOther, Round
  <2>2. pc' = "reading"
    BY <1>5, <1>7 DEF Read, ReadMark, ReadWord, ReadNumber, ReadOther, Round
  <2>3. Len(token') = Len(token) + 1 /\ Len(token) \in Nat
    BY <1>4, <2>1
  <2>. QED  BY <1>3, <1>6, <2>2, <2>3 DEF Ending
<1>8. CASE Finish(TRUE)
  <2>. DEFINE t == Token("EOL", Len(input), Len(input), 0)
  <2>1. token' = Append(token, t) /\ pc' = "done"
    BY <1>8 DEF Finish
  <2>2. t.kind = "EOL"
    BY DEF Token
  <2>. HIDE DEF t
  <2>3. /\ Len(token') = Len(token) + 1 /\ Len(token) \in Nat
        /\ token'[Len(token) + 1] = t
    BY <1>4, <2>1
  <2>. QED  BY <1>3, <1>6, <2>1, <2>2, <2>3 DEF Ending
<1>. QED  BY <1>7, <1>8 DEF AddToken

(* The list goes on in a new block. *)
LEMMA GrowArray ==
  ASSUME ListInv, Grow
  PROVE  Order' /\ Ending' /\ Array'
<1>1. UNCHANGED <<vars, place, phase>> /\ A!PushGrows
  BY DEF Grow
<1>2. /\ input' = input /\ token' = token /\ pc' = pc
      /\ place' = place /\ phase' = phase /\ Count' = Count
  BY <1>1 DEF vars, Count
<1>3. request' = request
  BY <1>1 DEF A!PushGrows
<1>4. Order'
  BY <1>2, <1>3 DEF ListInv, Order
<1>5. CASE phase # "tokens"
  BY <1>2, <1>4, <1>5 DEF Ending, Array
<1>6. CASE phase = "tokens"
  <2>1. PICK b \in 1 .. Len(blocks) :
            /\ b = handle["list"] /\ handle'["list"] = Len(blocks) + 1
            /\ Len(blocks') = Len(blocks) + 1
            /\ \A c \in 1 .. Len(blocks) : blocks'[c] = blocks[c]
            /\ blocks[b].pos % 8 = 0 => blocks[b].size < blocks[b].pos + SizeOfToken
    BY <1>1, <1>6, TokenGrows DEF ListInv, Order
  <2>2. PICK n \in Nat : n = Count /\ n >= 1
    BY <1>6 DEF ListInv, Order, Count
  <2>3. place[1].start \in Nat
    <3>1. 1 \in 1 .. Len(place) /\ place \in Seq([block : Nat, start : Nat])
      BY <2>2 DEF Count, ListInv, Order
    <3>2. place[1] \in [block : Nat, start : Nat]
      BY <3>1, ElementOfSeq
    <3>. QED  BY <3>2
  <2>4. PICK B \in 1 .. Len(blocks), S \in Nat :
            B = place[1].block /\ S = place[1].start /\ S % 8 = 0
    BY <1>6, <2>3 DEF ListInv, Array
  <2>5. /\ blocks'[B] = blocks[B] /\ Len(blocks) \in Nat
        /\ B \in 1 .. Len(blocks') /\ handle'["list"] # B
    BY <2>1, <2>4 DEF ListInv, AP!Inv, AP!TypeOK
  <2>6. Ending'
    <3>1. BehindInBlock' <=> BehindInBlock
      BY <1>2, <2>4, <2>5 DEF BehindInBlock
    <3>. QED  BY <1>2, <3>1 DEF ListInv, Ending
  <2>7. \A k : ReadsBack(k)' <=> ReadsBack(k)
    BY <1>2 DEF ReadsBack, Element
  <2>8. CASE InOneBlock
    <3>1. b = B /\ blocks[B].pos = S + SizeOfToken * n /\ \A k \in 1 .. n : ReadsBack(k)
      BY <2>1, <2>2, <2>4, <2>8 DEF InOneBlock
    <3>2. S + SizeOfToken * n <= blocks[B].size /\ blocks[B].size \in Nat
      BY <3>1, BlockRoom DEF ListInv
    <3>3. blocks[B].size < S + SizeOfToken * (n + 1)
      <4>1. ((S + 32 * n) % 8) = 0
        BY <2>4
      <4>2. blocks[B].size < blocks[B].pos + SizeOfToken
        BY <2>1, <3>1, <4>1 DEF SizeOfToken
      <4>. QED  BY <3>1, <3>2, <4>2 DEF SizeOfToken
    <3>4. SplitAt(n)'
      BY <1>2, <2>2, <2>4, <2>5, <2>7, <3>1, <3>2, <3>3 DEF SplitAt
    <3>5. Array'
      <4>1. n \in 1 .. Count'
        BY <1>2, <2>2
      <4>. QED  BY <1>2, <2>4, <2>5, <3>4, <4>1 DEF Array
    <3>. QED  BY <1>4, <2>6, <3>5
  <2>9. ASSUME NEW m \in 1 .. n, SplitAt(m) PROVE Order' /\ Ending' /\ Array'
    <3>1. SplitAt(m)'
      BY <1>2, <2>2, <2>4, <2>5, <2>7, <2>9 DEF SplitAt
    <3>2. Array'
      <4>1. m \in 1 .. Count'
        BY <1>2, <2>2
      <4>. QED  BY <1>2, <2>4, <2>5, <3>1, <4>1 DEF Array
    <3>. QED  BY <1>4, <2>6, <3>2
  <2>. QED  BY <1>6, <2>2, <2>8, <2>9 DEF ListInv, Array
<1>. QED  BY <1>5, <1>6

(* Steps that leave the blocks, the places and the phase alone. *)
LEMMA SamePlaces ==
  ASSUME ListInv, UNCHANGED <<blocks, handle, place, phase, input>>
  PROVE  /\ Array' /\ (BehindInBlock' <=> BehindInBlock) /\ Count' = Count
<1>1. \A k : ReadsBack(k)' <=> ReadsBack(k)
  BY DEF ReadsBack, Element
<1>2. Count' = Count /\ (BehindInBlock' <=> BehindInBlock)
  BY DEF Count, BehindInBlock
<1>3. (InOneBlock' <=> InOneBlock) /\ \A m : SplitAt(m)' <=> SplitAt(m)
  BY <1>1, <1>2 DEF InOneBlock, SplitAt
<1>4. Array'
  BY <1>2, <1>3 DEF ListInv, Array
<1>. QED  BY <1>2, <1>4

LEMMA StorageStep ==
  ASSUME ListInv, [ListNext]_listVars
  PROVE  Order' /\ Ending' /\ Array'
<1>1. CASE AllocMain \/ PushFile \/ PlaceFile \/ CopyMain \/ PushFirst
  <2>1. /\ UNCHANGED <<vars, place>> /\ phase # "tokens" /\ phase' \in {"start", "file", "first"}
        /\ phase # "first"
    BY <1>1 DEF AllocMain, PushFile, PlaceFile, CopyMain, PushFirst, ListInv, Order
  <2>2. phase' = "first" => request' \subseteq {ListRequest}
    <3>1. phase' = "first" => PushFirst
      BY <1>1, <2>1 DEF AllocMain, PushFile, PlaceFile, CopyMain
    <3>. QED  BY <3>1 DEF PushFirst, A!Push, TokenRequest, FileRequest, ListRequest
  <2>3. Order'
    BY <2>1, <2>2 DEF ListInv, Order, vars
  <2>. QED  BY <2>1, <2>3 DEF Ending, Array
<1>2. CASE PlaceFirst
  BY <1>2, FirstArray
<1>3. CASE Grow
  BY <1>3, GrowArray
<1>4. CASE AddToken
  BY <1>4, AddArray, AddEnding
<1>5. CASE PushToken
  <2>1. UNCHANGED <<vars, place, phase, blocks, handle>> /\ phase = "tokens"
    BY <1>5 DEF PushToken, A!Push
  <2>2. request' \subseteq {ListRequest}
    BY <1>5 DEF PushToken, A!Push, TokenRequest, FileRequest, ListRequest
  <2>3. Array' /\ (BehindInBlock' <=> BehindInBlock) /\ Count' = Count
    BY <2>1, SamePlaces DEF vars
  <2>4. Order'
    BY <2>1, <2>2, <2>3 DEF ListInv, Order, vars
  <2>5. Ending'
    BY <2>1, <2>3 DEF ListInv, Ending, vars
  <2>. QED  BY <2>3, <2>4, <2>5
<1>6. CASE EndUnread
  <2>1. /\ UNCHANGED <<arena, place, phase, input, token>> /\ phase = "tokens"
        /\ ~BehindInBlock /\ pc' \in {"done", "aborted"}
    BY <1>6 DEF EndUnread, Finish
  <2>2. Array' /\ (BehindInBlock' <=> BehindInBlock) /\ Count' = Count
    BY <2>1, SamePlaces DEF arena
  <2>3. Order'
    BY <2>1, <2>2 DEF ListInv, Order, arena
  <2>4. Ending'
    BY <2>1, <2>2 DEF Ending
  <2>. QED  BY <2>2, <2>3, <2>4
<1>7. CASE AbortRead
  <2>1. /\ UNCHANGED <<arena, place, phase, input, token>> /\ phase = "tokens"
        /\ pc' = "aborted"
    BY <1>7 DEF AbortRead, Abort
  <2>2. Array' /\ (BehindInBlock' <=> BehindInBlock) /\ Count' = Count
    BY <2>1, SamePlaces DEF arena
  <2>3. Order'
    BY <2>1, <2>2 DEF ListInv, Order, arena
  <2>4. Ending'
    BY <2>1 DEF Ending
  <2>. QED  BY <2>2, <2>3, <2>4
<1>8. CASE UNCHANGED listVars
  <2>1. UNCHANGED <<arena, place, phase, input, token, pc>>
    BY <1>8 DEF listVars, vars
  <2>2. Array' /\ (BehindInBlock' <=> BehindInBlock) /\ Count' = Count
    BY <2>1, SamePlaces DEF arena
  <2>3. Order' /\ Ending'
    BY <2>1, <2>2 DEF ListInv, Order, Ending, arena
  <2>. QED  BY <2>2, <2>3
<1>. QED  BY <1>1, <1>2, <1>3, <1>4, <1>5, <1>6, <1>7, <1>8 DEF ListNext

LEMMA ListStep == ListInv /\ [ListNext]_listVars => ListInv'
<1>. SUFFICES ASSUME ListInv, [ListNext]_listVars PROVE ListInv'
  OBVIOUS
<1>1. AP!Inv'
  <2>1. [AP!Next]_(AP!vars)
    BY ArenaSteps DEF ListInv, Order
  <2>. QED  BY <2>1, ArenaSizes, AP!StepInv DEF ListInv
<1>2. [Reads]_vars
  BY DEF ListNext, listVars, Reads, Next, AllocMain, PushFile, PlaceFile, CopyMain,
         PushFirst, PlaceFirst, Grow, PushToken, AddToken, EndUnread, AbortRead, vars
<1>3. Inv'
  BY <1>2, StepInv DEF ListInv
<1>. QED  BY <1>1, <1>3, StorageStep DEF ListInv

(* A place reads back if it lies in the first block, which is as far as the array goes. *)
LEMMA ReadsBackInBlock ==
  ASSUME ListInv, NEW k \in 1 .. Count
  PROVE  ReadsBack(k) <=> Element(k + 1).start <= blocks[place[1].block].size
<1>1. phase = "tokens" /\ place \in Seq([block : Nat, start : Nat])
  BY DEF ListInv, Order, Count
<1>2. PICK n \in Nat : n = Count /\ n >= 1
  BY <1>1 DEF Count, ListInv, Order
<1>3. place[1].start \in Nat
  <2>1. 1 \in 1 .. Len(place)
    BY <1>2 DEF Count
  <2>2. place[1] \in [block : Nat, start : Nat]
    BY <1>1, <2>1, ElementOfSeq
  <2>. QED  BY <2>2
<1>4. PICK B \in 1 .. Len(blocks), S \in Nat : B = place[1].block /\ S = place[1].start
  BY <1>1, <1>3 DEF ListInv, Array
<1>5. PICK size \in Nat : size = blocks[B].size /\ blocks[B].pos <= size
  BY BlockRoom DEF ListInv
<1>6. Element(k + 1).start = S + SizeOfToken * k
  BY <1>4 DEF Element, SizeOfToken
<1>7. CASE InOneBlock
  <2>1. blocks[B].pos = S + SizeOfToken * n /\ ReadsBack(k)
    BY <1>2, <1>4, <1>7 DEF InOneBlock
  <2>2. S + SizeOfToken * k <= size
    BY <1>2, <1>5, <2>1 DEF SizeOfToken
  <2>. QED  BY <1>4, <1>5, <1>6, <2>1, <2>2
<1>8. ASSUME NEW m \in 1 .. n, SplitAt(m)
      PROVE  ReadsBack(k) <=> Element(k + 1).start <= blocks[place[1].block].size
  <2>1. /\ \A j \in 1 .. m : ReadsBack(j)
        /\ \A j \in m + 1 .. n : place[j].block # B
        /\ S + SizeOfToken * m <= size
        /\ size < S + SizeOfToken * (m + 1)
    BY <1>2, <1>4, <1>5, <1>8 DEF SplitAt
  <2>2. CASE k <= m
    <3>1. ReadsBack(k)
      BY <2>1, <2>2
    <3>2. S + SizeOfToken * k <= size
      BY <2>1, <2>2 DEF SizeOfToken
    <3>. QED  BY <1>4, <1>5, <1>6, <3>1, <3>2
  <2>3. CASE k > m
    <3>1. k \in m + 1 .. n
      BY <1>2, <2>3
    <3>2. ~ReadsBack(k)
      BY <1>4, <2>1, <3>1 DEF ReadsBack, Element
    <3>3. ~(S + SizeOfToken * k <= size)
      BY <2>1, <2>3 DEF SizeOfToken
    <3>. QED  BY <1>4, <1>5, <1>6, <3>2, <3>3
  <2>. QED  BY <1>2, <2>2, <2>3
<1>. QED  BY <1>1, <1>2, <1>7, <1>8 DEF ListInv, Array

(* Whatever the file, the size of the first block and the number of tokens, the list *)
(* is one array as far as that block goes and no further, nothing lies over a token,   *)
(* and a list that is one array ends with TOK_EOL (tokenizer.c:18, 27, 111).            *)
THEOREM ReadBackCorrect == ListSpec => []TokensReadBack
<1>1. ListInv => TokensReadBack
  <2>. SUFFICES ASSUME ListInv PROVE TokensReadBack
    OBVIOUS
  <2>1. A!NoOverlap
    BY DEF ListInv, AP!Inv, AP!NoOverlap, A!NoOverlap
  <2>2. ASSUME pc = "done", BehindInBlock
        PROVE  Count = Len(token) + 1 /\ token[Len(token)].kind = "EOL"
    BY <2>2 DEF ListInv, Order, Ending
  <2>. QED  BY <2>1, <2>2, ReadsBackInBlock DEF TokensReadBack
<1>. QED  BY <1>1, ListInit_, ListStep, PTL DEF ListSpec
===============================================================================
