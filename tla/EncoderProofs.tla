----------------------------- MODULE EncoderProofs -----------------------------
(* codegen for one instruction, for every call with operands as the parser makes  *)
(* them: what is counted is what was shifted in, it makes whole bytes and no more  *)
(* than six, and the place recorded for the patch loop is the empty hole.          *)
EXTENDS Encoder, FiniteSets, FiniteSetTheorems, SequenceTheorems, TLAPS

(* Induction over the natural numbers, for a set of them instead of a predicate: the  *)
(* step maps the members below a number that is missing into themselves, so onto.      *)
LEMMA SetInduction ==
  ASSUME NEW N \in SUBSET Nat, 0 \in N, \A n \in N : n + 1 \in N
  PROVE  N = Nat
<1>. SUFFICES ASSUME NEW k \in Nat \ {0}, k \notin N PROVE FALSE
  OBVIOUS
<1>. DEFINE B    == {n \in 0 .. k : n \in N /\ n < k}
            step == [n \in B |-> n + 1]
<1>1. 0 \in B /\ B \in SUBSET Nat /\ \A n \in B : n <= k
  OBVIOUS
<1>2. ASSUME NEW n \in B PROVE n + 1 \in B
  <2>1. n + 1 \in N /\ n + 1 # k
    OBVIOUS
  <2>. QED  BY <2>1
<1>. HIDE DEF B
<1>3. IsFiniteSet(B)
  BY <1>1, FS_BoundedSetOfNaturals
<1>4. step \in Injection(B, B)
  BY <1>1, <1>2 DEF Injection, IsInjective
<1>5. step \in Surjection(B, B)
  BY <1>3, <1>4, FS_Injection
<1>6. PICK n \in B : step[n] = 0
  BY <1>1, <1>5 DEF Surjection
<1>. QED  BY <1>1, <1>6

Bit == {0, 1}
IsBits(s, n) == s \in Seq(Bit) /\ Len(s) = n

(* A power of two is a positive number.                                            *)
LEMMA Powers ==
  ASSUME NEW k \in 0 .. 15
  PROVE  2 ^ k \in Nat /\ 2 ^ k > 0
<1>1. k = 0 => 2 ^ k = 1
  OBVIOUS
<1>2. k = 1 => 2 ^ k = 2
  OBVIOUS
<1>3. k = 2 => 2 ^ k = 4
  OBVIOUS
<1>4. k = 3 => 2 ^ k = 8
  OBVIOUS
<1>5. k = 4 => 2 ^ k = 16
  OBVIOUS
<1>6. k = 5 => 2 ^ k = 32
  OBVIOUS
<1>7. k = 6 => 2 ^ k = 64
  OBVIOUS
<1>8. k = 7 => 2 ^ k = 128
  OBVIOUS
<1>9. k = 8 => 2 ^ k = 256
  OBVIOUS
<1>10. k = 9 => 2 ^ k = 512
  OBVIOUS
<1>11. k = 10 => 2 ^ k = 1024
  OBVIOUS
<1>12. k = 11 => 2 ^ k = 2048
  OBVIOUS
<1>13. k = 12 => 2 ^ k = 4096
  OBVIOUS
<1>14. k = 13 => 2 ^ k = 8192
  OBVIOUS
<1>15. k = 14 => 2 ^ k = 16384
  OBVIOUS
<1>16. k = 15 => 2 ^ k = 32768
  OBVIOUS
<1>. QED  BY <1>1, <1>2, <1>3, <1>4, <1>5, <1>6, <1>7, <1>8, <1>9, <1>10, <1>11, <1>12, <1>13, <1>14, <1>15, <1>16

(* BitsOf has as many bits as were asked for.                                      *)
LEMMA BitsOfType ==
  ASSUME NEW v \in Int, NEW n \in 0 .. 16
  PROVE  IsBits(BitsOf(v, n), n)
<1>1. \A k \in 1 .. n : (v \div 2 ^ (n - k)) % 2 \in Bit
  <2>. SUFFICES ASSUME NEW k \in 1 .. n PROVE (v \div 2 ^ (n - k)) % 2 \in Bit
    OBVIOUS
  <2>1. PICK j \in 0 .. 15 : j = n - k
    OBVIOUS
  <2>2. 2 ^ j \in Nat /\ 2 ^ j > 0
    BY Powers
  <2>3. (v \div 2 ^ j) \in Int
    BY <2>2
  <2>4. ((v \div 2 ^ j) % 2) \in Bit
    BY <2>3 DEF Bit
  <2>. QED  BY <2>1, <2>4
<1>2. BitsOf(v, n) \in [1 .. n -> Bit]
  BY <1>1 DEF BitsOf
<1>. QED  BY <1>2 DEF IsBits

LEMMA AppendedBits ==
  ASSUME NEW m \in Nat, NEW n \in Nat, NEW s, NEW t, IsBits(s, m), IsBits(t, n)
  PROVE  IsBits(s \o t, m + n)
BY DEF IsBits

LEMMA LowType ==
  ASSUME NEW v \in Int
  PROVE  IsBits(Low(v), 8) /\ IsBits(LowHigh(v), 16)
<1>1. U16(v) \in Int /\ (U16(v) % 256) \in Int /\ (U16(v) \div 256) \in Int
  BY DEF U16
<1>2. IsBits(BitsOf(U16(v) % 256, 8), 8) /\ IsBits(BitsOf(U16(v) \div 256, 8), 8)
  BY <1>1, BitsOfType
<1>3. IsBits(Low(v), 8)
  BY <1>2 DEF Low
<1>. QED  BY <1>2, <1>3, AppendedBits DEF LowHigh
-------------------------------------------------------------------------------
(* What StoreBytes writes.                                                         *)
b(i, k) == encoding[8 * (i - 1) + k]

(* A byte is made of the eight bits at its place.                                  *)
LEMMA StoredByte ==
  ASSUME NEW m \in Nat, IsBits(encoding, 8 * m), bitlen = 8 * m, NEW i \in 1 .. m
  PROVE  /\ \A k \in 1 .. 8 : b(i, k) \in Bit
         /\ Stored[i] = 128 * b(i, 1) + 64 * b(i, 2) + 32 * b(i, 3) + 16 * b(i, 4)
                         + 8 * b(i, 5) + 4 * b(i, 6) + 2 * b(i, 7) + b(i, 8)
<1>. DEFINE num_bytes == bitlen \div 8
            bit(k)    == IF k \in DOMAIN encoding THEN encoding[k] ELSE 0
            first(j)  == Len(encoding) - 8 * (num_bytes - j + 1)
            sum[k \in 0 .. 8] == IF k = 0 THEN 0 ELSE 2 * sum[k - 1] + bit(first(i) + k)
            c(k) == bit(first(i) + k)
<1>1. num_bytes = m
  OBVIOUS
<1>2. \A k \in 1 .. 8 : b(i, k) \in Bit /\ c(k) = b(i, k)
  <2>1. first(i) = 8 * (i - 1)
    BY <1>1 DEF IsBits
  <2>. SUFFICES ASSUME NEW k \in 1 .. 8 PROVE b(i, k) \in Bit /\ c(k) = b(i, k)
    OBVIOUS
  <2>2. 8 * (i - 1) + k \in 1 .. Len(encoding)
    BY DEF IsBits
  <2>3. encoding[8 * (i - 1) + k] \in Bit
    BY <2>2, ElementOfSeq DEF IsBits
  <2>. QED  BY <2>1, <2>2, <2>3 DEF b, IsBits
<1>3. sum = [k \in 0 .. 8 |-> IF k = 0 THEN 0 ELSE 2 * sum[k - 1] + c(k)]
  <2>. DEFINE s1 == c(1)
              s2 == 2 * s1 + c(2)
              s3 == 2 * s2 + c(3)
              s4 == 2 * s3 + c(4)
              s5 == 2 * s4 + c(5)
              s6 == 2 * s5 + c(6)
              s7 == 2 * s6 + c(7)
              s8 == 2 * s7 + c(8)
              x == [k \in 0 .. 8 |-> IF k = 0 THEN 0 ELSE <<s1, s2, s3, s4, s5, s6, s7, s8>>[k]]
  <2>1. x[0] = 0 /\ x[1] = 2 * x[0] + c(1) /\ x[2] = 2 * x[1] + c(2) /\ x[3] = 2 * x[2] + c(3)
        /\ x[4] = 2 * x[3] + c(4) /\ x[5] = 2 * x[4] + c(5) /\ x[6] = 2 * x[5] + c(6)
        /\ x[7] = 2 * x[6] + c(7) /\ x[8] = 2 * x[7] + c(8)
    <3>. HIDE DEF c
    <3>1. c(1) \in Int
      BY <1>2 DEF Bit
    <3>. QED  BY SMTT(30), <3>1
  <2>2. \A k \in 0 .. 8 : x[k] = IF k = 0 THEN 0 ELSE 2 * x[k - 1] + c(k)
    <3>. HIDE DEF x, c
    <3>. SUFFICES ASSUME NEW k \in 1 .. 8 PROVE x[k] = 2 * x[k - 1] + c(k)
      BY <2>1
    <3>1. k = 1 \/ k = 2 \/ k = 3 \/ k = 4 \/ k = 5 \/ k = 6 \/ k = 7 \/ k = 8
      OBVIOUS
    <3>. QED  BY <3>1, <2>1
  <2>3. x = [k \in 0 .. 8 |-> IF k = 0 THEN 0 ELSE 2 * x[k - 1] + c(k)]
    <3>1. x = [k \in 0 .. 8 |-> x[k]]
      OBVIOUS
    <3>. HIDE DEF x
    <3>. QED  BY <3>1, <2>2
  <2>. HIDE DEF x, bit, first
  <2>. QED  BY <2>3
<1>4. Stored[i] = sum[8]
  <2>1. i \in 1 .. num_bytes
    BY <1>1
  <2>. QED  BY <2>1 DEF Stored
<1>. HIDE DEF sum, c
<1>5. sum[0] = 0 /\ sum[1] = 2 * sum[0] + c(1) /\ sum[2] = 2 * sum[1] + c(2)
      /\ sum[3] = 2 * sum[2] + c(3) /\ sum[4] = 2 * sum[3] + c(4) /\ sum[5] = 2 * sum[4] + c(5)
      /\ sum[6] = 2 * sum[5] + c(6) /\ sum[7] = 2 * sum[6] + c(7) /\ sum[8] = 2 * sum[7] + c(8)
  BY <1>3
<1>6. sum[8] = 128 * b(i, 1) + 64 * b(i, 2) + 32 * b(i, 3) + 16 * b(i, 4)
                         + 8 * b(i, 5) + 4 * b(i, 6) + 2 * b(i, 7) + b(i, 8)
  BY <1>5, <1>2 DEF Bit
<1>. QED  BY <1>2, <1>4, <1>6

(* The numeral of eight bits has these bits.                                        *)
LEMMA BitsBack ==
  ASSUME NEW s \in [1 .. 8 -> Bit], NEW v \in Int,
         v = 128 * s[1] + 64 * s[2] + 32 * s[3] + 16 * s[4] + 8 * s[5] + 4 * s[6] + 2 * s[7] + s[8]
  PROVE  \A k \in 1 .. 8 : BitsOf(v, 8)[k] = s[k]
<1>1. 2 ^ (8 - 1) = 128 /\ 2 ^ (8 - 2) = 64 /\ 2 ^ (8 - 3) = 32 /\ 2 ^ (8 - 4) = 16
      /\ 2 ^ (8 - 5) = 8 /\ 2 ^ (8 - 6) = 4 /\ 2 ^ (8 - 7) = 2 /\ 2 ^ (8 - 8) = 1
  OBVIOUS
<1>2. /\ s[1] \in Bit /\ s[2] \in Bit /\ s[3] \in Bit /\ s[4] \in Bit
      /\ s[5] \in Bit /\ s[6] \in Bit /\ s[7] \in Bit /\ s[8] \in Bit
  OBVIOUS
<1>3. BitsOf(v, 8)[1] = s[1]
  <2>1. BitsOf(v, 8)[1] = ((v \div 2 ^ (8 - 1)) % 2)
    BY DEF BitsOf
  <2>2. v \div 128 = s[1]
    BY <1>2 DEF Bit
  <2>3. ((v \div 128) % 2) = s[1]
    BY <1>2, <2>2 DEF Bit
  <2>. QED  BY <1>1, <2>1, <2>3
<1>4. BitsOf(v, 8)[2] = s[2]
  <2>1. BitsOf(v, 8)[2] = ((v \div 2 ^ (8 - 2)) % 2)
    BY DEF BitsOf
  <2>2. v \div 64 = 2 * s[1] + s[2]
    BY <1>2 DEF Bit
  <2>3. ((v \div 64) % 2) = s[2]
    BY <1>2, <2>2 DEF Bit
  <2>. QED  BY <1>1, <2>1, <2>3
<1>5. BitsOf(v, 8)[3] = s[3]
  <2>1. BitsOf(v, 8)[3] = ((v \div 2 ^ (8 - 3)) % 2)
    BY DEF BitsOf
  <2>2. v \div 32 = 4 * s[1] + 2 * s[2] + s[3]
    BY <1>2 DEF Bit
  <2>3. ((v \div 32) % 2) = s[3]
    BY <1>2, <2>2 DEF Bit
  <2>. QED  BY <1>1, <2>1, <2>3
<1>6. BitsOf(v, 8)[4] = s[4]
  <2>1. BitsOf(v, 8)[4] = ((v \div 2 ^ (8 - 4)) % 2)
    BY DEF BitsOf
  <2>2. v \div 16 = 8 * s[1] + 4 * s[2] + 2 * s[3] + s[4]
    BY <1>2 DEF Bit
  <2>3. ((v \div 16) % 2) = s[4]
    BY <1>2, <2>2 DEF Bit
  <2>. QED  BY <1>1, <2>1, <2>3
<1>7. BitsOf(v, 8)[5] = s[5]
  <2>1. BitsOf(v, 8)[5] = ((v \div 2 ^ (8 - 5)) % 2)
    BY DEF BitsOf
  <2>2. v \div 8 = 16 * s[1] + 8 * s[2] + 4 * s[3] + 2 * s[4] + s[5]
    BY <1>2 DEF Bit
  <2>3. ((v \div 8) % 2) = s[5]
    BY <1>2, <2>2 DEF Bit
  <2>. QED  BY <1>1, <2>1, <2>3
<1>8. BitsOf(v, 8)[6] = s[6]
  <2>1. BitsOf(v, 8)[6] = ((v \div 2 ^ (8 - 6)) % 2)
    BY DEF BitsOf
  <2>2. v \div 4 = 32 * s[1] + 16 * s[2] + 8 * s[3] + 4 * s[4] + 2 * s[5] + s[6]
    BY <1>2 DEF Bit
  <2>3. ((v \div 4) % 2) = s[6]
    BY <1>2, <2>2 DEF Bit
  <2>. QED  BY <1>1, <2>1, <2>3
<1>9. BitsOf(v, 8)[7] = s[7]
  <2>1. BitsOf(v, 8)[7] = ((v \div 2 ^ (8 - 7)) % 2)
    BY DEF BitsOf
  <2>2. v \div 2 = 64 * s[1] + 32 * s[2] + 16 * s[3] + 8 * s[4] + 4 * s[5] + 2 * s[6] + s[7]
    BY <1>2 DEF Bit
  <2>3. ((v \div 2) % 2) = s[7]
    BY <1>2, <2>2 DEF Bit
  <2>. QED  BY <1>1, <2>1, <2>3
<1>10. BitsOf(v, 8)[8] = s[8]
  <2>1. BitsOf(v, 8)[8] = ((v \div 2 ^ (8 - 8)) % 2)
    BY DEF BitsOf
  <2>2. v \div 1 = 128 * s[1] + 64 * s[2] + 32 * s[3] + 16 * s[4] + 8 * s[5] + 4 * s[6] + 2 * s[7] + s[8]
    BY <1>2 DEF Bit
  <2>3. ((v \div 1) % 2) = s[8]
    BY <1>2, <2>2 DEF Bit
  <2>. QED  BY <1>1, <2>1, <2>3
<1>11. SUFFICES ASSUME NEW k \in 1 .. 8 PROVE BitsOf(v, 8)[k] = s[k]
  OBVIOUS
<1>12. k = 1 \/ k = 2 \/ k = 3 \/ k = 4 \/ k = 5 \/ k = 6 \/ k = 7 \/ k = 8
  OBVIOUS
<1>. QED  BY <1>3, <1>4, <1>5, <1>6, <1>7, <1>8, <1>9, <1>10, <1>12

LEMMA StoredType ==
  ASSUME NEW m \in Nat, IsBits(encoding, 8 * m), bitlen = 8 * m
  PROVE  Stored \in Seq(0 .. 255) /\ Len(Stored) = m
<1>1. \A i \in 1 .. m : Stored[i] \in 0 .. 255
  <2>. SUFFICES ASSUME NEW i \in 1 .. m PROVE Stored[i] \in 0 .. 255
    OBVIOUS
  <2>1. /\ b(i, 1) \in Bit /\ b(i, 2) \in Bit /\ b(i, 3) \in Bit /\ b(i, 4) \in Bit
        /\ b(i, 5) \in Bit /\ b(i, 6) \in Bit /\ b(i, 7) \in Bit /\ b(i, 8) \in Bit
    BY StoredByte
  <2>2. Stored[i] = 128 * b(i, 1) + 64 * b(i, 2) + 32 * b(i, 3) + 16 * b(i, 4)
                         + 8 * b(i, 5) + 4 * b(i, 6) + 2 * b(i, 7) + b(i, 8)
    BY StoredByte
  <2>. HIDE DEF b
  <2>. QED  BY <2>1, <2>2 DEF Bit
<1>2. DOMAIN Stored = 1 .. m /\ Stored = [i \in 1 .. m |-> Stored[i]]
  <2>1. bitlen \div 8 = m
    OBVIOUS
  <2>. QED  BY <2>1 DEF Stored
<1>3. Stored \in [1 .. m -> 0 .. 255]
  BY <1>1, <1>2
<1>. QED  BY <1>3

(* A byte without bits is zero.                                                    *)
LEMMA EmptyByte ==
  ASSUME NEW m \in Nat, IsBits(encoding, 8 * m), bitlen = 8 * m, NEW i \in 1 .. m,
         \A k \in 8 * (i - 1) + 1 .. 8 * i : encoding[k] = 0
  PROVE  Stored[i] = 0
<1>1. \A k \in 1 .. 8 : b(i, k) = 0
  BY DEF b
<1>2. /\ b(i, 1) = 0 /\ b(i, 2) = 0 /\ b(i, 3) = 0 /\ b(i, 4) = 0
      /\ b(i, 5) = 0 /\ b(i, 6) = 0 /\ b(i, 7) = 0 /\ b(i, 8) = 0
  BY <1>1
<1>3. Stored[i] = 128 * b(i, 1) + 64 * b(i, 2) + 32 * b(i, 3) + 16 * b(i, 4)
                         + 8 * b(i, 5) + 4 * b(i, 6) + 2 * b(i, 7) + b(i, 8)
  BY StoredByte
<1>. QED  BY <1>2, <1>3
-------------------------------------------------------------------------------
(* The rows. Sums(w, n, x): x is the sums of w up to each place up to n.            *)
Sums(w, n, x) == x = [k \in 0 .. n |-> IF k = 0 THEN 0 ELSE x[k - 1] + w[k]]

LEMMA SumsExist ==
  ASSUME NEW w, NEW n \in Nat
  PROVE  \E x : Sums(w, n, x)
<1>. DEFINE Good == {k \in Nat : \E x : Sums(w, k, x)}
<1>1. 0 \in Good
  <2>. DEFINE z == [k \in 0 .. 0 |-> 0]
  <2>1. z = [k \in 0 .. 0 |-> IF k = 0 THEN 0 ELSE z[k - 1] + w[k]]
    OBVIOUS
  <2>. HIDE DEF z
  <2>. QED  BY <2>1 DEF Sums
<1>2. ASSUME NEW k \in Good PROVE k + 1 \in Good
  <2>1. PICK x : Sums(w, k, x)
    OBVIOUS
  <2>. DEFINE y == [m \in 0 .. k + 1 |-> IF m <= k THEN x[m] ELSE x[k] + w[k + 1]]
  <2>2. \A m \in 0 .. k + 1 : y[m] = IF m = 0 THEN 0 ELSE y[m - 1] + w[m]
    <3>. SUFFICES ASSUME NEW m \in 0 .. k + 1
                  PROVE  y[m] = IF m = 0 THEN 0 ELSE y[m - 1] + w[m]
      OBVIOUS
    <3>1. CASE m = k + 1
      BY <3>1
    <3>2. CASE m # k + 1
      <4>1. m \in 0 .. k /\ (m # 0 => m - 1 \in 0 .. k)
        BY <3>2
      <4>2. x[m] = IF m = 0 THEN 0 ELSE x[m - 1] + w[m]
        BY <2>1, <4>1 DEF Sums
      <4>3. y[m] = x[m] /\ (m # 0 => y[m - 1] = x[m - 1])
        BY <4>1
      <4>. HIDE DEF y
      <4>. QED  BY <4>2, <4>3
    <3>. QED  BY <3>1, <3>2
  <2>3. y = [m \in 0 .. k + 1 |-> y[m]]
    OBVIOUS
  <2>. HIDE DEF y
  <2>4. Sums(w, k + 1, y)
    BY <2>2, <2>3 DEF Sums
  <2>. QED  BY <2>4
<1>3. Good \in SUBSET Nat
  OBVIOUS
<1>. HIDE DEF Good
<1>4. Good = Nat
  BY <1>1, <1>2, <1>3, SetInduction
<1>. QED  BY <1>4 DEF Good

(* The two sums of a row.                                                          *)
LEMMA RowSums ==
  ASSUME NEW fs \in Seq(Fields)
  PROVE  /\ FewestBits(fs)[0] = 0 /\ MostBits(fs)[0] = 0
         /\ \A k \in 1 .. Len(fs) :
               /\ FewestBits(fs)[k] = FewestBits(fs)[k - 1] + fs[k].len
               /\ MostBits(fs)[k] = MostBits(fs)[k - 1]
                                       + (IF fs[k].id \in Open THEN 16 ELSE fs[k].len)
<1>1. FewestBits(fs) = [n \in 0 .. Len(fs) |-> IF n = 0 THEN 0 ELSE
                    FewestBits(fs)[n - 1] + fs[n].len]
  <2>. DEFINE w == [k \in 1 .. Len(fs) |-> fs[k].len]
              sum[n \in 0 .. Len(fs)] == IF n = 0 THEN 0 ELSE sum[n - 1] + fs[n].len
  <2>1. \E x : Sums(w, Len(fs), x)
    <3>. HIDE DEF w, sum
    <3>. QED  BY SumsExist
  <2>2. PICK x : Sums(w, Len(fs), x)
    BY <2>1
  <2>3. \A k \in 0 .. Len(fs) : x[k] = IF k = 0 THEN 0 ELSE x[k - 1] + fs[k].len
    <3>. HIDE DEF sum
    <3>. SUFFICES ASSUME NEW k \in 0 .. Len(fs)
                  PROVE  x[k] = IF k = 0 THEN 0 ELSE x[k - 1] + fs[k].len
      OBVIOUS
    <3>1. x[k] = IF k = 0 THEN 0 ELSE x[k - 1] + w[k]
      BY <2>2 DEF Sums
    <3>2. k # 0 => w[k] = fs[k].len
      OBVIOUS
    <3>. QED  BY <3>1, <3>2
  <2>4. x = [k \in 0 .. Len(fs) |-> x[k]]
    <3>. HIDE DEF sum, w
    <3>. QED  BY <2>2 DEF Sums
  <2>5. x = [k \in 0 .. Len(fs) |-> IF k = 0 THEN 0 ELSE x[k - 1] + fs[k].len]
    <3>. HIDE DEF sum, w
    <3>. QED  BY <2>3, <2>4
  <2>6. sum = [n \in 0 .. Len(fs) |-> IF n = 0 THEN 0 ELSE sum[n - 1] + fs[n].len]
    BY <2>5
  <2>. QED  BY <2>6 DEF FewestBits
<1>2. MostBits(fs) = [n \in 0 .. Len(fs) |-> IF n = 0 THEN 0 ELSE
                    MostBits(fs)[n - 1] + (IF fs[n].id \in Open THEN 16 ELSE fs[n].len)]
  <2>. DEFINE w == [k \in 1 .. Len(fs) |-> (IF fs[k].id \in Open THEN 16 ELSE fs[k].len)]
              sum[n \in 0 .. Len(fs)] == IF n = 0 THEN 0 ELSE sum[n - 1] + (IF fs[n].id \in Open THEN 16 ELSE fs[n].len)
  <2>1. \E x : Sums(w, Len(fs), x)
    <3>. HIDE DEF w, sum
    <3>. QED  BY SumsExist
  <2>2. PICK x : Sums(w, Len(fs), x)
    BY <2>1
  <2>3. \A k \in 0 .. Len(fs) : x[k] = IF k = 0 THEN 0 ELSE x[k - 1] + (IF fs[k].id \in Open THEN 16 ELSE fs[k].len)
    <3>. HIDE DEF sum
    <3>. SUFFICES ASSUME NEW k \in 0 .. Len(fs)
                  PROVE  x[k] = IF k = 0 THEN 0 ELSE x[k - 1] + (IF fs[k].id \in Open THEN 16 ELSE fs[k].len)
      OBVIOUS
    <3>1. x[k] = IF k = 0 THEN 0 ELSE x[k - 1] + w[k]
      BY <2>2 DEF Sums
    <3>2. k # 0 => w[k] = (IF fs[k].id \in Open THEN 16 ELSE fs[k].len)
      OBVIOUS
    <3>. QED  BY <3>1, <3>2
  <2>4. x = [k \in 0 .. Len(fs) |-> x[k]]
    <3>. HIDE DEF sum, w
    <3>. QED  BY <2>2 DEF Sums
  <2>5. x = [k \in 0 .. Len(fs) |-> IF k = 0 THEN 0 ELSE x[k - 1] + (IF fs[k].id \in Open THEN 16 ELSE fs[k].len)]
    <3>. HIDE DEF sum, w
    <3>. QED  BY <2>3, <2>4
  <2>6. sum = [n \in 0 .. Len(fs) |-> IF n = 0 THEN 0 ELSE sum[n - 1] + (IF fs[n].id \in Open THEN 16 ELSE fs[n].len)]
    BY <2>5
  <2>. QED  BY <2>6 DEF MostBits
<1>. QED  BY <1>1, <1>2

(* The lengths of the fields, by their name.                                       *)
LEMMA FieldLengths ==
  ASSUME NEW f \in Fields
  PROVE  /\ f.len \in Nat
         /\ f.id = "BITS" => f.value \in Nat /\ f.len \in 1 .. 16
         /\ f.id \in {"MOD", "SR"} => f.len = 2
         /\ f.id \in {"REG", "RM"} => f.len = 3
         /\ f.id \in {"W", "S"} => f.len = 1
         /\ f.id \in {"IMM8", "DATA8", "LBL8"} => f.len = 8
         /\ f.id = "IMM16" => f.len = 16
         /\ f.id \in Open => f.len = 0
<1>1. CASE f \in [id : {"BITS"}, value : Nat, len : 1 .. 16]
  <2>1. f.id = "BITS" /\ f.value \in Nat /\ f.len \in 1 .. 16
    BY <1>1
  <2>. QED  BY <2>1 DEF Open
<1>2. CASE f \in {MOD, SR}
  BY <1>2 DEF MOD, SR, Field, Open
<1>3. CASE f \in {REG, RM}
  BY <1>3 DEF REG, RM, Field, Open
<1>4. CASE f \in {W, S}
  BY <1>4 DEF W, S, Field, Open
<1>5. CASE f \in {IMM8, DATA8, LBL8}
  BY <1>5 DEF IMM8, DATA8, LBL8, Field, Open
<1>6. CASE f \in {IMM16, DISP, ADDR}
  BY <1>6 DEF IMM16, DISP, ADDR, Field, Open
<1>7. CASE f \in {LBL, IP, CSEG}
  BY <1>7 DEF LBL, IP, CSEG, Field, Open
<1>. QED  BY <1>1, <1>2, <1>3, <1>4, <1>5, <1>6, <1>7 DEF Fields

(* The sums are numbers and never fall.                                            *)
LEMMA SumsRise ==
  ASSUME NEW fs \in Seq(Fields), NEW n \in 0 .. Len(fs)
  PROVE  FewestBits(fs)[n] \in Nat /\ MostBits(fs)[n] \in Nat /\ MostBits(fs)[n] <= MostBits(fs)[Len(fs)]
<1>. DEFINE few  == FewestBits(fs)
            most == MostBits(fs)
            Good == {k \in Nat : k <= Len(fs) => few[k] \in Nat /\ most[k] \in Nat}
            Below == {k \in Nat : k <= Len(fs) => most[Len(fs) - k] <= most[Len(fs)]}
<1>1. Len(fs) \in Nat
  OBVIOUS
<1>2. \A k \in 1 .. Len(fs) :
         /\ few[k] = few[k - 1] + fs[k].len
         /\ most[k] = most[k - 1] + (IF fs[k].id \in Open THEN 16 ELSE fs[k].len)
         /\ fs[k].len \in Nat
  BY RowSums, FieldLengths, ElementOfSeq
<1>3. few[0] = 0 /\ most[0] = 0
  BY RowSums
<1>. HIDE DEF few, most
<1>4. Good = Nat
  <2>1. 0 \in Good
    BY <1>3
  <2>2. ASSUME NEW k \in Good PROVE k + 1 \in Good
    <3>. SUFFICES ASSUME k + 1 <= Len(fs) PROVE few[k + 1] \in Nat /\ most[k + 1] \in Nat
      OBVIOUS
    <3>1. few[k] \in Nat /\ most[k] \in Nat /\ k + 1 \in 1 .. Len(fs) /\ (k + 1) - 1 = k
      BY <1>1
    <3>2. /\ few[k + 1] = few[k] + fs[k + 1].len
          /\ most[k + 1] = most[k] + (IF fs[k + 1].id \in Open THEN 16 ELSE fs[k + 1].len)
          /\ fs[k + 1].len \in Nat
      BY <1>2, <3>1
    <3>. HIDE DEF Good
    <3>. QED  BY SMTT(30), <3>1, <3>2
  <2>. HIDE DEF Good
  <2>3. Good \in SUBSET Nat
    BY DEF Good
  <2>. QED  BY <2>1, <2>2, <2>3, SetInduction
<1>5. \A k \in 0 .. Len(fs) : few[k] \in Nat /\ most[k] \in Nat
  BY <1>1, <1>4
<1>6. Below = Nat
  <2>1. 0 \in Below
    BY <1>1, <1>5
  <2>2. ASSUME NEW k \in Below PROVE k + 1 \in Below
    <3>. SUFFICES ASSUME k + 1 <= Len(fs) PROVE most[Len(fs) - (k + 1)] <= most[Len(fs)]
      OBVIOUS
    <3>. DEFINE j == Len(fs) - k
    <3>1. j \in 1 .. Len(fs) /\ j - 1 = Len(fs) - (k + 1) /\ j - 1 \in 0 .. Len(fs)
      BY <1>1
    <3>2. most[j] = most[j - 1] + (IF fs[j].id \in Open THEN 16 ELSE fs[j].len) /\ fs[j].len \in Nat
      BY <1>2, <3>1
    <3>3. most[j] \in Nat /\ most[j - 1] \in Nat /\ most[Len(fs)] \in Nat
      BY <1>1, <1>5, <3>1
    <3>4. most[j] <= most[Len(fs)]
      BY <1>1
    <3>. HIDE DEF j
    <3>5. most[j - 1] <= most[j]
      BY <3>2, <3>3
    <3>6. most[j - 1] <= most[Len(fs)]
      BY <3>3, <3>4, <3>5
    <3>. QED  BY <3>1, <3>6
  <2>. HIDE DEF Below
  <2>3. Below \in SUBSET Nat
    BY DEF Below
  <2>. QED  BY <2>1, <2>2, <2>3, SetInduction
<1>7. most[n] <= most[Len(fs)]
  <2>1. Len(fs) - n \in Nat /\ Len(fs) - n <= Len(fs) /\ Len(fs) - (Len(fs) - n) = n
    BY <1>1
  <2>2. Len(fs) - n \in Below
    <3>. HIDE DEF Below
    <3>. QED  BY <1>6, <2>1
  <2>. QED  BY <2>1, <2>2
<1>. QED  BY <1>5, <1>7 DEF few, most
-------------------------------------------------------------------------------
(* The state of codegen after the first n fields of a row: as many bits as were     *)
(* counted, between the two sums, and whole bytes more than the least of them.       *)
Progress(row, n) ==
    /\ n \in 0 .. Len(row.fields)
    /\ fields = SubSeq(row.fields, n + 1, Len(row.fields))
    /\ IsBits(encoding, bitlen) /\ bitlen \in Nat
    /\ FewestBits(row.fields)[n] <= bitlen /\ bitlen <= MostBits(row.fields)[n]
    /\ ((bitlen - FewestBits(row.fields)[n]) % 8) = 0

(* An entry for the patch loop is made by the last field, and its bytes are empty.   *)
Hole(row, n) ==
    \E l \in {1, 2} :
        /\ n = Len(row.fields)
        /\ patches = <<[inst_pointer |-> call.ip + 1, labelname |-> dst.label, bytelen |-> l]>>
        /\ bitlen = 8 + 8 * l
        /\ \A k \in 9 .. bitlen : encoding[k] = 0

AtField(row, n) == Progress(row, n) /\ (patches = <<>> \/ Hole(row, n))

HitRows == {Rows[i] : i \in Hits}

(* What codegen relies on in a call, and where it starts.                           *)
IsCall(c) ==
    /\ c.inst.mnemonic \in DOMAIN Table \cup {"NULL"}
    /\ IsOperand(c.inst.dst) /\ IsOperand(c.inst.src)
    /\ c.ip \in Nat /\ c.pos \in Int

Begun ==
    /\ IsCall(call)
    /\ pc = "searching"
    /\ fields = <<>> /\ encoding = <<>> /\ bitlen = 0 /\ patches = <<>> /\ bytes = <<>>

Inv ==
    /\ IsCall(call)
    /\ pc \in {"searching", "emitting", "storing", "done", "dropped", "aborted"}
    /\ pc \in {"searching", "dropped"} => encoding = <<>> /\ bitlen = 0 /\ patches = <<>>
    /\ pc \in {"emitting", "storing", "done", "aborted"} =>
           \E row \in HitRows : \E n \in 0 .. Len(row.fields) : AtField(row, n)
    /\ pc \in {"storing", "done"} => fields = <<>>
    /\ bytes = IF pc = "done" THEN Stored ELSE <<>>

(* What is known of a call, and of the row that was found for it.                   *)
LEMMA CallFacts ==
  ASSUME IsCall(call)
  PROVE  /\ IsOperand(dst) /\ IsOperand(src)
         /\ call.ip \in Nat /\ call.pos \in Int
         /\ mnemonic \in DOMAIN Table \cup {"NULL"}
BY DEF IsCall, dst, src, mnemonic

LEMMA HitIsSound ==
  ASSUME IsCall(call), NEW row \in HitRows
  PROVE  RowIsSound(row) /\ Fits(dst, row.dst) /\ Fits(src, row.src)
<1>. PICK i \in Hits : row = Rows[i]
  BY DEF HitRows
<1>1. i \in DOMAIN Rows /\ Fits(dst, Rows[i].dst) /\ Fits(src, Rows[i].src)
  BY DEF Hits
<1>2. mnemonic # "NULL"
  BY <1>1 DEF Rows
<1>3. mnemonic \in DOMAIN Table /\ Rows = Table[mnemonic]
  BY <1>2, CallFacts DEF Rows
<1>. QED  BY <1>1, <1>3, TableAssumption

LEMMA BytesMore ==
  ASSUME NEW x \in Nat, (x % 8) = 0, NEW l \in {0, 8, 16}
  PROVE  ((x + l) % 8) = 0
OBVIOUS

(* A field of n bits, or of whole bytes that the row leaves open, is one step on.    *)
LEMMA FieldEmitted ==
  ASSUME NEW row, RowIsSound(row), NEW n \in 0 .. Len(row.fields), Progress(row, n),
         n # Len(row.fields), NEW new, NEW len \in Nat, IsBits(new, len), Emit(new, len),
         \/ len = row.fields[n + 1].len
         \/ row.fields[n + 1].id \in Open /\ len \in {0, 8, 16}
  PROVE  Progress(row, n + 1)'
<1>. DEFINE fs   == row.fields
            few  == FewestBits(fs)
            most == MostBits(fs)
<1>1. fs \in Seq(Fields) /\ Len(fs) \in Nat /\ n + 1 \in 1 .. Len(fs) /\ n + 1 \in 0 .. Len(fs)
      /\ (n + 1) - 1 = n
  BY DEF RowIsSound
<1>2. fs[n + 1] \in Fields
  BY <1>1, ElementOfSeq
<1>3. fs[n + 1].len \in Nat /\ (fs[n + 1].id \in Open => fs[n + 1].len = 0)
  BY <1>2, FieldLengths
<1>4. few[n + 1] = few[n] + fs[n + 1].len
      /\ most[n + 1] = most[n] + (IF fs[n + 1].id \in Open THEN 16 ELSE fs[n + 1].len)
  BY <1>1, RowSums
<1>5. few[n] \in Nat /\ most[n] \in Nat
  BY <1>1, SumsRise
<1>6. IsBits(encoding', bitlen') /\ bitlen' = bitlen + len /\ bitlen' \in Nat
  BY AppendedBits DEF Emit, Progress
<1>7. fields' = SubSeq(fs, (n + 1) + 1, Len(fs))
  <2>1. fields = SubSeq(fs, n + 1, Len(fs)) /\ fields' = Tail(fields)
    BY DEF Emit, Progress
  <2>. QED  BY <2>1, <1>1
<1>8. bitlen \in Nat /\ few[n] <= bitlen /\ bitlen <= most[n]
  BY DEF Progress
<1>10. ((bitlen - few[n]) % 8) = 0
  BY DEF Progress
<1>. HIDE DEF fs, few, most
<1>9. /\ few[n + 1] <= bitlen' /\ bitlen' <= most[n + 1]
      /\ ((bitlen' - few[n + 1]) % 8) = 0
  <2>1. CASE fs[n + 1].id \in Open
    <3>1. few[n + 1] = few[n] /\ most[n + 1] = most[n] + 16 /\ len \in {0, 8, 16}
      BY <1>3, <1>4, <1>5, <2>1 DEF fs
    <3>2. bitlen' - few[n + 1] = (bitlen - few[n]) + len /\ bitlen - few[n] \in Nat
      BY SMTT(30), <3>1, <1>5, <1>6, <1>8
    <3>3. ((bitlen' - few[n + 1]) % 8) = 0
      BY <3>1, <3>2, <1>10, BytesMore
    <3>4. few[n + 1] <= bitlen' /\ bitlen' <= most[n + 1]
      BY <3>1, <1>5, <1>6, <1>8
    <3>. QED  BY <3>3, <3>4
  <2>2. CASE fs[n + 1].id \notin Open
    <3>1. few[n + 1] = few[n] + len /\ most[n + 1] = most[n] + len
      BY <1>3, <1>4, <1>5, <2>2 DEF fs
    <3>2. bitlen' - few[n + 1] = bitlen - few[n]
      BY <3>1, <1>5, <1>6, <1>8
    <3>3. few[n + 1] <= bitlen' /\ bitlen' <= most[n + 1]
      BY <3>1, <1>5, <1>6, <1>8
    <3>. QED  BY <3>2, <3>3, <1>10
  <2>. QED  BY <2>1, <2>2
<1>. QED  BY <1>1, <1>6, <1>7, <1>9 DEF Progress, fs, few, most

(* While a field is left, it is the next of the row and no entry has been made.      *)
LEMMA NextField ==
  ASSUME NEW row, RowIsSound(row), NEW n \in 0 .. Len(row.fields), AtField(row, n), fields # <<>>
  PROVE  /\ n # Len(row.fields) /\ n + 1 \in 1 .. Len(row.fields)
         /\ Head(fields) = row.fields[n + 1] /\ row.fields[n + 1] \in Fields
         /\ patches = <<>>
<1>1. row.fields \in Seq(Fields) /\ Len(row.fields) \in Nat
  BY DEF RowIsSound
<1>2. fields = SubSeq(row.fields, n + 1, Len(row.fields))
  BY DEF AtField, Progress
<1>3. n # Len(row.fields)
  BY <1>1, <1>2
<1>4. n + 1 \in 1 .. Len(row.fields)
  BY <1>1, <1>3
<1>5. Head(fields) = row.fields[n + 1]
  BY <1>1, <1>2, <1>4
<1>6. row.fields[n + 1] \in Fields
  BY <1>1, <1>4, ElementOfSeq
<1>. QED  BY <1>3, <1>4, <1>5, <1>6 DEF AtField, Hole

(* The rows depend on the call alone.                                              *)
LEMMA RowsStay ==
  ASSUME call' = call
  PROVE  HitRows' = HitRows /\ dst' = dst /\ src' = src /\ mnemonic' = mnemonic
BY DEF HitRows, Hits, Rows, dst, src, mnemonic

(* What a step from one field to the next must show.                               *)
LEMMA PlainField ==
  ASSUME Inv, pc = "emitting", NEW row \in HitRows, NEW n \in 0 .. Len(row.fields),
         AtField(row, n), fields # <<>>, NEW new, NEW len \in Nat, IsBits(new, len), Emit(new, len),
         \/ len = Head(fields).len
         \/ Head(fields).id \in Open /\ len \in {0, 8, 16},
         patches' = patches
  PROVE  Inv'
<1>1. RowIsSound(row) /\ n \in 0 .. Len(row.fields) /\ AtField(row, n)
  BY HitIsSound DEF Inv
<1>2. /\ n # Len(row.fields) /\ Head(fields) = row.fields[n + 1] /\ patches = <<>>
      /\ n + 1 \in 0 .. Len(row.fields)
  BY <1>1, NextField
<1>3. call' = call /\ pc' = pc /\ bytes' = bytes
  BY DEF Emit
<1>4. Progress(row, n + 1)'
  BY <1>1, <1>2, FieldEmitted DEF AtField
<1>5. AtField(row, n + 1)'
  BY <1>2, <1>4 DEF AtField
<1>6. \E r \in HitRows' : \E m \in 0 .. Len(r.fields) : AtField(r, m)'
  BY <1>2, <1>3, <1>5, RowsStay
<1>. QED  BY <1>3, <1>6 DEF Inv
-------------------------------------------------------------------------------
(* Registers have a place in their row of the tables.                              *)
LEMMA RegisterPlaces ==
  ASSUME NEW r \in General
  PROVE  reg_field(r) \in Int
<1>1. CASE r \in Members(Registers8)
  <2>1. \E i \in DOMAIN Registers8 : Registers8[i] = r
    BY <1>1 DEF Members
  <2>2. DOMAIN Registers8 \subseteq Int
    BY DEF Registers8
  <2>. HIDE DEF Registers8
  <2>. QED  BY <1>1, <2>1, <2>2 DEF reg_field, PlaceIn
<1>2. CASE r \notin Members(Registers8)
  <2>1. \E i \in DOMAIN Registers16 : Registers16[i] = r
    BY <1>2 DEF Members, General
  <2>2. DOMAIN Registers16 \subseteq Int
    BY DEF Registers16
  <2>. QED  BY <1>2, <2>1, <2>2 DEF reg_field, PlaceIn
<1>. QED  BY <1>1, <1>2

LEMMA SegmentPlaces ==
  ASSUME NEW r \in Members(Segments)
  PROVE  encode_sr(r) \in Int
<1>1. \E i \in DOMAIN Segments : Segments[i] = r
  BY DEF Members
<1>2. DOMAIN Segments \subseteq Int
  BY DEF Segments
<1>. QED  BY <1>1, <1>2 DEF encode_sr, PlaceIn

LEMMA S16Type == \A n \in S16Values : n \in Int
BY DEF S16Values

LEMMA OperandRegisters ==
  ASSUME NEW o, IsOperand(o)
  PROVE  /\ IsOf(o, General8or16) => o.reg \in General
         /\ IsOf(o, {"SEGREG"}) => o.seg \in Members(Segments)
BY DEF IsOperand, IsOf, General8or16

(* A row with one of these fields was found because an operand has a register.       *)
LEMMA RegisterThere ==
  ASSUME IsCall(call), NEW row \in HitRows, NEW k \in 1 .. Len(row.fields),
         row.fields[k].id = "REG"
  PROVE  SrcElseDst(General8or16).reg \in General
<1>1. {row.dst, row.src} \cap General8or16 # {}
  BY HitIsSound DEF RowIsSound
<1>2. Fits(dst, row.dst) /\ Fits(src, row.src)
  BY HitIsSound
<1>3. IsOf(dst, General8or16) \/ IsOf(src, General8or16)
  BY <1>1, <1>2 DEF Fits, IsOf, General8or16
<1>4. IsOf(SrcElseDst(General8or16), General8or16)
  BY <1>3 DEF SrcElseDst
<1>5. IsOperand(SrcElseDst(General8or16))
  BY CallFacts DEF SrcElseDst
<1>. QED  BY <1>4, <1>5, OperandRegisters

LEMMA SegmentThere ==
  ASSUME IsCall(call), NEW row \in HitRows, NEW k \in 1 .. Len(row.fields),
         row.fields[k].id = "SR"
  PROVE  SrcElseDst({"SEGREG"}).seg \in Members(Segments)
<1>1. "SEGREG" \in {row.dst, row.src}
  BY HitIsSound DEF RowIsSound
<1>2. Fits(dst, row.dst) /\ Fits(src, row.src)
  BY HitIsSound
<1>3. IsOf(dst, {"SEGREG"}) \/ IsOf(src, {"SEGREG"})
  BY <1>1, <1>2 DEF Fits, IsOf
<1>4. IsOf(SrcElseDst({"SEGREG"}), {"SEGREG"})
  BY <1>3 DEF SrcElseDst
<1>5. IsOperand(SrcElseDst({"SEGREG"}))
  BY CallFacts DEF SrcElseDst
<1>. QED  BY <1>4, <1>5, OperandRegisters

(* The numbers of an operand.                                                      *)
LEMMA OperandNumbers ==
  ASSUME NEW o, IsOperand(o)
  PROVE  /\ o.disp \in Int /\ o.daddr \in Int /\ o.imm \in Int /\ o.selector \in Int /\ o.offset \in Int
         /\ o.mod \in Int /\ o.rm \in Int
BY S16Type DEF IsOperand

LEMMA NoOperandNumbers == NoOperand.disp = 0 /\ NoOperand.daddr = 0 /\ NoOperand.mod = 0
BY DEF NoOperand
-------------------------------------------------------------------------------
(* The fields, one by one.                                                         *)
LEMMA MemoryNumbers ==
  ASSUME IsCall(call)
  PROVE  LET m == IF HasMemory THEN SrcElseDst(Memory) ELSE NoOperand
         IN  m.disp \in Int /\ m.daddr \in Int /\ m.mod \in Int
BY CallFacts, OperandNumbers, NoOperandNumbers DEF SrcElseDst

LEMMA ChosenNumbers ==
  ASSUME IsCall(call), NEW kinds
  PROVE  /\ SrcElseDst(kinds).disp \in Int /\ SrcElseDst(kinds).daddr \in Int
         /\ SrcElseDst(kinds).imm \in Int /\ SrcElseDst(kinds).mod \in Int /\ SrcElseDst(kinds).rm \in Int
BY CallFacts, OperandNumbers DEF SrcElseDst

LEMMA S16Integer == \A n \in Int : S16(n) \in Int
BY DEF S16

(* Each field that is not a label is one step on.                                  *)
LEMMA FieldStep ==
  ASSUME Inv, NEW row \in HitRows, NEW n \in 0 .. Len(row.fields), AtField(row, n),
         pc = "emitting", fields # <<>>,
         \/ EmitBits \/ EmitReg \/ EmitMod \/ EmitRm \/ EmitDisp \/ EmitAddr \/ EmitByte
         \/ EmitImm16 \/ EmitSr \/ EmitSize \/ EmitPointer
  PROVE  Inv'
<1>. DEFINE f == Head(fields)
<1>1. IsCall(call) /\ RowIsSound(row)
  BY HitIsSound DEF Inv
<1>2. /\ f = row.fields[n + 1] /\ n + 1 \in 1 .. Len(row.fields) /\ f \in Fields
  BY <1>1, NextField
<1>3. /\ f.len \in Nat
      /\ (f.id = "BITS" => f.value \in Nat) /\ (f.id = "BITS" => f.len \in 0 .. 16)
      /\ (f.id = "MOD" => f.len = 2) /\ (f.id = "SR" => f.len = 2)
      /\ (f.id = "REG" => f.len = 3) /\ (f.id = "RM" => f.len = 3)
      /\ (f.id \in {"W", "S"} => f.len = 1) /\ (f.id \in {"IMM8", "DATA8"} => f.len = 8)
      /\ (f.id = "IMM16" => f.len = 16)
  BY SMTT(30), <1>2, FieldLengths
<1>. HIDE DEF f
<1>4. SUFFICES \E new : \E len \in Nat :
                  /\ IsBits(new, len) /\ Emit(new, len)
                  /\ len = f.len \/ (f.id \in Open /\ len \in {0, 8, 16})
                  /\ patches' = patches
  BY PlainField DEF f
<1>5. CASE EmitBits
  <2>1. f.id = "BITS" /\ Emit(BitsOf(f.value, f.len), f.len) /\ patches' = patches
    BY <1>5 DEF EmitBits, At, f
  <2>2. f.value \in Int /\ f.len \in 0 .. 16
    BY <1>3, <2>1
  <2>3. IsBits(BitsOf(f.value, f.len), f.len)
    BY <2>2, BitsOfType
  <2>. QED  BY <1>3, <2>1, <2>3
<1>6. CASE EmitReg
  <2>1. f.id = "REG" /\ Emit(BitsOf(reg_field(SrcElseDst(General8or16).reg), 3), 3) /\ patches' = patches
    BY <1>6 DEF EmitReg, At, f
  <2>2. reg_field(SrcElseDst(General8or16).reg) \in Int
    BY <1>1, <1>2, <2>1, RegisterThere, RegisterPlaces
  <2>3. IsBits(BitsOf(reg_field(SrcElseDst(General8or16).reg), 3), 3)
    BY <2>2, BitsOfType
  <2>. QED  BY <1>3, <2>1, <2>3
<1>7. CASE EmitMod
  <2>. DEFINE v == IF HasMemory THEN SrcElseDst(Memory).mod ELSE 3
  <2>1. f.id = "MOD" /\ Emit(BitsOf(v, 2), 2) /\ patches' = patches
    BY <1>7 DEF EmitMod, At, f
  <2>2. v \in Int
    BY <1>1, ChosenNumbers
  <2>. HIDE DEF v
  <2>3. IsBits(BitsOf(v, 2), 2)
    BY <2>2, BitsOfType
  <2>. QED  BY <1>3, <2>1, <2>3
<1>8. CASE EmitRm
  <2>. DEFINE v == IF HasMemory THEN SrcElseDst(Memory).rm ELSE reg_field(dst.reg)
  <2>1. f.id = "RM" /\ Emit(BitsOf(v, 3), 3) /\ patches' = patches
    BY <1>8 DEF EmitRm, At, f
  <2>2. HasMemory \/ dst.reg \in General
    BY <1>1, <1>8, CallFacts, OperandRegisters DEF EmitRm
  <2>3. v \in Int
    BY <1>1, <2>2, ChosenNumbers, RegisterPlaces
  <2>. HIDE DEF v
  <2>4. IsBits(BitsOf(v, 3), 3)
    BY <2>3, BitsOfType
  <2>. QED  BY <1>3, <2>1, <2>4
<1>9. CASE EmitDisp
  <2>. DEFINE m == IF HasMemory THEN SrcElseDst(Memory) ELSE NoOperand
  <2>1. m.disp \in Int /\ m.daddr \in Int
    BY <1>1, MemoryNumbers
  <2>2. /\ f.id = "DISP" /\ patches' = patches
        /\ \/ Emit(Low(m.disp), 8) \/ Emit(LowHigh(m.disp), 16)
           \/ Emit(LowHigh(m.daddr), 16) \/ Emit(<<>>, 0)
    BY <1>9 DEF EmitDisp, At, f
  <2>. HIDE DEF m
  <2>3. IsBits(Low(m.disp), 8) /\ IsBits(LowHigh(m.disp), 16) /\ IsBits(LowHigh(m.daddr), 16)
        /\ IsBits(<<>>, 0)
    BY <2>1, LowType DEF IsBits
  <2>4. f.id \in Open
    BY <2>2 DEF Open
  <2>. QED  BY <2>2, <2>3, <2>4
<1>10. CASE EmitAddr
  <2>1. f.id \in Open /\ Emit(LowHigh(SrcElseDst({"DADDR"}).daddr), 16) /\ patches' = patches
    BY <1>10 DEF EmitAddr, At, f, Open
  <2>2. IsBits(LowHigh(SrcElseDst({"DADDR"}).daddr), 16)
    BY <1>1, ChosenNumbers, LowType
  <2>. QED  BY <2>1, <2>2
<1>11. CASE EmitByte
  <2>1. f.id \in {"IMM8", "DATA8"} /\ Emit(Low(SrcElseDst({"IMMEDIATE"}).imm), f.len) /\ patches' = patches
    BY <1>11 DEF EmitByte, At, f
  <2>2. IsBits(Low(SrcElseDst({"IMMEDIATE"}).imm), 8)
    BY <1>1, ChosenNumbers, LowType
  <2>. QED  BY <1>3, <2>1, <2>2
<1>12. CASE EmitImm16
  <2>. DEFINE imm == SrcElseDst({"IMMEDIATE"}).imm
              v   == IF mnemonic = "JMP" THEN S16(imm - (g_instruction_pointer + 3)) ELSE imm
  <2>1. f.id = "IMM16" /\ Emit(LowHigh(v), 16) /\ patches' = patches
    BY <1>12 DEF EmitImm16, At, f
  <2>2. imm \in Int /\ g_instruction_pointer \in Int
    BY <1>1, ChosenNumbers, CallFacts DEF g_instruction_pointer
  <2>. HIDE DEF imm
  <2>3. v \in Int
    BY <2>2, S16Integer
  <2>. HIDE DEF v
  <2>4. IsBits(LowHigh(v), 16)
    BY <2>3, LowType
  <2>. QED  BY <1>3, <2>1, <2>4
<1>13. CASE EmitSr
  <2>1. f.id = "SR" /\ Emit(BitsOf(encode_sr(SrcElseDst({"SEGREG"}).seg), 2), 2) /\ patches' = patches
    BY <1>13 DEF EmitSr, At, f
  <2>2. encode_sr(SrcElseDst({"SEGREG"}).seg) \in Int
    BY <1>1, <1>2, <2>1, SegmentThere, SegmentPlaces
  <2>3. IsBits(BitsOf(encode_sr(SrcElseDst({"SEGREG"}).seg), 2), 2)
    BY <2>2, BitsOfType
  <2>. QED  BY <1>3, <2>1, <2>3
<1>14. CASE EmitSize
  <2>1. f.id \in {"W", "S"} /\ patches' = patches /\ (Emit(<<1>>, 1) \/ Emit(<<0>>, 1))
    BY <1>14 DEF EmitSize, At, f
  <2>2. IsBits(<<1>>, 1) /\ IsBits(<<0>>, 1)
    BY DEF IsBits, Bit
  <2>. QED  BY <1>3, <2>1, <2>2
<1>15. CASE EmitPointer
  <2>1. f.id \in Open /\ patches' = patches /\ (Emit(LowHigh(dst.offset), 16) \/ Emit(LowHigh(dst.selector), 16))
    BY <1>15 DEF EmitPointer, At, f, Open
  <2>2. IsBits(LowHigh(dst.offset), 16) /\ IsBits(LowHigh(dst.selector), 16)
    BY <1>1, CallFacts, OperandNumbers, LowType
  <2>. QED  BY <2>1, <2>2
<1>. QED  BY <1>5, <1>6, <1>7, <1>8, <1>9, <1>10, <1>11, <1>12, <1>13, <1>14, <1>15

(* A label is the last field of its row, behind eight bits of opcode. Its bytes are   *)
(* the distance, or zeros and an entry that says where they are.                    *)
LEMMA LabelStep ==
  ASSUME Inv, NEW row \in HitRows, NEW n \in 0 .. Len(row.fields), AtField(row, n),
         pc = "emitting", fields # <<>>, EmitLabel
  PROVE  Inv'
<1>1. IsCall(call) /\ RowIsSound(row)
  BY HitIsSound DEF Inv
<1>2. /\ n # Len(row.fields) /\ Head(fields) = row.fields[n + 1] /\ n + 1 \in 1 .. Len(row.fields)
      /\ row.fields[n + 1] \in Fields /\ patches = <<>>
  BY <1>1, NextField
<1>3. PICK l \in {1, 2} :
         /\ Head(fields).id = IF l = 2 THEN "LBL" ELSE "LBL8"
         /\ IF call.pos = NoPosition
            THEN /\ Emit(BitsOf(0, 8 * l), 8 * l)
                 /\ patches' = Append(patches, [inst_pointer |-> g_instruction_pointer + 1,
                                                labelname |-> dst.label, bytelen |-> l])
            ELSE /\ patches' = patches
                 /\ \E diff \in Int : Emit(IF l = 2 THEN LowHigh(diff) ELSE Low(diff), 8 * l)
  <2>1. PICK f \in {[id |-> "LBL", len |-> 2], [id |-> "LBL8", len |-> 1]} :
           /\ At(f.id)
           /\ IF call.pos = NoPosition
              THEN /\ Emit(BitsOf(0, 8 * f.len), 8 * f.len)
                   /\ patches' = Append(patches, [inst_pointer |-> g_instruction_pointer + 1,
                                                  labelname |-> dst.label, bytelen |-> f.len])
              ELSE LET diff == S16(call.pos) - S16(g_instruction_pointer + f.len + 1)
                   IN  /\ Emit(IF f.id = "LBL" THEN LowHigh(diff) ELSE Low(diff), 8 * f.len)
                       /\ UNCHANGED patches
    BY DEF EmitLabel
  <2>. DEFINE diff == S16(call.pos) - S16(g_instruction_pointer + f.len + 1)
  <2>2. f.len \in {1, 2} /\ f.id = (IF f.len = 2 THEN "LBL" ELSE "LBL8")
    OBVIOUS
  <2>3. diff \in Int
    <3>1. call.pos \in Int /\ g_instruction_pointer + f.len + 1 \in Int
      BY <1>1, <2>2, CallFacts DEF g_instruction_pointer
    <3>2. S16(call.pos) \in Int /\ S16(g_instruction_pointer + f.len + 1) \in Int
      BY <3>1, S16Integer
    <3>. QED  BY <3>2
  <2>4. IF call.pos = NoPosition
        THEN /\ Emit(BitsOf(0, 8 * f.len), 8 * f.len)
             /\ patches' = Append(patches, [inst_pointer |-> g_instruction_pointer + 1,
                                            labelname |-> dst.label, bytelen |-> f.len])
        ELSE patches' = patches /\ Emit(IF f.len = 2 THEN LowHigh(diff) ELSE Low(diff), 8 * f.len)
    BY <2>1, <2>2
  <2>5. Head(fields).id = f.id
    BY <2>1 DEF At
  <2>. HIDE DEF diff
  <2>. QED  BY <2>2, <2>3, <2>4, <2>5
<1>4. Head(fields).id \in {"LBL", "LBL8"}
  BY <1>3
<1>5. /\ n + 1 = 2 /\ Len(row.fields) = 2 /\ row.fields[1].id = "BITS" /\ row.fields[1].len = 8
      /\ row.fields \in Seq(Fields)
  BY <1>1, <1>2, <1>4 DEF RowIsSound
<1>6. bitlen = 8
  <2>1. FewestBits(row.fields)[0] = 0 /\ MostBits(row.fields)[0] = 0
    BY <1>5, RowSums
  <2>2. 1 \in 1 .. Len(row.fields) /\ n = 1
    BY <1>2, <1>5
  <2>3. FewestBits(row.fields)[1] = FewestBits(row.fields)[0] + row.fields[1].len
        /\ MostBits(row.fields)[1] = MostBits(row.fields)[0]
                  + (IF row.fields[1].id \in Open THEN 16 ELSE row.fields[1].len)
    <3>1. 1 - 1 = 0
      OBVIOUS
    <3>. QED  BY <1>5, <2>2, <3>1, RowSums
  <2>4. FewestBits(row.fields)[1] = 8 /\ MostBits(row.fields)[1] = 8
    BY <1>5, <2>1, <2>3 DEF Open
  <2>. QED  BY <2>2, <2>4 DEF AtField, Progress
<1>7. Head(fields).len = (IF l = 2 THEN 0 ELSE 8) /\ (l = 2 => Head(fields).id \in Open)
  BY <1>2, <1>3, FieldLengths DEF Open
<1>8. 8 * l \in Nat /\ (8 * l = Head(fields).len \/ (Head(fields).id \in Open /\ 8 * l \in {0, 8, 16}))
  BY <1>7
<1>9. CASE call.pos # NoPosition
  <2>1. PICK diff \in Int : Emit(IF l = 2 THEN LowHigh(diff) ELSE Low(diff), 8 * l)
    BY <1>3, <1>9
  <2>2. IsBits(IF l = 2 THEN LowHigh(diff) ELSE Low(diff), 8 * l)
    BY LowType
  <2>3. patches' = patches
    BY <1>3, <1>9
  <2>. QED  BY <1>8, <2>1, <2>2, <2>3, PlainField
<1>10. CASE call.pos = NoPosition
  <2>. DEFINE new == BitsOf(0, 8 * l)
  <2>1. /\ Emit(new, 8 * l)
        /\ patches' = <<[inst_pointer |-> call.ip + 1, labelname |-> dst.label, bytelen |-> l]>>
    BY <1>2, <1>3, <1>10 DEF g_instruction_pointer
  <2>2. IsBits(new, 8 * l) /\ \A k \in 1 .. 8 * l : new[k] = 0
    <3>1. 8 * l \in 0 .. 16
      OBVIOUS
    <3>2. \A k \in 1 .. 8 * l : ((0 \div 2 ^ (8 * l - k)) % 2) = 0
      <4>. SUFFICES ASSUME NEW k \in 1 .. 8 * l PROVE ((0 \div 2 ^ (8 * l - k)) % 2) = 0
        OBVIOUS
      <4>1. PICK j \in 0 .. 15 : j = 8 * l - k
        OBVIOUS
      <4>2. 2 ^ j \in Nat /\ 2 ^ j > 0
        BY Powers
      <4>3. PICK p \in Nat : p = 2 ^ j /\ p > 0
        BY <4>2
      <4>4. ((0 \div p) % 2) = 0
        BY <4>3
      <4>. QED  BY <4>1, <4>3, <4>4
    <3>3. IsBits(new, 8 * l)
      BY <3>1, BitsOfType
    <3>4. \A k \in 1 .. 8 * l : new[k] = ((0 \div 2 ^ (8 * l - k)) % 2)
      BY DEF BitsOf
    <3>. HIDE DEF new
    <3>. QED  BY <3>2, <3>3, <3>4
  <2>. HIDE DEF new
  <2>3. Progress(row, n + 1)'
    BY <1>1, <1>2, <1>8, <2>1, <2>2, FieldEmitted DEF AtField
  <2>4. encoding' = encoding \o new /\ bitlen' = 8 + 8 * l /\ IsBits(encoding, 8)
    BY <1>6, <2>1 DEF Emit, AtField, Progress
  <2>5. \A k \in 9 .. bitlen' : encoding'[k] = 0
    <3>. SUFFICES ASSUME NEW k \in 9 .. 8 + 8 * l PROVE encoding'[k] = 0
      BY <2>4
    <3>1. k - 8 \in 1 .. 8 * l
      OBVIOUS
    <3>2. /\ encoding \in Seq(Bit) /\ new \in Seq(Bit) /\ Len(encoding) = 8 /\ Len(new) = 8 * l
          /\ k \in 1 .. Len(encoding) + Len(new) /\ k > Len(encoding)
      BY <2>2, <2>4 DEF IsBits
    <3>3. (encoding \o new)[k] = new[k - Len(encoding)]
      <4>1. \A i \in 1 .. Len(encoding) + Len(new) : (encoding \o new)[i] =
               IF i <= Len(encoding) THEN encoding[i] ELSE new[i - Len(encoding)]
        BY <3>2, ConcatProperties
      <4>2. ~(k <= Len(encoding))
        BY <3>2
      <4>. QED  BY <3>2, <4>1, <4>2
    <3>4. encoding'[k] = new[k - 8]
      BY <2>4, <3>2, <3>3
    <3>. QED  BY <2>2, <3>1, <3>4
  <2>6. call' = call /\ pc' = pc /\ bytes' = bytes
    BY <2>1 DEF Emit
  <2>7. call'.ip = call.ip /\ dst' = dst /\ HitRows' = HitRows
    BY <2>6, RowsStay
  <2>8. Hole(row, n + 1)'
    BY <1>5, <2>1, <2>4, <2>5, <2>7 DEF Hole
  <2>9. AtField(row, n + 1)' /\ n + 1 \in 0 .. Len(row.fields)
    BY <1>2, <2>3, <2>8 DEF AtField
  <2>10. \E r \in HitRows' : \E m \in 0 .. Len(r.fields) : AtField(r, m)'
    BY <2>7, <2>9
  <2>. QED  BY <2>6, <2>10 DEF Inv
<1>. QED  BY <1>9, <1>10
-------------------------------------------------------------------------------
(* The steps that leave the code of the instruction alone.                          *)
LEMMA CodeStays ==
  ASSUME call' = call, fields' = fields, encoding' = encoding, bitlen' = bitlen, patches' = patches
  PROVE  /\ (\E row \in HitRows : \E n \in 0 .. Len(row.fields) : AtField(row, n))
              => \E row \in HitRows' : \E n \in 0 .. Len(row.fields) : AtField(row, n)'
         /\ Stored' = Stored
<1>1. HitRows' = HitRows /\ dst' = dst
  BY RowsStay
<1>2. Stored' = Stored
  BY DEF Stored
<1>3. ASSUME NEW row, NEW n, AtField(row, n) PROVE AtField(row, n)'
  <2>1. Progress(row, n)'
    BY <1>3 DEF AtField, Progress
  <2>2. Hole(row, n) => Hole(row, n)'
    BY <1>1 DEF Hole
  <2>. QED  BY <1>3, <2>1, <2>2 DEF AtField
<1>. QED  BY <1>1, <1>2, <1>3

LEMMA SearchStep ==
  ASSUME Inv, FindRow
  PROVE  Inv'
<1>1. PICK i \in Hits : fields' = Rows[i].fields
  BY DEF FindRow
<1>2. PICK row : row = Rows[i]
  OBVIOUS
<1>3. /\ pc = "searching" /\ pc' = "emitting" /\ call' = call /\ encoding' = encoding
      /\ bitlen' = bitlen /\ patches' = patches /\ bytes' = bytes
  BY DEF FindRow
<1>4. encoding = <<>> /\ bitlen = 0 /\ patches = <<>> /\ bytes = <<>> /\ IsCall(call)
  BY <1>3 DEF Inv
<1>5. row \in HitRows
  BY <1>2 DEF HitRows
<1>6. row.fields \in Seq(Fields) /\ FewestBits(row.fields)[0] = 0 /\ MostBits(row.fields)[0] = 0
  BY <1>4, <1>5, HitIsSound, RowSums DEF RowIsSound
<1>7. fields' = SubSeq(row.fields, 0 + 1, Len(row.fields))
  <2>1. SubSeq(row.fields, 1, Len(row.fields)) = row.fields
    BY <1>6
  <2>. QED  BY <1>1, <1>2, <2>1
<1>8. IsBits(encoding', bitlen')
  BY <1>3, <1>4 DEF IsBits
<1>9. AtField(row, 0)' /\ 0 \in 0 .. Len(row.fields)
  BY <1>3, <1>4, <1>6, <1>7, <1>8 DEF AtField, Progress
<1>10. row \in HitRows'
  BY <1>3, <1>5, RowsStay
<1>11. \E r \in HitRows' : \E m \in 0 .. Len(r.fields) : AtField(r, m)'
  BY <1>9, <1>10
<1>. QED  BY <1>3, <1>4, <1>11 DEF Inv

LEMMA InitBegun == Init => Begun
BY CallsAssumption DEF Init, Begun, IsCall

LEMMA BegunInv == Begun => Inv
BY DEF Begun, Inv

LEMMA InitInv == Init => Inv
BY InitBegun, BegunInv

LEMMA StepInv == Inv /\ [Next]_vars => Inv'
<1>. SUFFICES ASSUME Inv, [Next]_vars PROVE Inv'
  OBVIOUS
<1>1. CASE FindRow
  BY <1>1, SearchStep
<1>2. CASE NoRow
  BY <1>2 DEF NoRow, Inv
<1>3. CASE AbortRm
  <2>1. pc = "emitting" /\ pc' = "aborted" /\ call' = call /\ fields' = fields /\ encoding' = encoding
        /\ bitlen' = bitlen /\ patches' = patches /\ bytes' = bytes
    BY <1>3 DEF AbortRm, At
  <2>2. \E row \in HitRows' : \E n \in 0 .. Len(row.fields) : AtField(row, n)'
    BY <2>1, CodeStays DEF Inv
  <2>. QED  BY <2>1, <2>2 DEF Inv
<1>4. CASE EmitField /\ ~ AbortRm
  <2>1. pc = "emitting" /\ fields # <<>>
    BY <1>4 DEF EmitField, EmitBits, EmitReg, EmitMod, EmitRm, EmitDisp, EmitAddr, EmitByte, EmitImm16,
                EmitSr, EmitSize, EmitLabel, EmitPointer, At
  <2>2. PICK row \in HitRows : \E n \in 0 .. Len(row.fields) : AtField(row, n)
    BY <2>1 DEF Inv
  <2>3. PICK n \in 0 .. Len(row.fields) : AtField(row, n)
    BY <2>2
  <2>. QED  BY <1>4, <2>1, <2>3, FieldStep, LabelStep DEF EmitField
<1>5. CASE EndOfRow
  <2>1. pc = "emitting" /\ fields = <<>> /\ pc' = "storing" /\ call' = call /\ fields' = fields
        /\ encoding' = encoding /\ bitlen' = bitlen /\ patches' = patches /\ bytes' = bytes
    BY <1>5 DEF EndOfRow
  <2>2. \E row \in HitRows' : \E n \in 0 .. Len(row.fields) : AtField(row, n)'
    BY <2>1, CodeStays DEF Inv
  <2>. QED  BY <2>1, <2>2 DEF Inv
<1>6. CASE StoreBytes
  <2>1. pc = "storing" /\ pc' = "done" /\ call' = call /\ fields' = fields /\ encoding' = encoding
        /\ bitlen' = bitlen /\ patches' = patches /\ bytes' = Stored
    BY <1>6 DEF StoreBytes
  <2>2. /\ \E row \in HitRows' : \E n \in 0 .. Len(row.fields) : AtField(row, n)'
        /\ Stored' = Stored
    BY <2>1, CodeStays DEF Inv
  <2>. QED  BY <2>1, <2>2 DEF Inv
<1>7. CASE UNCHANGED vars
  <2>1. pc' = pc /\ call' = call /\ fields' = fields /\ encoding' = encoding /\ bitlen' = bitlen
        /\ patches' = patches /\ bytes' = bytes
    BY <1>7 DEF vars
  <2>2. /\ (\E row \in HitRows : \E n \in 0 .. Len(row.fields) : AtField(row, n))
             => \E row \in HitRows' : \E n \in 0 .. Len(row.fields) : AtField(row, n)'
        /\ Stored' = Stored
    BY <2>1, CodeStays
  <2>. QED  BY <2>1, <2>2 DEF Inv
<1>. QED  BY <1>1, <1>2, <1>3, <1>4, <1>5, <1>6, <1>7 DEF Next

LEMMA Invariance == Spec => []Inv
BY InitInv, StepInv, PTL DEF Spec
-------------------------------------------------------------------------------
(* At the end of a row its bits are whole bytes, at least one and at most six.       *)
LEMMA RowEnds ==
  ASSUME IsCall(call), NEW row \in HitRows, NEW n \in 0 .. Len(row.fields), AtField(row, n),
         fields = <<>>
  PROVE  /\ n = Len(row.fields)
         /\ \E m \in 1 .. 6 : bitlen = 8 * m /\ IsBits(encoding, 8 * m)
<1>1. row.fields \in Seq(Fields) /\ Len(row.fields) \in Nat
      /\ FewestBits(row.fields)[Len(row.fields)] > 0 /\ MostBits(row.fields)[Len(row.fields)] <= 48
  BY HitIsSound DEF RowIsSound
<1>2. (FewestBits(row.fields)[Len(row.fields)] % 8) = 0
  BY HitIsSound DEF RowIsSound
<1>3. fields = SubSeq(row.fields, n + 1, Len(row.fields)) /\ IsBits(encoding, bitlen) /\ bitlen \in Nat
      /\ FewestBits(row.fields)[n] <= bitlen /\ bitlen <= MostBits(row.fields)[n]
  BY DEF AtField, Progress
<1>4. ((bitlen - FewestBits(row.fields)[n]) % 8) = 0
  BY DEF AtField, Progress
<1>5. n = Len(row.fields)
  <2>. SUFFICES ASSUME n # Len(row.fields) PROVE FALSE
    OBVIOUS
  <2>1. n \in Nat /\ n + 1 \in 1 .. Len(row.fields)
    BY <1>1
  <2>2. Len(SubSeq(row.fields, n + 1, Len(row.fields))) = Len(row.fields) - n
    BY <1>1, <2>1
  <2>3. Len(fields) = Len(row.fields) - n
    BY <1>3, <2>2
  <2>4. Len(fields) = 0
    OBVIOUS
  <2>. QED  BY <1>1, <2>1, <2>3, <2>4
<1>6. FewestBits(row.fields)[n] \in Nat /\ MostBits(row.fields)[n] \in Nat
  BY <1>1, SumsRise
<1>7. PICK few \in Nat : few = FewestBits(row.fields)[n]
  BY <1>6
<1>8. (few % 8) = 0 /\ ((bitlen - few) % 8) = 0 /\ few > 0 /\ few <= bitlen /\ bitlen <= 48
  BY <1>1, <1>2, <1>3, <1>4, <1>5, <1>6, <1>7
<1>9. (bitlen % 8) = 0 /\ bitlen > 0
  BY <1>3, <1>8
<1>10. PICK m \in 1 .. 6 : bitlen = 8 * m
  <2>. DEFINE m == bitlen \div 8
  <2>1. m \in 1 .. 6 /\ bitlen = 8 * m
    BY <1>3, <1>8, <1>9
  <2>. QED  BY <2>1
<1>. QED  BY <1>3, <1>5, <1>10

LEMMA InvTypes == Inv => TypeOK
<1>. SUFFICES ASSUME Inv PROVE TypeOK
  OBVIOUS
<1>1. CASE pc \in {"searching", "dropped"}
  <2>1. encoding = <<>> /\ bitlen = 0 /\ patches = <<>> /\ bytes = <<>>
    BY <1>1 DEF Inv
  <2>2. <<>> \in Seq({0, 1}) /\ <<>> \in Seq(0 .. 255) /\ Len(<<>>) = 0
    OBVIOUS
  <2>. QED  BY <1>1, <2>1, <2>2 DEF TypeOK
<1>2. CASE pc \in {"emitting", "storing", "done", "aborted"}
  <2>1. PICK row \in HitRows : \E n \in 0 .. Len(row.fields) : AtField(row, n)
    BY <1>2 DEF Inv
  <2>2. PICK n \in 0 .. Len(row.fields) : AtField(row, n)
    BY <2>1
  <2>3. row.fields \in Seq(Fields) /\ MostBits(row.fields)[Len(row.fields)] <= 48 /\ IsCall(call)
    BY HitIsSound DEF RowIsSound, Inv
  <2>4. /\ MostBits(row.fields)[n] \in Nat /\ MostBits(row.fields)[Len(row.fields)] \in Nat
        /\ MostBits(row.fields)[n] <= MostBits(row.fields)[Len(row.fields)]
    <3>1. Len(row.fields) \in 0 .. Len(row.fields)
      BY <2>3
    <3>. QED  BY <2>3, <3>1, SumsRise
  <2>5. bitlen \in Nat /\ bitlen <= MostBits(row.fields)[n] /\ encoding \in Seq({0, 1})
    BY <2>2 DEF AtField, Progress, IsBits, Bit
  <2>6. bitlen \in 0 .. 48
    BY <2>3, <2>4, <2>5
  <2>7. Len(patches) <= 1
    <3>1. CASE patches = <<>>
      BY <3>1
    <3>2. CASE Hole(row, n)
      <4>1. PICK p : patches = <<p>>
        BY <3>2 DEF Hole
      <4>. QED  BY <4>1
    <3>. QED  BY <2>2, <3>1, <3>2 DEF AtField
  <2>8. bytes \in Seq(0 .. 255) /\ Len(bytes) <= 6
    <3>1. CASE pc # "done"
      BY <3>1 DEF Inv
    <3>2. CASE pc = "done"
      <4>1. PICK m \in 1 .. 6 : bitlen = 8 * m /\ IsBits(encoding, 8 * m)
        BY <2>2, <2>3, <3>2, RowEnds DEF Inv
      <4>2. Stored \in Seq(0 .. 255) /\ Len(Stored) = m
        BY <4>1, StoredType
      <4>. QED  BY <3>2, <4>2 DEF Inv
    <3>. QED  BY <3>1, <3>2
  <2>. QED  BY <1>2, <2>5, <2>6, <2>7, <2>8 DEF TypeOK
<1>. QED  BY <1>1, <1>2 DEF Inv

LEMMA InvWhole == Inv => WholeBytes
<1>. SUFFICES ASSUME Inv, pc \in {"storing", "done"}
              PROVE  bitlen = Len(encoding) /\ bitlen % 8 = 0 /\ bitlen > 0
  BY DEF WholeBytes
<1>1. PICK row \in HitRows : \E n \in 0 .. Len(row.fields) : AtField(row, n)
  BY DEF Inv
<1>2. PICK m \in 1 .. 6 : bitlen = 8 * m /\ IsBits(encoding, 8 * m)
  BY <1>1, RowEnds DEF Inv
<1>3. ((8 * m) % 8) = 0
  OBVIOUS
<1>. QED  BY <1>2, <1>3 DEF IsBits

LEMMA InvHole == Inv => HoleAtPatch
<1>. SUFFICES ASSUME Inv, pc = "done", patches # <<>>
              PROVE  LET p == patches[1] IN
                     /\ p.inst_pointer + p.bytelen = call.ip + Len(bytes)
                     /\ \A k \in p.inst_pointer - call.ip + 1 .. Len(bytes) : bytes[k] = 0
                     /\ p.labelname = dst.label
  BY DEF HoleAtPatch
<1>1. PICK row \in HitRows : \E n \in 0 .. Len(row.fields) : AtField(row, n)
  BY DEF Inv
<1>2. PICK n \in 0 .. Len(row.fields) : AtField(row, n)
  BY <1>1
<1>3. fields = <<>> /\ IsCall(call) /\ call.ip \in Nat /\ bytes = Stored
  BY CallFacts DEF Inv
<1>4. PICK m \in 1 .. 6 : bitlen = 8 * m /\ IsBits(encoding, 8 * m)
  BY <1>2, <1>3, RowEnds
<1>5. PICK l \in {1, 2} :
         /\ patches = <<[inst_pointer |-> call.ip + 1, labelname |-> dst.label, bytelen |-> l]>>
         /\ bitlen = 8 + 8 * l
         /\ \A k \in 9 .. bitlen : encoding[k] = 0
  BY <1>2 DEF AtField, Hole
<1>6. m = 1 + l
  BY <1>4, <1>5
<1>7. Len(bytes) = m /\ \A k \in 2 .. m : bytes[k] = 0
  <2>1. Len(bytes) = m
    BY <1>3, <1>4, StoredType
  <2>2. ASSUME NEW k \in 2 .. m PROVE Stored[k] = 0
    <3>1. k \in 1 .. m /\ \A j \in 8 * (k - 1) + 1 .. 8 * k : j \in 9 .. bitlen
      BY <1>4
    <3>2. \A j \in 8 * (k - 1) + 1 .. 8 * k : encoding[j] = 0
      BY <1>5, <3>1
    <3>. QED  BY <1>4, <3>1, <3>2, EmptyByte
  <2>. QED  BY <1>3, <2>1, <2>2
<1>8. /\ patches[1].inst_pointer = call.ip + 1 /\ patches[1].bytelen = l
      /\ patches[1].labelname = dst.label
  BY <1>5
<1>. QED  BY <1>3, <1>6, <1>7, <1>8

(* Every variable keeps its type, and no instruction has more than                   *)
(* LEN_MAX_INST_BYTES bytes (asm8086.h:17): TypeOK of codegen, for every call with    *)
(* operands as the parser makes them.                                              *)
THEOREM TypeCorrect == Spec => []TypeOK
BY Invariance, InvTypes, PTL

(* The bits that were shifted in are those that were counted, and make whole bytes    *)
(* (codegen.c:56-403, asm8086.c:62-71): WholeBytes for every mnemonic, every operand   *)
(* of every kind and every row that they fit.                                       *)
THEOREM WholeCorrect == Spec => []WholeBytes
BY Invariance, InvWhole, PTL

(* What is recorded for the patch loop is the empty end of the instruction            *)
(* (codegen.c:327-338, 358-369): HoleAtPatch for every call at every address.         *)
THEOREM HoleCorrect == Spec => []HoleAtPatch
BY Invariance, InvHole, PTL

(* What main stores is what codegen shifted in, bit by bit and in this order.          *)
BitsStored ==
    pc = "done" =>
        /\ Len(encoding) = 8 * Len(bytes)
        /\ \A i \in 1 .. Len(bytes) : \A k \in 1 .. 8 :
               BitsOf(bytes[i], 8)[k] = encoding[8 * (i - 1) + k]

LEMMA InvStored == Inv => BitsStored
<1>. SUFFICES ASSUME Inv, pc = "done"
              PROVE  /\ Len(encoding) = 8 * Len(bytes)
                     /\ \A i \in 1 .. Len(bytes) : \A k \in 1 .. 8 :
                            BitsOf(bytes[i], 8)[k] = encoding[8 * (i - 1) + k]
  BY DEF BitsStored
<1>1. PICK row \in HitRows : \E n \in 0 .. Len(row.fields) : AtField(row, n)
  BY DEF Inv
<1>2. PICK m \in 1 .. 6 : bitlen = 8 * m /\ IsBits(encoding, 8 * m)
  BY <1>1, RowEnds DEF Inv
<1>3. bytes = Stored /\ Stored \in Seq(0 .. 255) /\ Len(Stored) = m
  BY <1>2, StoredType DEF Inv
<1>4. ASSUME NEW i \in 1 .. m, NEW k \in 1 .. 8
      PROVE  BitsOf(Stored[i], 8)[k] = b(i, k)
  <2>4. Stored[i] \in Int
    <3>2. i \in 1 .. Len(Stored)
      BY <1>3
    <3>3. Stored[i] \in 0 .. 255
      BY <1>3, <3>2, ElementOfSeq
    <3>. QED  BY <3>3
  <2>. DEFINE s == [j \in 1 .. 8 |-> b(i, j)]
  <2>1. s \in [1 .. 8 -> Bit]
    BY <1>2, StoredByte
  <2>2. Stored[i] = 128 * s[1] + 64 * s[2] + 32 * s[3] + 16 * s[4] + 8 * s[5] + 4 * s[6] + 2 * s[7] + s[8]
    BY <1>2, StoredByte
  <2>3. s[k] = b(i, k)
    OBVIOUS
  <2>. HIDE DEF s
  <2>. QED  BY <2>1, <2>2, <2>3, <2>4, BitsBack
<1>. QED  BY <1>2, <1>3, <1>4 DEF IsBits, b

(* The bytes in the codegen arena hold the bits of the instruction and no others        *)
(* (asm8086.c:62-71), for every call.                                                *)
THEOREM BytesCorrect == Spec => []BitsStored
BY Invariance, InvStored, PTL
-------------------------------------------------------------------------------
(* The jumps to a label or to a number: what is emitted behind the opcode.           *)
ToLabel     == mnemonic \in JumpNames /\ dst.kind = {"LABEL"}
ToNumber    == mnemonic \in JumpNames /\ "IMMEDIATE" \in dst.kind
                   /\ dst.kind \subseteq {"IMMEDIATE", "IMMEDIATE8", "IMMEDIATE16"}
IsJump      == ToLabel \/ ToNumber
OperandLen  == IF mnemonic = "JMP" THEN 2 ELSE 1
Unknown     == ToLabel /\ call.pos = NoPosition
Place       == [inst_pointer |-> call.ip + 1, labelname |-> dst.label, bytelen |-> OperandLen]

(* The number that the operand should hold, and the one that codegen makes of it.     *)
Distance == IF ToLabel THEN call.pos - (call.ip + 1 + OperandLen)
            ELSE IF mnemonic = "JMP" THEN dst.imm - (call.ip + 3) ELSE dst.imm
Emitted  == IF ToLabel THEN S16(call.pos) - S16(call.ip + OperandLen + 1)
            ELSE IF mnemonic = "JMP" THEN S16(dst.imm - (call.ip + 3)) ELSE dst.imm
JumpBits == IF OperandLen = 2 THEN LowHigh(Emitted) ELSE Low(Emitted)

Filled ==
    IF Unknown THEN patches = <<Place>>
    ELSE /\ patches = <<>>
         /\ Len(encoding) = 8 + 8 * OperandLen
         /\ \A k \in 1 .. 8 * OperandLen : encoding[8 + k] = JumpBits[k]

JumpInv ==
    /\ patches # <<>> => mnemonic \in JumpNames /\ "LABEL" \in dst.kind
    /\ IsJump =>
           /\ pc # "aborted"
           /\ pc \in {"emitting", "storing", "done"} => src.kind = {}
           /\ pc = "emitting" =>
                  \/ /\ Len(fields) = 2
                     /\ fields[2] = JumpField(mnemonic, IF ToLabel THEN "LABEL" ELSE "IMMEDIATE")
                     /\ fields[1].id = "BITS" /\ fields[1].len = 8
                     /\ encoding = <<>> /\ patches = <<>>
                  \/ /\ fields = <<JumpField(mnemonic, IF ToLabel THEN "LABEL" ELSE "IMMEDIATE")>>
                     /\ Len(encoding) = 8 /\ patches = <<>>
                  \/ fields = <<>> /\ Filled
           /\ pc \in {"storing", "done"} => Filled

(* The operand bytes of a jump are the two's complement of the distance, or empty and  *)
(* recorded; nothing else is recorded (codegen.c:230-240, 322-381).                    *)
JumpEncoded ==
    pc = "done" =>
        /\ patches # <<>> => mnemonic \in JumpNames /\ "LABEL" \in dst.kind
        /\ IsJump =>
               /\ Len(bytes) = 1 + OperandLen
               /\ IF Unknown
                  THEN patches = <<Place>> /\ \A k \in 2 .. Len(bytes) : bytes[k] = 0
                  ELSE /\ patches = <<>>
                       /\ bytes[2] = Distance % 256
                       /\ OperandLen = 2 => bytes[3] = (Distance \div 256) % 256

LEMMA JumpInit == Begun => JumpInv
BY DEF Begun, JumpInv

(* The row of a jump is one of those of the table.                                    *)
LEMMA JumpRow ==
  ASSUME IsCall(call), IsJump, NEW row \in HitRows
  PROVE  /\ row.src = "NONE" /\ src.kind = {} /\ Len(row.fields) = 2
         /\ row.fields[1].id = "BITS" /\ row.fields[1].len = 8
         /\ row.fields[2] = JumpField(mnemonic, IF ToLabel THEN "LABEL" ELSE "IMMEDIATE")
<1>1. PICK i \in Hits : row = Rows[i]
  BY DEF HitRows
<1>2. i \in DOMAIN Rows /\ Fits(dst, row.dst) /\ Fits(src, row.src)
  BY <1>1 DEF Hits
<1>3. mnemonic \in JumpNames /\ mnemonic # "NULL"
  BY DEF IsJump, ToLabel, ToNumber, JumpNames
<1>4. mnemonic \in DOMAIN Table /\ Rows = Table[mnemonic]
  BY <1>2, <1>3, CallFacts DEF Rows
<1>5. /\ ToLabel => row.dst = "LABEL"
      /\ ~ ToLabel => row.dst \in {"IMMEDIATE", "IMMEDIATE8", "IMMEDIATE16"}
  BY <1>2 DEF IsJump, ToLabel, ToNumber, Fits
<1>6. /\ row.src = "NONE" /\ Len(row.fields) = 2
      /\ row.fields[1].id = "BITS" /\ row.fields[1].len = 8
      /\ row.fields[2] = JumpField(mnemonic, row.dst)
  BY <1>1, <1>2, <1>3, <1>4, <1>5, JumpRowsAssumption
<1>7. src.kind = {}
  <2>1. src.kind \subseteq Kinds /\ "NONE" \notin Kinds
    BY CallFacts DEF IsOperand, Kinds
  <2>. QED  BY <1>2, <1>6, <2>1 DEF Fits
<1>. QED  BY <1>5, <1>6, <1>7 DEF JumpField

(* The fields that are left.                                                         *)
LEMMA FieldsLeft ==
  ASSUME Inv, pc = "emitting"
  PROVE  /\ fields \in Seq(Fields) /\ Len(encoding) = bitlen /\ encoding \in Seq(Bit)
         /\ fields # <<>> => \E row \in HitRows : \E k \in DOMAIN row.fields : Head(fields) = row.fields[k]
<1>1. PICK row \in HitRows : \E n \in 0 .. Len(row.fields) : AtField(row, n)
  BY DEF Inv
<1>2. PICK n \in 0 .. Len(row.fields) : AtField(row, n)
  BY <1>1
<1>3. row.fields \in Seq(Fields) /\ n \in 0 .. Len(row.fields)
  BY <1>2, HitIsSound DEF Inv, RowIsSound
<1>4. fields = SubSeq(row.fields, n + 1, Len(row.fields)) /\ IsBits(encoding, bitlen)
  BY <1>2 DEF AtField, Progress
<1>5. fields \in Seq(Fields) /\ Len(fields) = Len(row.fields) - n
  BY <1>3, <1>4
<1>6. fields # <<>> => n + 1 \in DOMAIN row.fields /\ Head(fields) = row.fields[n + 1]
  BY <1>3, <1>4, <1>5
<1>. QED  BY <1>4, <1>5, <1>6 DEF IsBits

LEMMA CallStays ==
  ASSUME call' = call
  PROVE  /\ mnemonic' = mnemonic /\ dst' = dst /\ src' = src /\ ToLabel' = ToLabel /\ ToNumber' = ToNumber
         /\ IsJump' = IsJump /\ OperandLen' = OperandLen /\ Unknown' = Unknown /\ Place' = Place
         /\ JumpBits' = JumpBits
<1>1. mnemonic' = mnemonic /\ dst' = dst /\ src' = src
  BY DEF mnemonic, dst, src
<1>2. ToLabel' = ToLabel /\ ToNumber' = ToNumber /\ OperandLen' = OperandLen
  BY <1>1 DEF ToLabel, ToNumber, OperandLen
<1>3. Emitted' = Emitted
  BY <1>1, <1>2 DEF Emitted
<1>. QED  BY <1>1, <1>2, <1>3 DEF IsJump, Unknown, Place, JumpBits

LEMMA SearchJump ==
  ASSUME Inv, FindRow
  PROVE  JumpInv'
<1>1. PICK i \in Hits : fields' = Rows[i].fields
  BY DEF FindRow
<1>2. /\ pc' = "emitting" /\ call' = call /\ encoding' = <<>> /\ patches' = <<>> /\ IsCall(call)
  BY DEF FindRow, Inv
<1>3. PICK row \in HitRows : row = Rows[i]
  BY DEF HitRows
<1>. QED  BY <1>1, <1>2, <1>3, JumpRow, CallStays DEF JumpInv

(* The operand of a jump is emitted by the action of its field.                       *)
LEMMA OperandOfLabel ==
  ASSUME Inv, JumpInv, IsJump, pc = "emitting", ToLabel,
         fields = <<JumpField(mnemonic, "LABEL")>>, Len(encoding) = 8, patches = <<>>, EmitLabel
  PROVE  fields' = <<>> /\ (Unknown => patches' = <<Place>>)
         /\ (~ Unknown => patches' = <<>> /\ encoding' = encoding \o JumpBits)
<1>1. fields' = <<>>
  BY DEF EmitLabel, Emit
<1>2. PICK f \in {[id |-> "LBL", len |-> 2], [id |-> "LBL8", len |-> 1]} :
         /\ At(f.id)
         /\ IF call.pos = NoPosition
            THEN /\ Emit(BitsOf(0, 8 * f.len), 8 * f.len)
                 /\ patches' = Append(patches, [inst_pointer |-> g_instruction_pointer + 1,
                                                labelname |-> dst.label, bytelen |-> f.len])
            ELSE LET diff == S16(call.pos) - S16(g_instruction_pointer + f.len + 1)
                 IN  /\ Emit(IF f.id = "LBL" THEN LowHigh(diff) ELSE Low(diff), 8 * f.len)
                     /\ UNCHANGED patches
  BY DEF EmitLabel
<1>3. f.id = Head(fields).id
  BY <1>2 DEF At
<1>4. Head(fields) = IF mnemonic = "JMP" THEN LBL ELSE LBL8
  BY DEF JumpField
<1>5. f.len = OperandLen /\ (f.id = "LBL" <=> OperandLen = 2)
  BY <1>3, <1>4 DEF OperandLen, LBL, LBL8, Field
<1>6. CASE call.pos = NoPosition
  <2>1. patches' = Append(<<>>, [inst_pointer |-> call.ip + 1, labelname |-> dst.label, bytelen |-> OperandLen])
    BY <1>2, <1>5, <1>6 DEF g_instruction_pointer
  <2>2. patches' = <<Place>>
    BY <2>1 DEF Place
  <2>. QED  BY <1>1, <1>6, <2>2 DEF Unknown
<1>7. CASE call.pos # NoPosition
  <2>1. Emitted = S16(call.pos) - S16(g_instruction_pointer + f.len + 1)
    BY <1>5 DEF Emitted, g_instruction_pointer
  <2>2. patches' = patches /\ encoding' = encoding \o (IF OperandLen = 2 THEN LowHigh(Emitted) ELSE Low(Emitted))
    BY <1>2, <1>5, <1>7, <2>1 DEF Emit
  <2>. QED  BY <1>1, <1>7, <2>2 DEF Unknown, JumpBits
<1>. QED  BY <1>6, <1>7

LEMMA OperandOfNumber ==
  ASSUME Inv, JumpInv, ~ ToLabel, ToNumber, pc = "emitting", src.kind = {},
         fields = <<JumpField(mnemonic, "IMMEDIATE")>>, patches = <<>>, EmitByte \/ EmitImm16
  PROVE  fields' = <<>> /\ patches' = <<>> /\ encoding' = encoding \o JumpBits
<1>1. SrcElseDst({"IMMEDIATE"}) = dst
  BY DEF SrcElseDst, IsOf
<1>2. Head(fields) = IF mnemonic = "JMP" THEN IMM16 ELSE IMM8
  BY DEF JumpField
<1>3. CASE EmitByte
  <2>1. mnemonic # "JMP"
    BY <1>2, <1>3 DEF EmitByte, At, IMM16, IMM8, Field
  <2>2. encoding' = encoding \o Low(dst.imm) /\ fields' = Tail(fields) /\ patches' = patches
    BY <1>1, <1>3 DEF EmitByte, Emit
  <2>3. JumpBits = Low(dst.imm)
    BY <2>1 DEF JumpBits, OperandLen, Emitted
  <2>. QED  BY <2>2, <2>3
<1>4. CASE EmitImm16
  <2>1. mnemonic = "JMP"
    BY <1>2, <1>4 DEF EmitImm16, At, IMM16, IMM8, Field
  <2>2. encoding' = encoding \o LowHigh(S16(dst.imm - (call.ip + 3))) /\ fields' = Tail(fields) /\ patches' = patches
    BY <1>1, <1>4, <2>1 DEF EmitImm16, Emit, g_instruction_pointer
  <2>3. JumpBits = LowHigh(S16(dst.imm - (call.ip + 3)))
    BY <2>1 DEF JumpBits, OperandLen, Emitted
  <2>. QED  BY <2>2, <2>3
<1>. QED  BY <1>3, <1>4

LEMMA EmittedInt ==
  ASSUME IsCall(call)
  PROVE  Emitted \in Int /\ IsBits(JumpBits, 8 * OperandLen)
<1>1. dst.imm \in Int /\ call.ip \in Int /\ call.pos \in Int /\ OperandLen \in {1, 2}
  BY CallFacts, S16Type DEF IsOperand, OperandLen
<1>2. Emitted \in Int
  <2>1. call.ip + OperandLen + 1 \in Int /\ dst.imm - (call.ip + 3) \in Int
    BY <1>1
  <2>2. S16(call.pos) \in Int /\ S16(call.ip + OperandLen + 1) \in Int /\ S16(dst.imm - (call.ip + 3)) \in Int
    BY <1>1, <2>1, S16Integer
  <2>. QED  BY <1>1, <2>2 DEF Emitted
<1>. QED  BY <1>1, <1>2, LowType DEF JumpBits

LEMMA OperandFilled ==
  ASSUME IsCall(call), call' = call, ~ Unknown, patches' = <<>>,
         encoding \in Seq(Bit), Len(encoding) = 8, encoding' = encoding \o JumpBits
  PROVE  Filled'
<1>. DEFINE n == 8 * OperandLen
            w == JumpBits
<1>1. n \in Nat /\ w \in Seq(Bit) /\ Len(w) = n
  BY EmittedInt DEF IsBits, OperandLen
<1>2. Len(encoding') = 8 + n /\ \A k \in 1 .. n : encoding'[8 + k] = w[k]
  <2>. HIDE DEF w, n
  <2>1. encoding' = encoding \o w
    BY DEF w
  <2>2. \A k \in 1 .. n : 8 + k \in 1 .. Len(encoding) + Len(w) /\ ~ (8 + k <= Len(encoding))
    BY <1>1
  <2>3. Len(encoding \o w) = 8 + n
    <3>1. Len(encoding \o w) = Len(encoding) + Len(w)
      BY <1>1, ConcatProperties
    <3>. QED  BY <1>1, <3>1
  <2>4. \A k \in 1 .. n : (encoding \o w)[8 + k] = w[k]
    <3>. SUFFICES ASSUME NEW k \in 1 .. n PROVE (encoding \o w)[8 + k] = w[k]
      OBVIOUS
    <3>1. \A i \in 1 .. Len(encoding) + Len(w) :
             (encoding \o w)[i] = IF i <= Len(encoding) THEN encoding[i] ELSE w[i - Len(encoding)]
      BY <1>1, ConcatProperties
    <3>2. (8 + k) - Len(encoding) = k
      BY <1>1
    <3>. QED  BY <2>2, <3>1, <3>2
  <2>. QED  BY <2>1, <2>3, <2>4
<1>3. ~ Unknown' /\ OperandLen' = OperandLen /\ JumpBits' = JumpBits
  BY CallStays
<1>. QED  BY ONLY <1>2, <1>3, patches' = <<>> DEF Filled

(* The field of a label is reached by a jump to a label only.                         *)
LEMMA LabelField ==
  ASSUME Inv, At("LBL") \/ At("LBL8")
  PROVE  mnemonic \in JumpNames /\ "LABEL" \in dst.kind
<1>1. pc = "emitting" /\ fields # <<>> /\ Head(fields).id \in {"LBL", "LBL8"}
  BY DEF At
<1>2. PICK row \in HitRows : \E k \in DOMAIN row.fields : Head(fields) = row.fields[k]
  BY <1>1, FieldsLeft
<1>3. PICK i \in Hits : row = Rows[i]
  BY DEF HitRows
<1>4. i \in DOMAIN Rows /\ Fits(dst, row.dst)
  BY <1>3 DEF Hits
<1>5. mnemonic \in DOMAIN Table /\ Rows = Table[mnemonic]
  BY <1>4, CallFacts DEF Rows, Inv
<1>6. mnemonic \in JumpNames /\ row.dst = "LABEL"
  BY <1>1, <1>2, <1>3, <1>4, <1>5, JumpRowsAssumption
<1>. QED  BY <1>4, <1>6 DEF Fits

(* No row fits a line without an instruction: nothing is encoded.                     *)
LEMMA NullDropped ==
  ASSUME Inv, mnemonic = "NULL"
  PROVE  pc \in {"searching", "dropped"}
<1>1. HitRows = {}
  BY DEF HitRows, Hits, Rows
<1>. QED  BY <1>1 DEF Inv

(* The call stays while it is encoded.                                               *)
LEMMA SameCall == Next => call' = call
<1>1. EmitDisp => call' = call
  BY DEF EmitDisp, Emit
<1>2. EmitField => EmitDisp \/ call' = call
  BY DEF EmitField, EmitBits, EmitReg, EmitMod, EmitRm, AbortRm, EmitAddr, EmitByte, EmitImm16,
         EmitSr, EmitSize, EmitLabel, EmitPointer, Emit
<1>. QED  BY <1>1, <1>2 DEF Next, FindRow, NoRow, EndOfRow, StoreBytes

(* An instruction is given up in the middle of a row.                                 *)
LEMMA AbortedInRow == Next /\ pc' = "aborted" => pc = "emitting"
<1>1. EmitField => pc = "emitting"
  BY DEF EmitField, EmitBits, EmitReg, EmitMod, EmitRm, AbortRm, EmitDisp, EmitAddr, EmitByte, EmitImm16,
         EmitSr, EmitSize, EmitLabel, EmitPointer, At
<1>. QED  BY <1>1 DEF Next, FindRow, NoRow, EndOfRow, StoreBytes

LEMMA FieldJump ==
  ASSUME Inv, JumpInv, EmitField, Inv'
  PROVE  JumpInv'
<1>1. /\ pc = "emitting" /\ fields # <<>> /\ call' = call
      /\ pc' = "emitting" \/ AbortRm
  <2>1. pc = "emitting" /\ fields # <<>>
    BY DEF EmitField, EmitBits, EmitReg, EmitMod, EmitRm, AbortRm, EmitDisp, EmitAddr, EmitByte, EmitImm16,
           EmitSr, EmitSize, EmitLabel, EmitPointer, At
  <2>2. EmitDisp => call' = call /\ pc' = pc
    BY DEF EmitDisp, Emit
  <2>3. EmitField => AbortRm \/ EmitDisp \/ (call' = call /\ pc' = pc)
    BY DEF EmitField, EmitBits, EmitReg, EmitMod, EmitRm, EmitAddr, EmitByte, EmitImm16,
           EmitSr, EmitSize, EmitLabel, EmitPointer, Emit
  <2>. QED  BY <2>1, <2>2, <2>3 DEF AbortRm
<1>2. patches' = patches \/ At("LBL") \/ At("LBL8")
  <2>1. EmitLabel => At("LBL") \/ At("LBL8")
    BY DEF EmitLabel
  <2>2. EmitDisp => patches' = patches
    BY DEF EmitDisp
  <2>3. EmitField => EmitDisp \/ EmitLabel \/ patches' = patches
    BY DEF EmitField, EmitBits, EmitReg, EmitMod, EmitRm, AbortRm, EmitAddr, EmitByte, EmitImm16,
           EmitSr, EmitSize, EmitPointer
  <2>. QED  BY <2>1, <2>2, <2>3
<1>3. patches' # <<>> => mnemonic \in JumpNames /\ "LABEL" \in dst.kind
  <2>1. CASE patches' = patches
    BY <2>1 DEF JumpInv
  <2>2. CASE At("LBL") \/ At("LBL8")
    BY <2>2, LabelField
  <2>. QED  BY <1>2, <2>1, <2>2
<1>. SUFFICES ASSUME IsJump
              PROVE  /\ pc' # "aborted" /\ pc' = "emitting" /\ src.kind = {}
                     /\ \/ /\ fields' = <<JumpField(mnemonic, IF ToLabel THEN "LABEL" ELSE "IMMEDIATE")>>
                           /\ Len(encoding') = 8 /\ patches' = <<>>
                        \/ fields' = <<>> /\ Filled'
  BY <1>1, <1>3, CallStays DEF JumpInv
<1>4. src.kind = {}
  BY <1>1 DEF JumpInv
<1>. DEFINE F == JumpField(mnemonic, IF ToLabel THEN "LABEL" ELSE "IMMEDIATE")
<1>5. F.id \in {"LBL", "LBL8", "IMM16", "IMM8"} /\ (ToLabel <=> F.id \in {"LBL", "LBL8"})
  BY DEF JumpField, LBL, LBL8, IMM16, IMM8, Field
<1>6. CASE /\ Len(fields) = 2 /\ fields[2] = F
           /\ fields[1].id = "BITS" /\ fields[1].len = 8
           /\ encoding = <<>> /\ patches = <<>>
  <2>1. fields \in Seq(Fields) /\ Len(encoding) = bitlen
    BY <1>1, FieldsLeft
  <2>2. Head(fields) = fields[1] /\ Tail(fields) = <<fields[2]>>
    <3>. HIDE DEF F
    <3>1. fields # <<>> /\ Len(fields) - 1 = 1 /\ 1 + 1 = 2
      BY <1>6
    <3>2. Tail(fields) \in Seq(Fields) /\ Len(Tail(fields)) = 1 /\ Tail(fields)[1] = fields[2]
      BY <2>1, <3>1, HeadTailProperties
    <3>3. Tail(fields) = <<fields[2]>>
      <4>. DEFINE s == Tail(fields)
                  x == fields[2]
      <4>1. s \in Seq(Fields) /\ Len(s) = 1 /\ s[1] = x
        BY <3>2
      <4>. HIDE DEF s, x
      <4>2. s = [k \in 1 .. 1 |-> s[k]]
        BY <4>1
      <4>3. s = <<x>>
        BY <4>1, <4>2
      <4>. QED  BY <4>3 DEF s, x
    <3>4. Head(fields) = fields[1]
      BY <2>1, <3>1
    <3>. QED  BY <3>2, <3>3, <3>4
  <2>3. EmitBits
    BY <1>6, <2>2 DEF EmitField, EmitBits, EmitReg, EmitMod, EmitRm, AbortRm, EmitDisp, EmitAddr, EmitByte,
                      EmitImm16, EmitSr, EmitSize, EmitLabel, EmitPointer, At
  <2>4. /\ fields' = Tail(fields) /\ patches' = <<>> /\ pc' = pc /\ bitlen' = bitlen + Head(fields).len
    BY <1>6, <2>3 DEF EmitBits, Emit
  <2>5. bitlen' = 8
    BY <1>6, <2>1, <2>2, <2>4
  <2>6. Len(encoding') = bitlen'
    <3>1. pc' = "emitting"
      BY <1>1, <2>4
    <3>2. PICK row : \E n : AtField(row, n)'
      BY <3>1 DEF Inv
    <3>. QED  BY <3>2 DEF AtField, Progress, IsBits
  <2>. QED  BY <1>1, <1>4, <1>6, <2>2, <2>4, <2>5, <2>6
<1>7. CASE fields = <<F>> /\ Len(encoding) = 8 /\ patches = <<>>
  <2>1. Head(fields) = F
    BY <1>7
  <2>2. IF ToLabel THEN EmitLabel ELSE EmitByte \/ EmitImm16
    <3>. HIDE DEF F
    <3>. QED  BY <1>5, <2>1
                 DEF EmitField, EmitBits, EmitReg, EmitMod, EmitRm, AbortRm, EmitDisp, EmitAddr, EmitByte,
                     EmitImm16, EmitSr, EmitSize, EmitLabel, EmitPointer, At
  <2>3. pc' = "emitting"
    BY <1>1, <2>2 DEF EmitLabel, EmitByte, EmitImm16, Emit
  <2>4. /\ fields' = <<>> /\ (Unknown => patches' = <<Place>>)
        /\ (~ Unknown => patches' = <<>> /\ encoding' = encoding \o JumpBits)
    <3>1. CASE ToLabel
      <4>1. fields = <<JumpField(mnemonic, "LABEL")>> /\ EmitLabel
        BY <1>7, <2>2, <3>1
      <4>. QED  BY <1>1, <1>7, <3>1, <4>1, OperandOfLabel
    <3>2. CASE ~ ToLabel
      <4>1. fields = <<JumpField(mnemonic, "IMMEDIATE")>> /\ (EmitByte \/ EmitImm16) /\ ToNumber
        BY <1>7, <2>2, <3>2 DEF IsJump
      <4>2. ~ Unknown
        BY <3>2 DEF Unknown
      <4>. QED  BY <1>1, <1>4, <1>7, <3>2, <4>1, <4>2, OperandOfNumber
    <3>. QED  BY <3>1, <3>2
  <2>5. Filled'
    <3>1. CASE Unknown
      BY <1>1, <2>4, <3>1, CallStays DEF Filled
    <3>2. CASE ~ Unknown
      <4>1. IsCall(call) /\ encoding \in Seq(Bit)
        BY <1>1, FieldsLeft DEF Inv
      <4>. QED  BY <1>1, <1>7, <2>4, <3>2, <4>1, OperandFilled
    <3>. QED  BY <3>1, <3>2
  <2>. QED  BY <1>4, <2>3, <2>4, <2>5
<1>. QED  BY <1>1, <1>6, <1>7 DEF JumpInv

LEMMA StepJump == Inv /\ JumpInv /\ [Next]_vars => JumpInv'
<1>. SUFFICES ASSUME Inv, JumpInv, [Next]_vars PROVE JumpInv'
  OBVIOUS
<1>0. Inv'
  BY StepInv
<1>1. CASE FindRow
  BY <1>1, SearchJump
<1>2. CASE EmitField
  BY <1>0, <1>2, FieldJump
<1>3. CASE NoRow
  <2>1. call' = call /\ patches' = patches /\ pc' = "dropped"
    BY <1>3 DEF NoRow
  <2>. QED  BY <2>1, CallStays DEF JumpInv
<1>4. CASE EndOfRow \/ StoreBytes \/ UNCHANGED vars
  <2>1. /\ call' = call /\ patches' = patches /\ encoding' = encoding /\ fields' = fields
        /\ \/ pc' = pc
           \/ pc = "emitting" /\ fields = <<>> /\ pc' = "storing"
           \/ pc = "storing" /\ pc' = "done"
    BY <1>4 DEF EndOfRow, StoreBytes, vars
  <2>2. Filled => Filled'
    BY <2>1, CallStays DEF Filled
  <2>3. fields = <<>> => Len(fields) = 0
    OBVIOUS
  <2>. QED  BY <2>1, <2>2, <2>3, CallStays DEF JumpInv
<1>. QED  BY <1>1, <1>2, <1>3, <1>4 DEF Next
-------------------------------------------------------------------------------
(* The bits of a byte make the byte again.                                           *)
LEMMA ByteAgain ==
  ASSUME NEW v \in 0 .. 255
  PROVE  v = 128 * BitsOf(v, 8)[1] + 64 * BitsOf(v, 8)[2] + 32 * BitsOf(v, 8)[3] + 16 * BitsOf(v, 8)[4]
             + 8 * BitsOf(v, 8)[5] + 4 * BitsOf(v, 8)[6] + 2 * BitsOf(v, 8)[7] + BitsOf(v, 8)[8]
<1>1. 2 ^ (8 - 1) = 128 /\ 2 ^ (8 - 2) = 64 /\ 2 ^ (8 - 3) = 32 /\ 2 ^ (8 - 4) = 16
      /\ 2 ^ (8 - 5) = 8 /\ 2 ^ (8 - 6) = 4 /\ 2 ^ (8 - 7) = 2 /\ 2 ^ (8 - 8) = 1
  OBVIOUS
<1>2. /\ BitsOf(v, 8)[1] = ((v \div 128) % 2) /\ BitsOf(v, 8)[2] = ((v \div 64) % 2)
      /\ BitsOf(v, 8)[3] = ((v \div 32) % 2) /\ BitsOf(v, 8)[4] = ((v \div 16) % 2)
      /\ BitsOf(v, 8)[5] = ((v \div 8) % 2) /\ BitsOf(v, 8)[6] = ((v \div 4) % 2)
      /\ BitsOf(v, 8)[7] = ((v \div 2) % 2) /\ BitsOf(v, 8)[8] = ((v \div 1) % 2)
  <2>1. \A k \in 1 .. 8 : BitsOf(v, 8)[k] = ((v \div 2 ^ (8 - k)) % 2)
    BY DEF BitsOf
  <2>2. /\ BitsOf(v, 8)[1] = ((v \div 2 ^ (8 - 1)) % 2) /\ BitsOf(v, 8)[2] = ((v \div 2 ^ (8 - 2)) % 2)
        /\ BitsOf(v, 8)[3] = ((v \div 2 ^ (8 - 3)) % 2) /\ BitsOf(v, 8)[4] = ((v \div 2 ^ (8 - 4)) % 2)
        /\ BitsOf(v, 8)[5] = ((v \div 2 ^ (8 - 5)) % 2) /\ BitsOf(v, 8)[6] = ((v \div 2 ^ (8 - 6)) % 2)
        /\ BitsOf(v, 8)[7] = ((v \div 2 ^ (8 - 7)) % 2) /\ BitsOf(v, 8)[8] = ((v \div 2 ^ (8 - 8)) % 2)
    BY <2>1
  <2>. QED  BY ONLY <1>1, <2>2, Zenon
<1>3. /\ v \div 128 = (v \div 128) % 2
      /\ v \div 64 = 2 * (v \div 128) + ((v \div 64) % 2)
      /\ v \div 32 = 2 * (v \div 64) + ((v \div 32) % 2)
      /\ v \div 16 = 2 * (v \div 32) + ((v \div 16) % 2)
      /\ v \div 8 = 2 * (v \div 16) + ((v \div 8) % 2)
      /\ v \div 4 = 2 * (v \div 8) + ((v \div 4) % 2)
      /\ v \div 2 = 2 * (v \div 4) + ((v \div 2) % 2)
      /\ v = 2 * (v \div 2) + ((v \div 1) % 2)
  OBVIOUS
<1>4. v = 128 * ((v \div 128) % 2) + 64 * ((v \div 64) % 2) + 32 * ((v \div 32) % 2) + 16 * ((v \div 16) % 2)
             + 8 * ((v \div 8) % 2) + 4 * ((v \div 4) % 2) + 2 * ((v \div 2) % 2) + ((v \div 1) % 2)
  BY <1>3
<1>. QED  BY <1>2, <1>4

LEMMA ByteOfBits ==
  ASSUME NEW m \in Nat, IsBits(encoding, 8 * m), bitlen = 8 * m, NEW i \in 1 .. m, NEW v \in 0 .. 255,
         \A k \in 1 .. 8 : encoding[8 * (i - 1) + k] = BitsOf(v, 8)[k]
  PROVE  Stored[i] = v
<1>1. \A k \in 1 .. 8 : b(i, k) = BitsOf(v, 8)[k]
  BY DEF b
<1>2. Stored[i] = 128 * b(i, 1) + 64 * b(i, 2) + 32 * b(i, 3) + 16 * b(i, 4)
                         + 8 * b(i, 5) + 4 * b(i, 6) + 2 * b(i, 7) + b(i, 8)
  BY StoredByte
<1>3. /\ b(i, 1) = BitsOf(v, 8)[1] /\ b(i, 2) = BitsOf(v, 8)[2] /\ b(i, 3) = BitsOf(v, 8)[3]
      /\ b(i, 4) = BitsOf(v, 8)[4] /\ b(i, 5) = BitsOf(v, 8)[5] /\ b(i, 6) = BitsOf(v, 8)[6]
      /\ b(i, 7) = BitsOf(v, 8)[7] /\ b(i, 8) = BitsOf(v, 8)[8]
  BY <1>1
<1>4. /\ b(i, 1) \in Bit /\ b(i, 2) \in Bit /\ b(i, 3) \in Bit /\ b(i, 4) \in Bit
      /\ b(i, 5) \in Bit /\ b(i, 6) \in Bit /\ b(i, 7) \in Bit /\ b(i, 8) \in Bit
  BY StoredByte
<1>5. v = 128 * b(i, 1) + 64 * b(i, 2) + 32 * b(i, 3) + 16 * b(i, 4)
                         + 8 * b(i, 5) + 4 * b(i, 6) + 2 * b(i, 7) + b(i, 8)
  <2>. DEFINE w == BitsOf(v, 8)
  <2>1. v = 128 * w[1] + 64 * w[2] + 32 * w[3] + 16 * w[4] + 8 * w[5] + 4 * w[6] + 2 * w[7] + w[8]
    BY ByteAgain
  <2>2. /\ b(i, 1) = w[1] /\ b(i, 2) = w[2] /\ b(i, 3) = w[3] /\ b(i, 4) = w[4]
        /\ b(i, 5) = w[5] /\ b(i, 6) = w[6] /\ b(i, 7) = w[7] /\ b(i, 8) = w[8]
    BY <1>3
  <2>. HIDE DEF w
  <2>. QED  BY ONLY <2>1, <2>2
<1>. QED  BY <1>2, <1>5

(* The bytes that codegen makes of a number are those of the number that was meant:     *)
(* the casts to s16 leave them alone.                                                  *)
LEMMA SameWord ==
  ASSUME IsCall(call), IsJump
  PROVE  /\ Emitted \in Int /\ Distance \in Int
         /\ (U16(Emitted) % 256) = Distance % 256
         /\ U16(Emitted) \div 256 = (Distance \div 256) % 256
<1>1. dst.imm \in Int /\ call.ip \in Int /\ call.pos \in Int /\ OperandLen \in {1, 2}
      /\ (mnemonic # "JMP" => OperandLen = 1)
  BY CallFacts, S16Type DEF IsOperand, OperandLen
<1>2. Emitted \in Int /\ Distance \in Int
  BY <1>1, EmittedInt DEF Distance
<1>3. U16(Emitted) = Distance % 65536
  <2>1. CASE ToLabel
    <3>1. Emitted = S16(call.pos) - S16(call.ip + OperandLen + 1)
          /\ Distance = call.pos - (call.ip + 1 + OperandLen)
      BY <2>1 DEF Emitted, Distance
    <3>. QED  BY <1>1, <3>1 DEF U16, S16
  <2>2. CASE ~ ToLabel /\ mnemonic = "JMP"
    <3>1. Emitted = S16(dst.imm - (call.ip + 3)) /\ Distance = dst.imm - (call.ip + 3)
      BY <2>2 DEF Emitted, Distance
    <3>. QED  BY <1>1, <3>1 DEF U16, S16
  <2>3. CASE ~ ToLabel /\ mnemonic # "JMP"
    <3>1. Emitted = Distance
      BY <2>3 DEF Emitted, Distance
    <3>. QED  BY <3>1 DEF U16
  <2>. QED  BY <2>1, <2>2, <2>3
<1>4. \A d \in Int : ((d % 65536) % 256) = d % 256 /\ (d % 65536) \div 256 = (d \div 256) % 256
  OBVIOUS
<1>. QED  BY <1>2, <1>3, <1>4

LEMMA InvJump == Inv /\ JumpInv => JumpEncoded
<1>. SUFFICES ASSUME Inv, JumpInv, pc = "done", IsJump
              PROVE  /\ Len(bytes) = 1 + OperandLen
                     /\ IF Unknown
                        THEN patches = <<Place>> /\ \A k \in 2 .. Len(bytes) : bytes[k] = 0
                        ELSE /\ patches = <<>>
                             /\ bytes[2] = Distance % 256
                             /\ OperandLen = 2 => bytes[3] = (Distance \div 256) % 256
  BY DEF JumpEncoded, JumpInv
<1>1. Filled /\ IsCall(call) /\ bytes = Stored
  BY DEF JumpInv, Inv
<1>2. PICK m \in 1 .. 6 : bitlen = 8 * m /\ IsBits(encoding, 8 * m)
  <2>1. PICK row \in HitRows : \E n \in 0 .. Len(row.fields) : AtField(row, n)
    BY DEF Inv
  <2>. QED  BY <2>1, RowEnds DEF Inv
<1>3. OperandLen \in {1, 2}
  BY DEF OperandLen
<1>4. CASE Unknown
  <2>1. patches = <<Place>> /\ patches # <<>> /\ patches[1] = Place
    BY <1>1, <1>4 DEF Filled
  <2>2. Place.inst_pointer = call.ip + 1 /\ Place.bytelen = OperandLen
    BY DEF Place
  <2>3. Len(bytes) = m /\ call.ip \in Int
    BY <1>1, <1>2, StoredType, CallFacts
  <2>. DEFINE p == patches[1]
  <2>4. p.inst_pointer = call.ip + 1 /\ p.bytelen = OperandLen
    BY <2>1, <2>2
  <2>5. /\ p.inst_pointer + p.bytelen = call.ip + Len(bytes)
        /\ \A k \in p.inst_pointer - call.ip + 1 .. Len(bytes) : bytes[k] = 0
    <3>1. HoleAtPatch
      BY InvHole
    <3>. QED  BY ONLY <2>1, <3>1, pc = "done" DEF HoleAtPatch
  <2>. HIDE DEF p
  <2>6. call.ip + 1 + OperandLen = call.ip + Len(bytes)
    BY ONLY <2>4, <2>5, Zenon
  <2>7. Len(bytes) = 1 + OperandLen
    BY ONLY <1>3, <2>3, <2>6, m \in 1 .. 6
  <2>8. ASSUME NEW k \in 2 .. Len(bytes) PROVE bytes[k] = 0
    <3>1. k \in p.inst_pointer - call.ip + 1 .. Len(bytes)
      BY ONLY <2>3, <2>4, <2>8, m \in 1 .. 6
    <3>. QED  BY <2>5, <3>1
  <2>. QED  BY <1>4, <2>1, <2>7, <2>8
<1>5. CASE ~ Unknown
  <2>1. patches = <<>> /\ Len(encoding) = 8 + 8 * OperandLen
        /\ \A k \in 1 .. 8 * OperandLen : encoding[8 + k] = JumpBits[k]
    BY <1>1, <1>5 DEF Filled
  <2>2. m = 1 + OperandLen /\ Len(bytes) = m
    BY <1>1, <1>2, <1>3, <2>1, StoredType DEF IsBits
  <2>. DEFINE low == U16(Emitted) % 256
              high == U16(Emitted) \div 256
  <2>3. low \in 0 .. 255 /\ high \in 0 .. 255
    BY <1>1, SameWord DEF U16
  <2>4. IsBits(BitsOf(low, 8), 8) /\ IsBits(BitsOf(high, 8), 8)
    BY <2>3, BitsOfType
  <2>5. \A k \in 1 .. 8 : JumpBits[k] = BitsOf(low, 8)[k]
    <3>. DEFINE l == BitsOf(low, 8)
                h == BitsOf(high, 8)
    <3>1. JumpBits = l \/ JumpBits = l \o h
      BY DEF JumpBits, Low, LowHigh
    <3>. HIDE DEF l, h, low, high
    <3>2. l \in Seq(Bit) /\ h \in Seq(Bit) /\ Len(l) = 8 /\ Len(h) = 8
      BY <2>4 DEF IsBits, l, h
    <3>3. \A i \in 1 .. Len(l) + Len(h) : (l \o h)[i] = IF i <= Len(l) THEN l[i] ELSE h[i - Len(l)]
      BY <3>2, ConcatProperties
    <3>4. \A k \in 1 .. 8 : k \in 1 .. Len(l) + Len(h) /\ k <= Len(l)
      BY <3>2
    <3>. QED  BY <3>1, <3>3, <3>4 DEF l
  <2>6. bytes[2] = low
    <3>1. \A k \in 1 .. 8 : encoding[8 * (2 - 1) + k] = BitsOf(low, 8)[k]
      <4>. SUFFICES ASSUME NEW k \in 1 .. 8 PROVE encoding[8 * (2 - 1) + k] = BitsOf(low, 8)[k]
        OBVIOUS
      <4>. HIDE DEF low
      <4>1. k \in 1 .. 8 * OperandLen /\ 8 * (2 - 1) + k = 8 + k
        BY <1>3
      <4>. QED  BY <2>1, <2>5, <4>1
    <3>2. 2 \in 1 .. m /\ m \in Nat
      BY <1>3, <2>2
    <3>. HIDE DEF low
    <3>. QED  BY <1>1, <1>2, <2>3, <3>1, <3>2, ByteOfBits
  <2>7. OperandLen = 2 => bytes[3] = high
    <3>. SUFFICES ASSUME OperandLen = 2 PROVE bytes[3] = high
      OBVIOUS
    <3>. DEFINE l == BitsOf(low, 8)
                h == BitsOf(high, 8)
    <3>1. JumpBits = l \o h
      BY DEF JumpBits, Low, LowHigh
    <3>2. \A k \in 1 .. 8 : JumpBits[8 + k] = h[k]
      <4>. HIDE DEF l, h, low, high
      <4>1. l \in Seq(Bit) /\ h \in Seq(Bit) /\ Len(l) = 8 /\ Len(h) = 8
        BY <2>4 DEF IsBits, l, h
      <4>2. \A i \in 1 .. Len(l) + Len(h) : (l \o h)[i] = IF i <= Len(l) THEN l[i] ELSE h[i - Len(l)]
        BY <4>1, ConcatProperties
      <4>. SUFFICES ASSUME NEW k \in 1 .. 8 PROVE JumpBits[8 + k] = h[k]
        OBVIOUS
      <4>3. 8 + k \in 1 .. Len(l) + Len(h) /\ ~ (8 + k <= Len(l)) /\ (8 + k) - Len(l) = k
        BY <4>1
      <4>4. (l \o h)[8 + k] = h[(8 + k) - Len(l)]
        BY <4>2, <4>3
      <4>. QED  BY <3>1, <4>3, <4>4
    <3>3. \A k \in 1 .. 8 : encoding[8 * (3 - 1) + k] = h[k]
      <4>. SUFFICES ASSUME NEW k \in 1 .. 8 PROVE encoding[8 * (3 - 1) + k] = h[k]
        OBVIOUS
      <4>. HIDE DEF h
      <4>1. 8 + k \in 1 .. 8 * OperandLen /\ 8 * (3 - 1) + k = 8 + (8 + k)
        OBVIOUS
      <4>. QED  BY <2>1, <3>2, <4>1
    <3>4. 3 \in 1 .. m /\ m \in Nat
      BY <2>2
    <3>. HIDE DEF low, high
    <3>. QED  BY <1>1, <1>2, <2>3, <3>3, <3>4, ByteOfBits DEF h
  <2>. QED  BY <1>1, <1>5, <2>1, <2>2, <2>6, <2>7, SameWord DEF low, high
<1>. QED  BY <1>4, <1>5

(* A jump to a place that is known has the distance to it in its bytes, whatever the     *)
(* address and the distance, as far as two bytes or one go; a jump to one that is not    *)
(* known is recorded, and nothing else is (codegen.c:230-240, 322-381).                 *)
THEOREM JumpsCorrect == Spec => []JumpEncoded
BY InitBegun, Invariance, JumpInit, StepJump, InvJump, PTL DEF Spec
===============================================================================
