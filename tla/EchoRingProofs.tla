---------------------------- MODULE EchoRingProofs ----------------------------
(***************************************************************************)
(* Proofs about EchoRing, for any set of clients, any greeting and any word *)
(* size.                                                                    *)
(***************************************************************************)
EXTENDS EchoRing, SequenceTheorems, TLAPS

-------------------------------------------------------------------------------
(* Remainders by any divisor.                                               *)

LEMMA DivMod ==
  ASSUME NEW m \in Nat \ {0}, NEW x \in Nat
  PROVE  \E q \in Int, r \in 0..(m - 1) : x % m = r /\ x = m * q + r
<1>1. x \div m \in Int /\ x % m \in 0..(m - 1) /\ x = m * (x \div m) + (x % m)
  OBVIOUS
<1> QED BY <1>1

(* A multiple of m that lies strictly between -m and m is 0.                *)
LEMMA SmallMultiple ==
  ASSUME NEW m \in Nat \ {0}, NEW k \in Int, NEW d \in Int, -m < d, d < m, m * k = d
  PROVE  d = 0
<1>1. CASE k >= 1
  <2>1. m * k >= m
    BY <1>1
  <2> QED BY <2>1
<1>2. CASE k <= -1
  <2>1. m * k <= -m
    BY <1>2
  <2> QED BY <2>1
<1> QED BY <1>1, <1>2

(* The remainder is determined by the equation that defines it.             *)
LEMMA ModUnique ==
  ASSUME NEW m \in Nat \ {0}, NEW x \in Nat, NEW q \in Int, NEW r \in 0..(m - 1), x = m * q + r
  PROVE  x % m = r
<1>1. PICK p \in Int, s \in 0..(m - 1) : x % m = s /\ x = m * p + s
  BY DivMod
<1>2. PICK k \in Int, d \in Int : k = p - q /\ d = r - s
  OBVIOUS
<1>3. m * k = d
  BY <1>1, <1>2
<1>4. -m < d /\ d < m
  BY <1>2
<1>5. d = 0
  BY <1>3, <1>4, SmallMultiple
<1> QED BY <1>1, <1>2, <1>5

LEMMA ModSmall ==
  ASSUME NEW m \in Nat \ {0}, NEW x \in Nat, x < m
  PROVE  x % m = x
<1>1. x = m * 0 + x /\ x \in 0..(m - 1)
  OBVIOUS
<1> QED BY <1>1, ModUnique

LEMMA ModAdd ==
  ASSUME NEW m \in Nat \ {0}, NEW x \in Nat
  PROVE  (x + m) % m = x % m
<1>1. PICK p \in Int, s \in 0..(m - 1) : x % m = s /\ x = m * p + s
  BY DivMod
<1>2. x + m = m * (p + 1) + s /\ p + 1 \in Int /\ x + m \in Nat
  BY <1>1
<1>3. (x + m) % m = s
  BY <1>2, ModUnique
<1> QED BY <1>1, <1>3

(* Adding before or after a remainder is taken is the same.                 *)
LEMMA ModOfSum ==
  ASSUME NEW m \in Nat \ {0}, NEW x \in Nat, NEW y \in Nat
  PROVE  ((x % m) + y) % m = (x + y) % m
<1>1. PICK p \in Int, s \in 0..(m - 1) : x % m = s /\ x = m * p + s
  BY DivMod
<1> s + y \in Nat
  OBVIOUS
<1>2. PICK q \in Int, r \in 0..(m - 1) : (s + y) % m = r /\ s + y = m * q + r
  BY DivMod
<1>3. x + y = m * (p + q) + r /\ p + q \in Int /\ x + y \in Nat
  BY <1>1, <1>2
<1>4. (x + y) % m = r
  BY <1>3, ModUnique
<1> QED BY <1>1, <1>2, <1>4

(* The remainder by twice m decides the remainder by m.                     *)
LEMMA ModOfDouble ==
  ASSUME NEW m \in Nat \ {0}, NEW x \in Nat
  PROVE  (x % (2 * m)) % m = x % m
<1> 2 * m \in Nat \ {0}
  OBVIOUS
<1>1. PICK p \in Int, s \in 0..(2 * m - 1) : x % (2 * m) = s /\ x = 2 * m * p + s
  BY DivMod
<1> s \in Nat
  OBVIOUS
<1>2. PICK q \in Int, r \in 0..(m - 1) : s % m = r /\ s = m * q + r
  BY <1>1, DivMod
<1>3. x = m * (2 * p + q) + r /\ 2 * p + q \in Int
  BY <1>1, <1>2
<1>4. x % m = r
  BY <1>3, ModUnique
<1> QED BY <1>1, <1>2, <1>4

-------------------------------------------------------------------------------
(* Sequences of bytes.  The proofs below use only these facts about them,   *)
(* and never the definitions of Bytes, Cat, Take and Drop.                  *)

Bytes == Seq(ToSet(Greeting))
Cat(s, t) == s \o t

LEMMA LenOfBytes == \A s \in Bytes : Len(s) \in Nat
  BY DEF Bytes

LEMMA NoBytes == <<>> \in Bytes /\ Len(<<>>) = 0
  BY DEF Bytes

LEMMA OnlyNoBytes == \A s \in Bytes : Len(s) = 0 => s = <<>>
  BY DEF Bytes

(* One buffer behind another.                                               *)
LEMMA CatBytes ==
  \A s, t \in Bytes : Cat(s, t) \in Bytes /\ Len(Cat(s, t)) = Len(s) + Len(t)
  BY DEF Bytes, Cat

LEMMA CatAt ==
  \A s, t \in Bytes : /\ \A i \in 1..Len(s) : Cat(s, t)[i] = s[i]
                      /\ \A i \in 1..Len(t) : Cat(s, t)[Len(s) + i] = t[i]
  BY DEF Bytes, Cat

LEMMA CatAssoc == \A s, t, u \in Bytes : Cat(Cat(s, t), u) = Cat(s, Cat(t, u))
  BY DEF Bytes, Cat

LEMMA BytesEqual ==
  \A s, t \in Bytes : Len(s) = Len(t) /\ (\A i \in 1..Len(s) : s[i] = t[i]) => s = t
  BY SeqEqual DEF Bytes

(* Nothing in front of a buffer, or behind it.                              *)
LEMMA CatNothing == \A s \in Bytes : Cat(<<>>, s) = s /\ Cat(s, <<>>) = s
<1> TAKE s \in Bytes
<1>1. Len(s) \in Nat
  BY LenOfBytes
<1>2. Cat(<<>>, s) = s
  <2> DEFINE w == Cat(<<>>, s)
  <2>1. w \in Bytes /\ Len(w) = 0 + Len(s)
    BY NoBytes, CatBytes
  <2>2. \A i \in 1..Len(s) : w[0 + i] = s[i]
    BY NoBytes, CatAt
  <2> HIDE DEF w
  <2>3. \A i \in 1..Len(w) : w[i] = s[i]
    BY <1>1, <2>1, <2>2
  <2>4. Len(w) = Len(s)
    BY <1>1, <2>1
  <2>5. w = s
    BY <2>1, <2>3, <2>4, BytesEqual
  <2> QED BY <2>5 DEF w
<1>3. Cat(s, <<>>) = s
  <2> DEFINE w == Cat(s, <<>>)
  <2>1. w \in Bytes /\ Len(w) = Len(s) + 0
    BY NoBytes, CatBytes
  <2>2. \A i \in 1..Len(s) : w[i] = s[i]
    BY NoBytes, CatAt
  <2> HIDE DEF w
  <2>3. Len(w) = Len(s)
    BY <1>1, <2>1
  <2>4. w = s
    BY <2>1, <2>2, <2>3, BytesEqual
  <2> QED BY <2>4 DEF w
<1> QED BY <1>2, <1>3

(* Cutting a buffer in two.                                                 *)
LEMMA CutBytes ==
  ASSUME NEW s \in Bytes, NEW n \in 0..Len(s)
  PROVE  /\ Take(s, n) \in Bytes /\ Drop(s, n) \in Bytes
         /\ Len(Take(s, n)) = n
         /\ s = Cat(Take(s, n), Drop(s, n))
<1> DEFINE t == Take(s, n)
           u == Drop(s, n)
           m == Len(s)
<1>1. m \in Nat /\ n \in Nat /\ n <= m /\ m - n \in Nat
  BY LenOfBytes
<1>2. t \in Bytes /\ Len(t) = n /\ \A i \in 1..n : t[i] = s[i]
  BY DEF Take, Bytes
<1>3. u \in Bytes /\ Len(u) = m - n /\ \A i \in 1..(m - n) : u[i] = s[n + i]
  BY DEF Drop, Bytes
<1> HIDE DEF t, u
<1> DEFINE w == Cat(t, u)
<1>4. w \in Bytes /\ Len(w) = n + (m - n)
  BY <1>2, <1>3, CatBytes
<1>5. /\ \A i \in 1..n : w[i] = t[i]
      /\ \A i \in 1..(m - n) : w[n + i] = u[i]
  <2>1. /\ \A i \in 1..Len(t) : w[i] = t[i]
        /\ \A i \in 1..Len(u) : w[Len(t) + i] = u[i]
    BY <1>2, <1>3, CatAt
  <2> HIDE DEF w
  <2> QED BY <1>1, <1>2, <1>3, <2>1
<1> HIDE DEF w
<1>6. ASSUME NEW i \in 1..m PROVE w[i] = s[i]
  <2>1. CASE i <= n
    BY <1>1, <1>2, <1>5, <2>1
  <2>2. CASE ~(i <= n)
    <3>1. PICK j \in 1..(m - n) : i = n + j
      <4>1. i - n \in 1..(m - n) /\ i = n + (i - n)
        BY <1>1, <2>2
      <4> QED BY <4>1
    <3> QED BY <1>3, <1>5, <3>1
  <2> QED BY <2>1, <2>2
<1>7. Len(w) = m
  BY <1>1, <1>4
<1>8. w = s
  BY <1>4, <1>6, <1>7, BytesEqual
<1> QED BY <1>2, <1>3, <1>8 DEF w, t, u

(* Cutting where two buffers meet.                                          *)
LEMMA CutCat ==
  ASSUME NEW t \in Bytes, NEW u \in Bytes
  PROVE  Take(Cat(t, u), Len(t)) = t /\ Drop(Cat(t, u), Len(t)) = u
<1>1. PICK w \in Bytes : w = Cat(t, u)
  BY CatBytes
<1>2. Len(w) = Len(t) + Len(u) /\ Len(t) \in Nat /\ Len(u) \in Nat
  BY <1>1, CatBytes, LenOfBytes
<1>3. PICK n \in 0..Len(w) : n = Len(t)
  BY <1>2
<1>4. PICK x \in Bytes, y \in Bytes :
        Take(w, n) = x /\ Drop(w, n) = y /\ Len(x) = n /\ w = Cat(x, y)
  BY CutBytes
<1>5. Len(w) = Len(x) + Len(y) /\ Len(y) \in Nat
  <2>1. Len(Cat(x, y)) = Len(x) + Len(y) /\ Len(y) \in Nat
    BY CatBytes, LenOfBytes
  <2> QED BY <1>4, <2>1
<1>6. Len(y) = Len(u)
  BY <1>2, <1>3, <1>4, <1>5
<1>7. /\ \A i \in 1..Len(t) : w[i] = t[i]
      /\ \A i \in 1..Len(u) : w[Len(t) + i] = u[i]
  BY <1>1, CatAt, ZenonT(60)
<1>8. /\ \A i \in 1..Len(x) : w[i] = x[i]
      /\ \A i \in 1..Len(y) : w[Len(x) + i] = y[i]
  <2>1. /\ \A i \in 1..Len(x) : Cat(x, y)[i] = x[i]
        /\ \A i \in 1..Len(y) : Cat(x, y)[Len(x) + i] = y[i]
    BY CatAt
  <2> QED BY <1>4, <2>1
<1>9. x = t
  <2>1. \A i \in 1..Len(x) : x[i] = t[i]
    BY <1>3, <1>4, <1>7, <1>8
  <2> QED BY <1>3, <1>4, <2>1, BytesEqual
<1>10. y = u
  <2>1. \A i \in 1..Len(y) : y[i] = u[i]
    BY <1>3, <1>4, <1>6, <1>7, <1>8
  <2> QED BY <1>6, <2>1, BytesEqual
<1> QED BY <1>1, <1>3, <1>4, <1>9, <1>10

(* Where between two neighbours in a ring a byte is does not show in it.    *)
Four(a, b, c, d) == Cat(Cat(Cat(a, b), c), d)

LEMMA MoveIntoFirst ==
  ASSUME NEW a \in Bytes, NEW b \in Bytes, NEW n \in 0..Len(b)
  PROVE  Cat(Cat(a, Take(b, n)), Drop(b, n)) = Cat(a, b)
  BY CutBytes, CatAssoc

LEMMA MoveIntoSecond ==
  ASSUME NEW a \in Bytes, NEW b \in Bytes, NEW c \in Bytes, NEW n \in 0..Len(c)
  PROVE  Cat(Cat(a, Cat(b, Take(c, n))), Drop(c, n)) = Cat(Cat(a, b), c)
<1>1. PICK t \in Bytes, u \in Bytes : Take(c, n) = t /\ Drop(c, n) = u /\ c = Cat(t, u)
  BY CutBytes
<1>2. Cat(a, b) \in Bytes /\ Cat(a, Cat(b, t)) = Cat(Cat(a, b), t)
  BY CatBytes, CatAssoc
<1> QED BY <1>1, <1>2, CatAssoc

LEMMA MoveIntoThird ==
  ASSUME NEW a \in Bytes, NEW b \in Bytes, NEW c \in Bytes, NEW d \in Bytes,
         NEW n \in 0..Len(d)
  PROVE  Four(a, b, Cat(c, Take(d, n)), Drop(d, n)) = Four(a, b, c, d)
<1>1. Cat(a, b) \in Bytes
  BY CatBytes
<1> QED BY <1>1, MoveIntoSecond DEF Four

(* A ring from its first buffer on.                                         *)
LEMMA FourFromFirst ==
  ASSUME NEW a \in Bytes, NEW b \in Bytes, NEW c \in Bytes, NEW d \in Bytes
  PROVE  /\ Four(a, b, c, d) \in Bytes
         /\ Cat(Cat(b, c), d) \in Bytes
         /\ Four(a, b, c, d) = Cat(a, Cat(Cat(b, c), d))
<1>1. Cat(b, c) \in Bytes /\ Cat(Cat(b, c), d) \in Bytes /\ Cat(a, b) \in Bytes
  BY CatBytes
<1>2. Cat(Cat(a, b), c) = Cat(a, Cat(b, c))
  BY CatAssoc
<1>3. Cat(Cat(a, Cat(b, c)), d) = Cat(a, Cat(Cat(b, c), d))
  BY <1>1, CatAssoc
<1> QED BY <1>1, <1>2, <1>3, CatBytes DEF Four

(* Reading n bytes of the first buffer into the last turns the ring by n.   *)
LEMMA TurnFour ==
  ASSUME NEW a \in Bytes, NEW b \in Bytes, NEW c \in Bytes, NEW d \in Bytes,
         NEW n \in 0..Len(a)
  PROVE  /\ Four(Drop(a, n), b, c, d) \in Bytes
         /\ Four(a, b, c, d) = Cat(Take(a, n), Four(Drop(a, n), b, c, d))
         /\ Four(Drop(a, n), b, c, Cat(d, Take(a, n)))
              = Cat(Four(Drop(a, n), b, c, d), Take(a, n))
<1>1. PICK t \in Bytes, x \in Bytes :
        Take(a, n) = t /\ Drop(a, n) = x /\ Len(t) = n /\ a = Cat(t, x)
  BY CutBytes
<1>2. PICK bcd \in Bytes : bcd = Cat(Cat(b, c), d) /\ Four(a, b, c, d) = Cat(a, bcd)
  BY FourFromFirst
<1>3. PICK u \in Bytes : u = Cat(x, bcd) /\ u = Four(x, b, c, d)
  BY <1>2, FourFromFirst, CatBytes
<1>4. Four(a, b, c, d) = Cat(t, u)
  <2>1. Cat(Cat(t, x), bcd) = Cat(t, Cat(x, bcd))
    BY CatAssoc
  <2> QED BY <1>1, <1>2, <1>3, <2>1
<1>5. PICK xbc \in Bytes : xbc = Cat(Cat(x, b), c)
  BY CatBytes
<1>6. Cat(Cat(xbc, d), t) = Cat(xbc, Cat(d, t))
  BY CatAssoc
<1>7. Four(x, b, c, Cat(d, t)) = Cat(u, t)
  BY <1>3, <1>5, <1>6 DEF Four
<1> QED BY <1>1, <1>3, <1>4, <1>7

-------------------------------------------------------------------------------
(* The greeting over and over.                                              *)

(* Byte j, from 0, of the greeting repeated for ever; and that w is what    *)
(* comes after k bytes of it.                                               *)
At(j) == Greeting[(j % Len(Greeting)) + 1]
Right(w, k) == \A i \in 1..Len(w) : w[i] = At(k + i - 1)

LEMMA LenOfGreeting == Greeting \in Bytes /\ Len(Greeting) \in Nat \ {0}
<1>1. Greeting \in Bytes
  BY GreetingAssumption DEF Bytes
<1> QED BY <1>1, LenOfBytes, GreetingAssumption

LEMMA AtPeriod == \A j \in Nat : At(j + Len(Greeting)) = At(j)
  BY LenOfGreeting, ModAdd DEF At

LEMMA AtDouble ==
  ASSUME NEW j \in Nat, NEW i \in Nat
  PROVE  At((j % (2 * Len(Greeting))) + i) = At(j + i)
<1>1. PICK m \in Nat \ {0} : m = Len(Greeting)
  BY LenOfGreeting
<1>2. PICK x \in Nat : x = j % (2 * m)
  OBVIOUS
<1>3. x % m = j % m
  BY <1>2, ModOfDouble
<1>4. ((x % m) + i) % m = (x + i) % m
  BY ModOfSum
<1>5. ((j % m) + i) % m = (j + i) % m
  BY ModOfSum
<1>6. (x + i) % m = (j + i) % m
  BY <1>3, <1>4, <1>5
<1> QED BY <1>1, <1>2, <1>6 DEF At

LEMMA RightNothing == \A k \in Nat : Right(<<>>, k)
  BY NoBytes DEF Right

LEMMA RightGreeting == Right(Greeting, 0)
<1> DEFINE m == Len(Greeting)
<1>1. m \in Nat \ {0}
  BY LenOfGreeting
<1>2. ASSUME NEW i \in 1..m PROVE Greeting[i] = At(0 + i - 1)
  <2>1. i - 1 \in Nat /\ i - 1 < m /\ 0 + i - 1 = i - 1
    BY <1>1
  <2>2. (i - 1) % m = i - 1
    BY <1>1, <2>1, ModSmall
  <2> QED BY <1>1, <2>1, <2>2 DEF At
<1> QED BY <1>2 DEF Right

(* What comes first, and what comes after it.                               *)
LEMMA RightCat ==
  ASSUME NEW t \in Bytes, NEW u \in Bytes, NEW k \in Nat
  PROVE  Right(Cat(t, u), k) <=> Right(t, k) /\ Right(u, k + Len(t))
<1>1. PICK w \in Bytes : w = Cat(t, u)
  BY CatBytes
<1>2. PICK m \in Nat, n \in Nat : m = Len(t) /\ n = Len(u)
  BY LenOfBytes
<1>3. Len(w) = m + n
  BY <1>1, <1>2, CatBytes
<1>4. /\ \A i \in 1..m : w[i] = t[i]
      /\ \A i \in 1..n : w[m + i] = u[i]
  BY <1>1, <1>2, CatAt
<1>5. ASSUME Right(w, k) PROVE Right(t, k) /\ Right(u, k + m)
  <2>0. \A i \in 1..(m + n) : w[i] = At(k + i - 1)
    BY <1>3, <1>5 DEF Right
  <2>1. ASSUME NEW i \in 1..m PROVE t[i] = At(k + i - 1)
    <3>1. i \in 1..(m + n)
      OBVIOUS
    <3> QED BY <1>4, <2>0, <3>1
  <2>2. ASSUME NEW i \in 1..n PROVE u[i] = At(k + m + i - 1)
    <3>1. m + i \in 1..(m + n) /\ k + (m + i) - 1 = k + m + i - 1
      OBVIOUS
    <3>2. w[m + i] = At(k + (m + i) - 1)
      BY <2>0, <3>1
    <3> QED BY <1>4, <3>1, <3>2
  <2> QED BY <1>2, <2>1, <2>2 DEF Right
<1>6. ASSUME Right(t, k), Right(u, k + m) PROVE Right(w, k)
  <2>1. \A i \in 1..m : t[i] = At(k + i - 1)
    BY <1>2, <1>6 DEF Right
  <2>2. \A i \in 1..n : u[i] = At(k + m + i - 1)
    BY <1>2, <1>6 DEF Right
  <2>3. ASSUME NEW i \in 1..(m + n) PROVE w[i] = At(k + i - 1)
    <3>1. CASE i <= m
      BY <1>4, <2>1, <3>1
    <3>2. CASE ~(i <= m)
      <4>1. PICK j \in 1..n : i = m + j
        <5>1. i - m \in 1..n /\ i = m + (i - m)
          BY <3>2
        <5> QED BY <5>1
      <4>2. k + m + j - 1 = k + i - 1
        BY <4>1
      <4>3. w[i] = u[j]
        BY <1>4, <4>1
      <4> QED BY <2>2, <4>2, <4>3
    <3> QED BY <3>1, <3>2
  <2> QED BY <1>3, <2>3 DEF Right
<1> QED BY <1>1, <1>2, <1>5, <1>6

(* A whole greeting later everything is as before.                          *)
LEMMA RightPeriod ==
  ASSUME NEW w \in Bytes, NEW k \in Nat, Right(w, k)
  PROVE  Right(w, k + Len(Greeting))
<1>1. PICK m \in Nat : m = Len(Greeting)
  BY LenOfGreeting
<1>2. ASSUME NEW i \in 1..Len(w) PROVE w[i] = At(k + m + i - 1)
  <2>1. k + i - 1 \in Nat /\ (k + i - 1) + m = k + m + i - 1
    BY LenOfBytes
  <2>2. At((k + i - 1) + m) = At(k + i - 1)
    BY <1>1, <2>1, AtPeriod
  <2>3. w[i] = At(k + i - 1)
    BY DEF Right
  <2> QED BY <2>1, <2>2, <2>3
<1> QED BY <1>1, <1>2 DEF Right

LEMMA RightDouble ==
  ASSUME NEW w \in Bytes, NEW k \in Nat, Right(w, k)
  PROVE  Right(w, k % (2 * Len(Greeting)))
<1>1. PICK x \in Nat : x = k % (2 * Len(Greeting))
  BY LenOfGreeting
<1>2. ASSUME NEW i \in 1..Len(w) PROVE w[i] = At(x + i - 1)
  <2>1. PICK j \in Nat : j = i - 1
    BY LenOfBytes
  <2>2. At(x + j) = At(k + j)
    BY <1>1, AtDouble
  <2>3. x + i - 1 = x + j /\ k + i - 1 = k + j
    BY <2>1, LenOfBytes
  <2>4. w[i] = At(k + i - 1)
    BY DEF Right
  <2> QED BY <2>2, <2>3, <2>4
<1> QED BY <1>1, <1>2 DEF Right

(* A ring that holds one greeting is right again after it has turned.       *)
LEMMA RightTurned ==
  ASSUME NEW t \in Bytes, NEW u \in Bytes, NEW k \in Nat,
         Right(Cat(t, u), k), Len(Cat(t, u)) = Len(Greeting)
  PROVE  Right(Cat(u, t), (k + Len(t)) % (2 * Len(Greeting)))
<1>1. PICK m \in Nat, n \in Nat : m = Len(t) /\ n = Len(u)
  BY LenOfBytes
<1>2. m + n = Len(Greeting)
  BY <1>1, CatBytes
<1>3. Right(t, k) /\ Right(u, k + m)
  BY <1>1, RightCat
<1>4. k + m \in Nat /\ (k + m) + n = k + (m + n)
  OBVIOUS
<1>5. Right(t, k + (m + n))
  BY <1>2, <1>3, RightPeriod
<1>6. Right(Cat(u, t), k + m)
  BY <1>1, <1>3, <1>4, <1>5, RightCat
<1>7. Cat(u, t) \in Bytes
  BY CatBytes
<1> QED BY <1>1, <1>4, <1>6, <1>7, RightDouble

-------------------------------------------------------------------------------
(* The inductive invariant.                                                 *)

Typed ==
  /\ server \in {"off", "up", "ended"}
  /\ client \in [Clients -> {"off", "connecting", "up", "freed", "ended"}]
  /\ bev \in [Clients -> {"none", "queued", "up", "freed"}]
  /\ sOut \in [Clients -> Bytes] /\ cOut \in [Clients -> Bytes]
  /\ s2c \in [Clients -> Bytes] /\ c2s \in [Clients -> Bytes]
  /\ offset \in [Clients -> 0..(2 * Len(Greeting) - 1)]

(* The bytes of a connection: none until the server has accepted it; from   *)
(* then on, while both ends are there, one greeting, in order from the byte *)
(* the server reads next; and what the client has sent is right even when   *)
(* the client is gone.                                                      *)
RingInv(c) ==
  /\ bev[c] \in {"none", "queued"} =>
       /\ sOut[c] = <<>> /\ cOut[c] = <<>> /\ s2c[c] = <<>> /\ c2s[c] = <<>>
       /\ offset[c] = 0
  /\ client[c] \in {"off", "connecting"} => bev[c] = "none"
  /\ bev[c] = "none" => client[c] # "up"
  /\ Linked(c) => /\ Len(Four(c2s[c], cOut[c], s2c[c], sOut[c])) = Len(Greeting)
                  /\ Right(Four(c2s[c], cOut[c], s2c[c], sOut[c]), offset[c])
  /\ Right(c2s[c], offset[c])

RingsInv == Typed /\ \A c \in Clients : RingInv(c)

(* A step leaves c alone.                                                   *)
Same(c) ==
  /\ client'[c] = client[c] /\ bev'[c] = bev[c]
  /\ sOut'[c] = sOut[c] /\ cOut'[c] = cOut[c]
  /\ s2c'[c] = s2c[c] /\ c2s'[c] = c2s[c]
  /\ offset'[c] = offset[c]

LEMMA SameRing ==
  ASSUME NEW c \in Clients, RingInv(c), Same(c)
  PROVE  RingInv(c)'
  BY DEF RingInv, Same, Linked

LEMMA BytesOf ==
  ASSUME Typed, NEW c \in Clients
  PROVE  /\ sOut[c] \in Bytes /\ cOut[c] \in Bytes /\ s2c[c] \in Bytes /\ c2s[c] \in Bytes
         /\ offset[c] \in Nat /\ offset[c] \in 0..(2 * Len(Greeting) - 1)
         /\ Len(Greeting) \in Nat \ {0}
  BY LenOfGreeting DEF Typed

(* The first buffer of a right ring is right.                               *)
LEMMA RightFirst ==
  ASSUME NEW a \in Bytes, NEW b \in Bytes, NEW c \in Bytes, NEW d \in Bytes, NEW k \in Nat,
         Right(Four(a, b, c, d), k)
  PROVE  Right(a, k)
<1>1. PICK v \in Bytes : Four(a, b, c, d) = Cat(a, v)
  BY FourFromFirst
<1> QED BY <1>1, RightCat

LEMMA InitRings == Init => RingsInv
<1> SUFFICES ASSUME Init PROVE RingsInv
  OBVIOUS
<1>1. Typed
  BY NoBytes, LenOfGreeting DEF Init, Empty, Typed
<1>2. ASSUME NEW c \in Clients PROVE RingInv(c)
  BY RightNothing DEF Init, Empty, RingInv, Linked
<1> QED BY <1>1, <1>2 DEF RingsInv

(* A read buffer goes behind what waits to be written: the model's operator.*)
LEMMA AddIsCat == \A s, t : evbuffer_add_buffer(s, t) = Cat(s, t)
  BY DEF evbuffer_add_buffer, Cat

(* Actions that move no byte.                                               *)
LEMMA QuietSteps ==
  ASSUME RingsInv, UNCHANGED ringVars, UNCHANGED offset,
         \/ init_test_server
         \/ timeout_cb
         \/ UNCHANGED vars
         \/ \E a \in Clients : init_echo(a) \/ Connected(a) \/ close_echo(a)
  PROVE  RingsInv'
<1>1. CASE init_test_server \/ timeout_cb \/ UNCHANGED vars
  <2>1. Typed'
    BY <1>1 DEF RingsInv, Typed, init_test_server, timeout_cb, vars, ringVars
  <2>2. \A c \in Clients : Same(c)
    BY <1>1 DEF Same, init_test_server, timeout_cb, vars, ringVars
  <2> QED BY <2>1, <2>2, SameRing DEF RingsInv
<1>2. ASSUME NEW a \in Clients, init_echo(a) \/ Connected(a) \/ close_echo(a)
      PROVE  RingsInv'
  <2>1. Typed'
    BY <1>2, ZenonT(60) DEF RingsInv, Typed, init_echo, Connected, close_echo, ringVars
  <2>2. ASSUME NEW c \in Clients PROVE RingInv(c)'
    <3>1. CASE c # a
      <4>1. Same(c)
        BY <1>2, <3>1 DEF Same, init_echo, Connected, close_echo, ringVars, RingsInv, Typed
      <4> QED BY <4>1, SameRing DEF RingsInv
    <3>2. CASE c = a
      <4>1. /\ client'[c] # "off" /\ (client'[c] = "connecting" => client[c] = "off")
            /\ (client'[c] = "up" => bev'[c] = "queued" /\ client[c] = "connecting")
            /\ (bev'[c] = bev[c] \/ (bev'[c] = "queued" /\ client[c] = "connecting"))
        BY <1>2, <3>2 DEF init_echo, Connected, close_echo, RingsInv, Typed
      <4>2. /\ sOut'[c] = sOut[c] /\ cOut'[c] = cOut[c] /\ s2c'[c] = s2c[c]
            /\ c2s'[c] = c2s[c] /\ offset'[c] = offset[c]
        BY DEF ringVars
      <4>3. ~Linked(c)'
        BY <4>1 DEF Linked
      <4>4. RingInv(c)
        BY DEF RingsInv
      <4> QED BY <4>1, <4>2, <4>3, <4>4 DEF RingInv
    <3> QED BY <3>1, <3>2
  <2> QED BY <2>1, <2>2 DEF RingsInv
<1> QED BY <1>1, <1>2

LEMMA AcceptStep ==
  ASSUME RingsInv, NEW a \in Clients, accept_conn_cb(a)
  PROVE  RingsInv'
<1>1. bev[a] = "queued" /\ RingInv(a) /\ Typed
  BY DEF accept_conn_cb, RingsInv
<1>2. /\ sOut[a] = <<>> /\ cOut[a] = <<>> /\ s2c[a] = <<>> /\ c2s[a] = <<>> /\ offset[a] = 0
      /\ client[a] \notin {"off", "connecting"}
  BY <1>1 DEF RingInv
<1>3. sOut[a] \o Greeting = Greeting
  <2>1. Cat(<<>>, Greeting) = Greeting
    BY LenOfGreeting, CatNothing
  <2> QED BY <1>2, <2>1 DEF Cat
<1>4. sOut' = [sOut EXCEPT ![a] = Greeting]
  BY <1>3 DEF accept_conn_cb
<1>5. Typed'
  BY <1>1, <1>4, LenOfGreeting, ZenonT(60) DEF Typed, accept_conn_cb
<1>6. ASSUME NEW c \in Clients, c # a PROVE RingInv(c)'
  <2>1. Same(c)
    BY <1>1, <1>4, <1>6 DEF Same, accept_conn_cb, Typed
  <2> QED BY <2>1, SameRing DEF RingsInv
<1>7. RingInv(a)'
  <2>1. /\ sOut'[a] = Greeting /\ cOut'[a] = <<>> /\ s2c'[a] = <<>> /\ c2s'[a] = <<>>
        /\ offset'[a] = 0 /\ bev'[a] = "up" /\ client'[a] = client[a]
    BY <1>1, <1>2, <1>4 DEF accept_conn_cb, Typed
  <2>2. Four(<<>>, <<>>, <<>>, Greeting) = Greeting
    BY NoBytes, LenOfGreeting, CatNothing DEF Four
  <2>3. Right(Greeting, 0) /\ Right(<<>>, 0)
    BY RightGreeting, RightNothing
  <2> QED BY <1>2, <2>1, <2>2, <2>3 DEF RingInv
<1> QED BY <1>5, <1>6, <1>7 DEF RingsInv

(* Bytes that move from a buffer to the next one are still in the ring.     *)
LEMMA MoveStep ==
  ASSUME RingsInv, Typed', NEW a \in Clients, \A c \in Clients \ {a} : Same(c),
         client'[a] = client[a], bev'[a] = bev[a], offset'[a] = offset[a],
         bev[a] \notin {"none", "queued"},
         Four(c2s[a], cOut[a], s2c[a], sOut[a])' = Four(c2s[a], cOut[a], s2c[a], sOut[a]),
         Right(c2s[a], offset[a])'
  PROVE  RingsInv'
<1>1. ASSUME NEW c \in Clients, c # a PROVE RingInv(c)'
  BY <1>1, SameRing DEF RingsInv
<1>2. RingInv(a)'
  <2>1. RingInv(a)
    BY DEF RingsInv
  <2>2. Linked(a)' <=> Linked(a)
    BY DEF Linked
  <2>3. PICK w : /\ w = Four(c2s[a], cOut[a], s2c[a], sOut[a])
                 /\ w = Four(c2s'[a], cOut'[a], s2c'[a], sOut'[a])
    OBVIOUS
  <2>4. Linked(a) => Len(w) = Len(Greeting) /\ Right(w, offset[a])
    BY <2>1, <2>3 DEF RingInv
  <2> QED BY <2>1, <2>2, <2>3, <2>4 DEF RingInv
<1> QED BY <1>1, <1>2 DEF RingsInv

LEMMA ServerWritesStep ==
  ASSUME RingsInv, NEW a \in Clients, NEW n \in 1..Len(sOut[a]), ServerWrites(a, n)
  PROVE  /\ RingsInv'
         /\ Four(c2s[a], cOut[a], s2c[a], sOut[a])' = Four(c2s[a], cOut[a], s2c[a], sOut[a])
<1>1. Typed /\ RingInv(a) /\ bev[a] = "up"
  BY DEF RingsInv, ServerWrites
<1>2. /\ sOut[a] \in Bytes /\ cOut[a] \in Bytes /\ s2c[a] \in Bytes /\ c2s[a] \in Bytes
      /\ Len(sOut[a]) \in Nat
  BY <1>1, BytesOf, LenOfBytes
<1>3. n \in 0..Len(sOut[a])
  BY <1>2
<1>4. /\ Take(sOut[a], n) \in Bytes /\ Drop(sOut[a], n) \in Bytes
      /\ Cat(s2c[a], Take(sOut[a], n)) \in Bytes
  BY <1>2, <1>3, CutBytes, CatBytes
<1>5. /\ s2c' = [s2c EXCEPT ![a] = Cat(s2c[a], Take(sOut[a], n))]
      /\ sOut' = [sOut EXCEPT ![a] = Drop(sOut[a], n)]
      /\ UNCHANGED <<server, client, bev, cOut, c2s, offset>>
  BY DEF ServerWrites, Cat
<1>6. Typed'
  BY <1>1, <1>4, <1>5 DEF Typed
<1>7. \A c \in Clients \ {a} : Same(c)
  BY <1>1, <1>5 DEF Same, Typed
<1>8. /\ s2c'[a] = Cat(s2c[a], Take(sOut[a], n)) /\ sOut'[a] = Drop(sOut[a], n)
      /\ cOut'[a] = cOut[a] /\ c2s'[a] = c2s[a] /\ client'[a] = client[a]
      /\ bev'[a] = bev[a] /\ offset'[a] = offset[a]
  BY <1>1, <1>5 DEF Typed
<1>9. Four(c2s[a], cOut[a], s2c[a], sOut[a])' = Four(c2s[a], cOut[a], s2c[a], sOut[a])
  <2>1. Four(c2s[a], cOut[a], Cat(s2c[a], Take(sOut[a], n)), Drop(sOut[a], n))
          = Four(c2s[a], cOut[a], s2c[a], sOut[a])
    BY <1>2, <1>3, MoveIntoThird
  <2> QED BY <1>8, <2>1
<1>10. Right(c2s[a], offset[a])'
  BY <1>1, <1>8 DEF RingInv
<1> QED BY <1>1, <1>6, <1>7, <1>8, <1>9, <1>10, MoveStep

LEMMA ClientReadStep ==
  ASSUME RingsInv, NEW a \in Clients, NEW n \in 1..Len(s2c[a]), client_echo_read_cb(a, n)
  PROVE  /\ RingsInv'
         /\ Four(c2s[a], cOut[a], s2c[a], sOut[a])' = Four(c2s[a], cOut[a], s2c[a], sOut[a])
<1>1. Typed /\ RingInv(a) /\ client[a] = "up"
  BY DEF RingsInv, client_echo_read_cb
<1>2. /\ sOut[a] \in Bytes /\ cOut[a] \in Bytes /\ s2c[a] \in Bytes /\ c2s[a] \in Bytes
      /\ Len(s2c[a]) \in Nat
  BY <1>1, BytesOf, LenOfBytes
<1>3. n \in 0..Len(s2c[a])
  BY <1>2
<1>4. bev[a] \notin {"none", "queued"}
  <2>1. s2c[a] # <<>>
    BY <1>2, NoBytes
  <2> QED BY <1>1, <2>1 DEF RingInv
<1>5. /\ Take(s2c[a], n) \in Bytes /\ Drop(s2c[a], n) \in Bytes
      /\ Cat(cOut[a], Take(s2c[a], n)) \in Bytes
  BY <1>2, <1>3, CutBytes, CatBytes
<1>6. /\ cOut' = [cOut EXCEPT ![a] = Cat(cOut[a], Take(s2c[a], n))]
      /\ s2c' = [s2c EXCEPT ![a] = Drop(s2c[a], n)]
      /\ UNCHANGED <<server, client, bev, sOut, c2s, offset>>
  BY AddIsCat DEF client_echo_read_cb
<1>7. Typed'
  BY <1>1, <1>5, <1>6 DEF Typed
<1>8. \A c \in Clients \ {a} : Same(c)
  BY <1>1, <1>6 DEF Same, Typed
<1>9. /\ cOut'[a] = Cat(cOut[a], Take(s2c[a], n)) /\ s2c'[a] = Drop(s2c[a], n)
      /\ sOut'[a] = sOut[a] /\ c2s'[a] = c2s[a] /\ client'[a] = client[a]
      /\ bev'[a] = bev[a] /\ offset'[a] = offset[a]
  BY <1>1, <1>6 DEF Typed
<1>10. Four(c2s[a], cOut[a], s2c[a], sOut[a])' = Four(c2s[a], cOut[a], s2c[a], sOut[a])
  <2>1. Cat(Cat(c2s[a], Cat(cOut[a], Take(s2c[a], n))), Drop(s2c[a], n))
          = Cat(Cat(c2s[a], cOut[a]), s2c[a])
    BY <1>2, <1>3, MoveIntoSecond
  <2> QED BY <1>9, <2>1 DEF Four
<1>11. Right(c2s[a], offset[a])'
  BY <1>1, <1>9 DEF RingInv
<1> QED BY <1>4, <1>7, <1>8, <1>9, <1>10, <1>11, MoveStep

LEMMA ClientWritesStep ==
  ASSUME RingsInv, NEW a \in Clients, NEW n \in 1..Len(cOut[a]), ClientWrites(a, n)
  PROVE  /\ RingsInv'
         /\ Four(c2s[a], cOut[a], s2c[a], sOut[a])' = Four(c2s[a], cOut[a], s2c[a], sOut[a])
<1>1. Typed /\ RingInv(a) /\ client[a] = "up" /\ bev[a] \in {"queued", "up"}
  BY DEF RingsInv, ClientWrites
<1>2. /\ sOut[a] \in Bytes /\ cOut[a] \in Bytes /\ s2c[a] \in Bytes /\ c2s[a] \in Bytes
      /\ Len(cOut[a]) \in Nat /\ offset[a] \in Nat
  BY <1>1, BytesOf, LenOfBytes
<1>3. n \in 0..Len(cOut[a])
  BY <1>2
<1>4. bev[a] = "up"
  <2>1. cOut[a] # <<>>
    BY <1>2, NoBytes
  <2> QED BY <1>1, <2>1 DEF RingInv
<1>5. /\ Take(cOut[a], n) \in Bytes /\ Drop(cOut[a], n) \in Bytes
      /\ Cat(c2s[a], Take(cOut[a], n)) \in Bytes
  BY <1>2, <1>3, CutBytes, CatBytes
<1>6. /\ c2s' = [c2s EXCEPT ![a] = Cat(c2s[a], Take(cOut[a], n))]
      /\ cOut' = [cOut EXCEPT ![a] = Drop(cOut[a], n)]
      /\ UNCHANGED <<server, client, bev, sOut, s2c, offset>>
  BY DEF ClientWrites, Cat
<1>7. Typed'
  BY <1>1, <1>5, <1>6 DEF Typed
<1>8. \A c \in Clients \ {a} : Same(c)
  BY <1>1, <1>6 DEF Same, Typed
<1>9. /\ c2s'[a] = Cat(c2s[a], Take(cOut[a], n)) /\ cOut'[a] = Drop(cOut[a], n)
      /\ sOut'[a] = sOut[a] /\ s2c'[a] = s2c[a] /\ client'[a] = client[a]
      /\ bev'[a] = bev[a] /\ offset'[a] = offset[a]
  BY <1>1, <1>6 DEF Typed
<1>10. Four(c2s[a], cOut[a], s2c[a], sOut[a])' = Four(c2s[a], cOut[a], s2c[a], sOut[a])
  <2>1. Cat(Cat(c2s[a], Take(cOut[a], n)), Drop(cOut[a], n)) = Cat(c2s[a], cOut[a])
    BY <1>2, <1>3, MoveIntoFirst
  <2> QED BY <1>9, <2>1 DEF Four
<1>11. Right(c2s[a], offset[a])'
  <2>1. Right(Four(c2s[a], cOut[a], s2c[a], sOut[a]), offset[a])
    BY <1>1, <1>4 DEF RingInv, Linked
  <2>2. Right(Four(c2s'[a], cOut'[a], s2c'[a], sOut'[a]), offset[a])
    BY <1>10, <2>1
  <2>3. c2s'[a] \in Bytes /\ cOut'[a] \in Bytes /\ s2c'[a] \in Bytes /\ sOut'[a] \in Bytes
    BY <1>2, <1>5, <1>9
  <2>4. Right(c2s'[a], offset[a])
    BY <1>2, <2>2, <2>3, RightFirst
  <2> QED BY <1>9, <2>4
<1> QED BY <1>4, <1>7, <1>8, <1>9, <1>10, <1>11, MoveStep

(* The server reads: its ring turns.                                        *)
LEMMA ServerReadStep ==
  ASSUME RingsInv, NEW a \in Clients, NEW n \in 1..Len(c2s[a]), server_echo_read_cb(a, n)
  PROVE  /\ RingsInv'
         /\ \E t \in Bytes, u \in Bytes :
              /\ Len(t) = n
              /\ Four(c2s[a], cOut[a], s2c[a], sOut[a]) = Cat(t, u)
              /\ Four(c2s[a], cOut[a], s2c[a], sOut[a])' = Cat(u, t)
<1>1. Typed /\ RingInv(a) /\ bev[a] = "up"
  BY DEF RingsInv, server_echo_read_cb
<1>2. /\ sOut[a] \in Bytes /\ cOut[a] \in Bytes /\ s2c[a] \in Bytes /\ c2s[a] \in Bytes
      /\ Len(c2s[a]) \in Nat /\ offset[a] \in Nat /\ Len(Greeting) \in Nat \ {0}
  BY <1>1, BytesOf, LenOfBytes
<1>3. n \in 0..Len(c2s[a])
  BY <1>2
<1>4. /\ Take(c2s[a], n) \in Bytes /\ Drop(c2s[a], n) \in Bytes
      /\ Len(Take(c2s[a], n)) = n
      /\ c2s[a] = Cat(Take(c2s[a], n), Drop(c2s[a], n))
      /\ Cat(sOut[a], Take(c2s[a], n)) \in Bytes
  BY <1>2, <1>3, CutBytes, CatBytes
<1>5. PICK k \in 0..(2 * Len(Greeting) - 1) : k = (offset[a] + n) % (2 * Len(Greeting))
  BY <1>2, <1>3
<1>6. /\ sOut' = [sOut EXCEPT ![a] = Cat(sOut[a], Take(c2s[a], n))]
      /\ c2s' = [c2s EXCEPT ![a] = Drop(c2s[a], n)]
      /\ offset' = [offset EXCEPT ![a] = k]
      /\ UNCHANGED <<server, client, bev, cOut, s2c>>
  BY <1>5, AddIsCat DEF server_echo_read_cb
<1>7. Typed'
  BY <1>1, <1>4, <1>6 DEF Typed
<1>8. \A c \in Clients \ {a} : Same(c)
  BY <1>1, <1>6 DEF Same, Typed
<1>9. /\ sOut'[a] = Cat(sOut[a], Take(c2s[a], n)) /\ c2s'[a] = Drop(c2s[a], n)
      /\ cOut'[a] = cOut[a] /\ s2c'[a] = s2c[a] /\ client'[a] = client[a]
      /\ bev'[a] = bev[a] /\ offset'[a] = k
  BY <1>1, <1>6 DEF Typed
<1>10. PICK t \in Bytes, u \in Bytes :
         /\ Take(c2s[a], n) = t /\ Len(t) = n
         /\ Four(c2s[a], cOut[a], s2c[a], sOut[a]) = Cat(t, u)
         /\ Four(Drop(c2s[a], n), cOut[a], s2c[a], Cat(sOut[a], t)) = Cat(u, t)
  <2>1. /\ Four(Drop(c2s[a], n), cOut[a], s2c[a], sOut[a]) \in Bytes
        /\ Four(c2s[a], cOut[a], s2c[a], sOut[a])
             = Cat(Take(c2s[a], n), Four(Drop(c2s[a], n), cOut[a], s2c[a], sOut[a]))
        /\ Four(Drop(c2s[a], n), cOut[a], s2c[a], Cat(sOut[a], Take(c2s[a], n)))
             = Cat(Four(Drop(c2s[a], n), cOut[a], s2c[a], sOut[a]), Take(c2s[a], n))
    <3>1. PICK w \in Bytes, x \in Bytes, y \in Bytes, z \in Bytes :
            w = c2s[a] /\ x = cOut[a] /\ y = s2c[a] /\ z = sOut[a]
      BY <1>2
    <3>2. n \in 0..Len(w)
      BY <1>3, <3>1
    <3>3. Four(Drop(w, n), x, y, z) \in Bytes
      BY <3>2, TurnFour
    <3>4. Four(w, x, y, z) = Cat(Take(w, n), Four(Drop(w, n), x, y, z))
      BY <3>2, TurnFour
    <3>5. Four(Drop(w, n), x, y, Cat(z, Take(w, n)))
            = Cat(Four(Drop(w, n), x, y, z), Take(w, n))
      BY <3>2, TurnFour
    <3> QED BY <3>1, <3>3, <3>4, <3>5
  <2> QED BY <1>4, <2>1
<1>11. Four(c2s[a], cOut[a], s2c[a], sOut[a])' = Cat(u, t)
  BY <1>9, <1>10
<1>12. Right(Drop(c2s[a], n), k)
  <2>1. Right(c2s[a], offset[a])
    BY <1>1 DEF RingInv
  <2>2. Right(Drop(c2s[a], n), offset[a] + n)
    BY <1>2, <1>4, <2>1, RightCat, ZenonT(60)
  <2>3. offset[a] + n \in Nat
    BY <1>2, <1>3
  <2> QED BY <1>4, <1>5, <2>2, <2>3, RightDouble
<1>13. RingInv(a)'
  <2>1. ASSUME Linked(a)' PROVE Len(Cat(u, t)) = Len(Greeting) /\ Right(Cat(u, t), k)
    <3>1. Linked(a)
      BY <1>9, <2>1 DEF Linked
    <3>2. Len(Cat(t, u)) = Len(Greeting) /\ Right(Cat(t, u), offset[a])
      BY <1>1, <1>10, <3>1 DEF RingInv
    <3>3. Len(Cat(u, t)) = Len(Cat(t, u))
      <4>1. Len(t) \in Nat /\ Len(u) \in Nat
        BY LenOfBytes
      <4>2. Len(Cat(u, t)) = Len(u) + Len(t) /\ Len(Cat(t, u)) = Len(t) + Len(u)
        BY CatBytes
      <4> QED BY <4>1, <4>2
    <3>4. Right(Cat(u, t), (offset[a] + Len(t)) % (2 * Len(Greeting)))
      BY <1>2, <3>2, RightTurned
    <3> QED BY <1>5, <1>10, <3>2, <3>3, <3>4
  <2> QED BY <1>1, <1>9, <1>11, <1>12, <2>1 DEF RingInv
<1>14. ASSUME NEW c \in Clients, c # a PROVE RingInv(c)'
  BY <1>8, <1>14, SameRing DEF RingsInv
<1> QED BY <1>7, <1>10, <1>11, <1>13, <1>14 DEF RingsInv

(* An end goes away.                                                        *)
LEMMA ServerEventStep ==
  ASSUME RingsInv, NEW a \in Clients, server_echo_event_cb(a)
  PROVE  RingsInv'
<1>1. Typed /\ RingInv(a) /\ client[a] = "ended"
  BY DEF RingsInv, server_echo_event_cb
<1>2. /\ bev' = [bev EXCEPT ![a] = "freed"]
      /\ sOut' = [sOut EXCEPT ![a] = <<>>] /\ s2c' = [s2c EXCEPT ![a] = <<>>]
      /\ UNCHANGED <<server, client, cOut, c2s, offset>>
  BY DEF server_echo_event_cb, bufferevent_free, Discard
<1>3. Typed'
  BY <1>1, <1>2, NoBytes DEF Typed
<1>4. ASSUME NEW c \in Clients, c # a PROVE RingInv(c)'
  <2>1. Same(c)
    BY <1>1, <1>2, <1>4 DEF Same, Typed
  <2> QED BY <2>1, SameRing DEF RingsInv
<1>5. RingInv(a)'
  BY <1>1, <1>2 DEF RingInv, Linked, Typed
<1> QED BY <1>3, <1>4, <1>5 DEF RingsInv

LEMMA ClientEventStep ==
  ASSUME RingsInv, NEW a \in Clients, client_echo_event_cb(a)
  PROVE  RingsInv'
<1>1. Typed /\ RingInv(a)
  BY DEF RingsInv
<1>2. /\ client' = [client EXCEPT ![a] = "freed"]
      /\ cOut' = [cOut EXCEPT ![a] = <<>>] /\ s2c' = [s2c EXCEPT ![a] = <<>>]
      /\ UNCHANGED <<server, bev, sOut, c2s, offset>>
  BY DEF client_echo_event_cb, bufferevent_free, Discard
<1>3. Typed'
  BY <1>1, <1>2, NoBytes DEF Typed
<1>4. ASSUME NEW c \in Clients, c # a PROVE RingInv(c)'
  <2>1. Same(c)
    BY <1>1, <1>2, <1>4 DEF Same, Typed
  <2> QED BY <2>1, SameRing DEF RingsInv
<1>5. RingInv(a)'
  BY <1>1, <1>2 DEF RingInv, Linked, Typed
<1> QED BY <1>3, <1>4, <1>5 DEF RingsInv

LEMMA ClientKilledStep ==
  ASSUME RingsInv, NEW a \in Clients, NEW n \in 0..Len(c2s[a]), ClientKilled(a, n)
  PROVE  RingsInv'
<1>1. Typed /\ RingInv(a)
  BY DEF RingsInv
<1>2. c2s[a] \in Bytes /\ offset[a] \in Nat /\ Len(c2s[a]) \in Nat
  BY <1>1, BytesOf, LenOfBytes
<1>3. PICK t \in Bytes, u \in Bytes : Take(c2s[a], n) = t /\ Len(t) = n /\ c2s[a] = Cat(t, u)
  BY <1>2, CutBytes
<1>4. /\ client' = [client EXCEPT ![a] = "ended"]
      /\ cOut' = [cOut EXCEPT ![a] = <<>>] /\ s2c' = [s2c EXCEPT ![a] = <<>>]
      /\ c2s' = [c2s EXCEPT ![a] = t]
      /\ UNCHANGED <<server, bev, sOut, offset>>
  BY <1>3 DEF ClientKilled, Discard
<1>5. Typed'
  BY <1>1, <1>4, NoBytes DEF Typed
<1>6. ASSUME NEW c \in Clients, c # a PROVE RingInv(c)'
  <2>1. Same(c)
    BY <1>1, <1>4, <1>6 DEF Same, Typed
  <2> QED BY <2>1, SameRing DEF RingsInv
<1>7. RingInv(a)'
  <2>1. c2s[a] = <<>> => t = <<>>
    BY <1>2, <1>3, NoBytes, OnlyNoBytes
  <2>2. Right(t, offset[a])
    BY <1>1, <1>2, <1>3, RightCat DEF RingInv
  <2>3. /\ client'[a] = "ended" /\ bev'[a] = bev[a] /\ sOut'[a] = sOut[a] /\ cOut'[a] = <<>>
        /\ s2c'[a] = <<>> /\ c2s'[a] = t /\ offset'[a] = offset[a]
    BY <1>1, <1>4 DEF Typed
  <2> QED BY <1>1, <2>1, <2>2, <2>3 DEF RingInv, Linked
<1> QED BY <1>5, <1>6, <1>7 DEF RingsInv

LEMMA ServerEndsStep ==
  ASSUME RingsInv, NEW keep \in BOOLEAN, ServerEnds(keep)
  PROVE  RingsInv'
<1>1. Typed'
  BY NoBytes DEF RingsInv, Typed, ServerEnds, Empty
<1>2. ASSUME NEW c \in Clients PROVE RingInv(c)'
  <2>1. RingInv(c) /\ Typed /\ offset[c] \in Nat
    BY BytesOf DEF RingsInv
  <2>2. /\ bev'[c] = (IF bev[c] = "none" THEN "none" ELSE "freed")
        /\ sOut'[c] = <<>> /\ c2s'[c] = <<>>
        /\ cOut'[c] = cOut[c] /\ client'[c] = client[c] /\ offset'[c] = offset[c]
        /\ s2c'[c] \in {s2c[c], <<>>}
    BY DEF ServerEnds, Empty
  <2>3. Right(<<>>, offset[c])
    BY <2>1, RightNothing
  <2> QED BY <2>1, <2>2, <2>3 DEF RingInv, Linked
<1> QED BY <1>1, <1>2 DEF RingsInv

(* The invariant holds in every state of the two programs.                  *)
LEMMA RingsStep == RingsInv /\ [Next]_vars => RingsInv'
<1> SUFFICES ASSUME RingsInv, [Next]_vars PROVE RingsInv'
  OBVIOUS
<1>1. CASE init_test_server \/ timeout_cb \/ UNCHANGED vars
  <2>1. UNCHANGED ringVars /\ UNCHANGED offset
    BY <1>1 DEF init_test_server, timeout_cb, vars
  <2> QED BY <1>1, <2>1, QuietSteps
<1>2. ASSUME NEW a \in Clients, init_echo(a) \/ Connected(a) \/ close_echo(a) PROVE RingsInv'
  <2>1. UNCHANGED ringVars /\ UNCHANGED offset
    BY <1>2 DEF init_echo, Connected, close_echo
  <2> QED BY <1>2, <2>1, QuietSteps
<1>3. ASSUME NEW a \in Clients,
             \/ accept_conn_cb(a)
             \/ server_echo_event_cb(a)
             \/ client_echo_event_cb(a)
             \/ \E n \in 1..Len(sOut[a]) : ServerWrites(a, n)
             \/ \E n \in 1..Len(c2s[a]) : server_echo_read_cb(a, n)
             \/ \E n \in 1..Len(s2c[a]) : client_echo_read_cb(a, n)
             \/ \E n \in 1..Len(cOut[a]) : ClientWrites(a, n)
             \/ \E n \in 0..Len(c2s[a]) : ClientKilled(a, n)
      PROVE  RingsInv'
  BY <1>3, AcceptStep, ServerEventStep, ClientEventStep, ServerWritesStep, ServerReadStep,
     ClientReadStep, ClientWritesStep, ClientKilledStep
<1>4. ASSUME NEW keep \in BOOLEAN, ServerEnds(keep) PROVE RingsInv'
  BY <1>4, ServerEndsStep
<1> QED BY <1>1, <1>2, <1>3, <1>4 DEF Next, ServerLoop, ClientLoop, Terminated

(* On every connection the server reads the greeting over and over: the     *)
(* writes of both loops, the echo_read_cb of both programs and the network  *)
(* lose, double and reorder nothing while both ends are there, and what a   *)
(* dead client had sent is still the right continuation.                    *)
THEOREM RingsStayInOrder == Spec => []InOrder
<1>1. RingsInv => InOrder
  <2> SUFFICES ASSUME RingsInv, NEW c \in Clients
               PROVE  /\ Linked(c) => /\ Len(Ring(c)) = Len(Greeting)
                                      /\ \A i \in 1..Len(Ring(c)) : Ring(c)[i] = Expected(c, i)
                      /\ \A i \in 1..Len(c2s[c]) : c2s[c][i] = Expected(c, i)
    BY DEF InOrder
  <2>1. RingInv(c)
    BY DEF RingsInv
  <2>2. Ring(c) = Four(c2s[c], cOut[c], s2c[c], sOut[c])
    BY DEF Ring, Four, Cat
  <2>3. \A i : Expected(c, i) = At(offset[c] + i - 1)
    BY DEF Expected, At
  <2> QED BY <2>1, <2>2, <2>3 DEF RingInv, Right
<1> QED BY <1>1, InitRings, RingsStep, PTL DEF Spec

-------------------------------------------------------------------------------
(* The count and its reports.                                               *)

LEMMA Numbers == Word \in Nat \ {0} /\ K \in Nat \ {0} /\ MaxSince \in Nat \ {0}
  BY NumbersAssumption

(* The figures of a report and what they leave out.                         *)
LEMMA ReportRight ==
  ASSUME NEW size \in Nat
  PROVE  /\ Report(size) \in Reports
         /\ LET r == Report(size)
                unit == IF r.unit = "kb" THEN K ELSE K * K
            IN /\ r.total * unit <= r.size
               /\ r.size < (r.total + 1) * unit
               /\ r.rate * 5 <= r.total
               /\ r.unit = "kb" => r.total <= K
<1>1. PICK k \in Nat \ {0} : k = K
  BY Numbers
<1>2. PICK kb \in Nat, x \in Nat : kb = size \div k /\ size = k * kb + x /\ x < k
  <2>1. size \div k \in Nat /\ size % k \in 0..(k - 1) /\ size = k * (size \div k) + (size % k)
    OBVIOUS
  <2> QED BY <2>1
<1>3. PICK mb \in Nat, y \in Nat : mb = kb \div k /\ kb = k * mb + y /\ y < k
  <2>1. kb \div k \in Nat /\ kb % k \in 0..(k - 1) /\ kb = k * (kb \div k) + (kb % k)
    OBVIOUS
  <2> QED BY <2>1
<1>4. /\ kb \div 5 \in Nat /\ (kb \div 5) * 5 <= kb
      /\ mb \div 5 \in Nat /\ (mb \div 5) * 5 <= mb
  OBVIOUS
<1>5. kb * k <= size /\ size < (kb + 1) * k
  BY <1>2
<1>6. mb * (k * k) <= size /\ size < (mb + 1) * (k * k)
  <2>1. PICK z \in Nat : z = k * k
    OBVIOUS
  <2>2. k * kb = mb * z + k * y
    <3>1. k * kb = k * (k * mb) + k * y
      BY <1>3
    <3>2. k * (k * mb) = mb * z
      BY <2>1
    <3> QED BY <3>1, <3>2
  <2>3. k * y \in Nat /\ k * y <= k * (k - 1)
    BY <1>3
  <2>4. k * (k - 1) = z - k
    BY <2>1
  <2>5. size = mb * z + (k * y + x) /\ k * y + x \in Nat
    BY <1>2, <2>2, <2>3
  <2>6. k * y + x < z
    BY <1>2, <2>3, <2>4
  <2>7. (mb + 1) * z = mb * z + z /\ mb * z \in Nat
    OBVIOUS
  <2>8. mb * z <= size /\ size < (mb + 1) * z
    BY <2>5, <2>6, <2>7
  <2> QED BY <2>1, <2>8
<1>7. CASE kb <= k
  <2>1. Report(size) = [unit |-> "kb", total |-> kb, rate |-> kb \div 5, size |-> size]
    BY <1>1, <1>2, <1>7 DEF Report
  <2> QED BY <1>1, <1>4, <1>5, <1>7, <2>1 DEF Reports
<1>8. CASE ~(kb <= k)
  <2>1. Report(size) = [unit |-> "mb", total |-> mb, rate |-> mb \div 5, size |-> size]
    BY <1>1, <1>2, <1>3, <1>8 DEF Report
  <2> QED BY <1>1, <1>4, <1>6, <2>1 DEF Reports
<1> QED BY <1>7, <1>8

(* The numbers in a state are those of the types.                           *)
Counted ==
  /\ total_size \in 0..(Word - 1)
  /\ since \in 0..MaxSince
  /\ total_size = since % Word
  /\ shown \in Reports
  /\ ReportAccurate

LEMMA InitCounted == Init => Counted
<1> SUFFICES ASSUME Init PROVE Counted
  OBVIOUS
<1>1. 0 % Word = 0
  BY Numbers, ModSmall
<1>2. /\ shown.unit = "kb" /\ shown.total = 0 /\ shown.rate = 0 /\ shown.size = 0
      /\ total_size = 0 /\ since = 0 /\ shown \in Reports
  BY DEF Init, Reports
<1> QED BY <1>1, <1>2, Numbers DEF Counted, ReportAccurate

LEMMA CountStep == Counted /\ [Next]_vars => Counted'
<1> SUFFICES ASSUME Counted, [Next]_vars PROVE Counted'
  OBVIOUS
<1>1. CASE UNCHANGED countVars
  BY <1>1 DEF Counted, countVars, ReportAccurate
<1>2. CASE timeout_cb
  <2>1. total_size' = 0 /\ since' = 0 /\ shown' = Report(total_size) /\ total_size \in Nat
    BY <1>2, Numbers DEF timeout_cb, Counted
  <2>2. 0 % Word = 0
    BY Numbers, ModSmall
  <2>3. shown' \in Reports /\ ReportAccurate'
    BY <2>1, ReportRight DEF ReportAccurate
  <2> QED BY <2>1, <2>2, <2>3, Numbers DEF Counted
<1>3. ASSUME NEW c \in Clients, NEW n \in 1..Len(c2s[c]), server_echo_read_cb(c, n)
      PROVE  Counted'
  <2>1. /\ total_size' = (total_size + n) % Word /\ since' = since + n
        /\ since + n <= MaxSince /\ shown' = shown
    BY <1>3 DEF server_echo_read_cb, AddSize
  <2>2. n \in Nat /\ since \in Nat /\ since + n \in 0..MaxSince
    BY <2>1, Numbers DEF Counted
  <2>3. ((since % Word) + n) % Word = (since + n) % Word
    BY <2>2, Numbers, ModOfSum
  <2>4. (since + n) % Word \in 0..(Word - 1)
    BY <2>2, Numbers
  <2>5. ReportAccurate'
    BY <2>1 DEF Counted, ReportAccurate
  <2> QED BY <2>1, <2>2, <2>3, <2>4, <2>5 DEF Counted
<1>4. \/ UNCHANGED countVars
      \/ timeout_cb
      \/ \E c \in Clients : \E n \in 1..Len(c2s[c]) : server_echo_read_cb(c, n)
  BY DEF Next, ServerLoop, ClientLoop, Terminated, vars, init_test_server, accept_conn_cb,
         ServerWrites, server_echo_event_cb, ServerEnds, init_echo, Connected,
         client_echo_read_cb, ClientWrites, client_echo_event_cb, close_echo, ClientKilled
<1> QED BY <1>1, <1>2, <1>3, <1>4

(* Every byte the server reads, from whichever client, is in exactly one    *)
(* report of timeout_cb, as far as total_size holds it, and the figures     *)
(* printed are right to one of their units.                                 *)
THEOREM BytesCountedOnce == Spec => []CountedOnce
<1>1. RingsInv /\ Counted => CountedOnce
  BY DEF RingsInv, Typed, Counted, CountedOnce, TypeOK, Bytes
<1> QED BY <1>1, InitRings, RingsStep, InitCounted, CountStep, PTL DEF Spec

-------------------------------------------------------------------------------
(* The two programs implement ByteRing.                                     *)

(* The refinement mapping, client by client.                                *)
RingAt(c) == IF Linked(c) THEN Four(c2s[c], cOut[c], s2c[c], sOut[c]) ELSE <<>>
OpenAt(c) ==
  IF Linked(c) THEN "yes"
  ELSE IF bev[c] \in {"none", "queued"} /\ client[c] \in {"off", "connecting", "up"}
  THEN "no" ELSE "broken"

(* What a step of EchoRing has to do to be a step of ByteRing, or none.     *)
LEMMA ViewStart ==
  ASSUME NEW a \in Clients, OpenAt(a) = "no", RingAt(a)' = Greeting, OpenAt(a)' = "yes",
         \A c \in Clients \ {a} : RingAt(c)' = RingAt(c) /\ OpenAt(c)' = OpenAt(c)
  PROVE  Rings!Start(a)
  BY DEF Rings!Start, RingAt, OpenAt, Ring, Four, Cat

LEMMA ViewTurn ==
  ASSUME NEW a \in Clients, NEW n, OpenAt(a) = "yes", OpenAt(a)' = "yes",
         RingAt(a)' = Cat(Drop(RingAt(a), n), Take(RingAt(a), n)),
         \A c \in Clients \ {a} : RingAt(c)' = RingAt(c) /\ OpenAt(c)' = OpenAt(c)
  PROVE  Rings!Turn(a, n)
  BY DEF Rings!Turn, RingAt, OpenAt, Ring, Four, Cat, Take, Drop

LEMMA ViewBreak ==
  ASSUME NEW S \in SUBSET Clients,
         \A c \in S : RingAt(c)' = <<>> /\ OpenAt(c)' = "broken",
         \A c \in Clients \ S : RingAt(c)' = RingAt(c) /\ OpenAt(c)' = OpenAt(c)
  PROVE  Rings!Break(S)
  BY DEF Rings!Break, RingAt, OpenAt, Ring, Four, Cat

LEMMA ViewStutter ==
  ASSUME \A c \in Clients : RingAt(c)' = RingAt(c) /\ OpenAt(c)' = OpenAt(c)
  PROVE  UNCHANGED Rings!vars
  BY DEF Rings!vars, RingAt, OpenAt, Ring, Four, Cat

LEMMA SameView ==
  ASSUME NEW c \in Clients, Same(c)
  PROVE  RingAt(c)' = RingAt(c) /\ OpenAt(c)' = OpenAt(c)
  BY DEF Same, RingAt, OpenAt, Linked

LEMMA UnlinkedView ==
  ASSUME NEW c \in Clients, ~Linked(c), ~Linked(c)', OpenAt(c)' = OpenAt(c)
  PROVE  RingAt(c)' = RingAt(c) /\ OpenAt(c)' = OpenAt(c)
  BY DEF RingAt

(* A step that moves bytes along the ring of a leaves it as it is.          *)
LEMMA MovedView ==
  ASSUME NEW a \in Clients, client'[a] = client[a], bev'[a] = bev[a],
         Four(c2s[a], cOut[a], s2c[a], sOut[a])' = Four(c2s[a], cOut[a], s2c[a], sOut[a])
  PROVE  RingAt(a)' = RingAt(a) /\ OpenAt(a)' = OpenAt(a)
<1>1. Linked(a)' <=> Linked(a)
  BY DEF Linked
<1> QED BY <1>1 DEF RingAt, OpenAt

(* accept_conn_cb starts the ring of a client that is still there.          *)
LEMMA AcceptRefines ==
  ASSUME RingsInv, NEW a \in Clients, accept_conn_cb(a)
  PROVE  Rings!Next \/ UNCHANGED Rings!vars
<1>1. Typed /\ RingInv(a) /\ bev[a] = "queued"
  BY DEF RingsInv, accept_conn_cb
<1>2. \A c \in Clients \ {a} : RingAt(c)' = RingAt(c) /\ OpenAt(c)' = OpenAt(c)
  <2>1. \A c \in Clients \ {a} : Same(c)
    BY <1>1 DEF Same, accept_conn_cb, Typed
  <2> QED BY <2>1, SameView
<1>3. bev'[a] = "up" /\ client'[a] = client[a]
  BY <1>1 DEF accept_conn_cb, Typed
<1>4. CASE client[a] = "up"
  <2>1. /\ cOut'[a] = <<>> /\ s2c'[a] = <<>> /\ c2s'[a] = <<>>
        /\ sOut'[a] = Cat(<<>>, Greeting)
    BY <1>1 DEF RingInv, accept_conn_cb, Typed, Cat
  <2>2. Four(<<>>, <<>>, <<>>, Cat(<<>>, Greeting)) = Greeting
    BY NoBytes, LenOfGreeting, CatNothing DEF Four
  <2>3. OpenAt(a) = "no" /\ OpenAt(a)' = "yes" /\ RingAt(a)' = Greeting
    BY <1>1, <1>3, <1>4, <2>1, <2>2 DEF OpenAt, RingAt, Linked
  <2>4. Rings!Start(a)
    BY <1>2, <2>3, ViewStart
  <2> QED BY <2>4 DEF Rings!Next
<1>5. CASE client[a] # "up"
  <2>1. client[a] \notin {"off", "connecting"}
    BY <1>1 DEF RingInv
  <2>2. ~Linked(a) /\ ~Linked(a)' /\ OpenAt(a)' = OpenAt(a)
    BY <1>1, <1>3, <1>5, <2>1 DEF OpenAt, Linked
  <2>3. RingAt(a)' = RingAt(a) /\ OpenAt(a)' = OpenAt(a)
    BY <2>2, UnlinkedView
  <2> QED BY <1>2, <2>3, ViewStutter
<1> QED BY <1>4, <1>5

(* The server's echo_read_cb turns the ring.                                *)
LEMMA ServerReadRefines ==
  ASSUME RingsInv, NEW a \in Clients, NEW n \in 1..Len(c2s[a]), server_echo_read_cb(a, n)
  PROVE  Rings!Next \/ UNCHANGED Rings!vars
<1>1. Typed
  BY DEF RingsInv
<1>2. \A c \in Clients \ {a} : RingAt(c)' = RingAt(c) /\ OpenAt(c)' = OpenAt(c)
  <2>1. \A c \in Clients \ {a} : Same(c)
    BY <1>1 DEF Same, server_echo_read_cb, Typed
  <2> QED BY <2>1, SameView
<1>3. bev'[a] = bev[a] /\ client'[a] = client[a]
  BY DEF server_echo_read_cb
<1>4. PICK t \in Bytes, u \in Bytes :
        /\ Len(t) = n
        /\ Four(c2s[a], cOut[a], s2c[a], sOut[a]) = Cat(t, u)
        /\ Four(c2s[a], cOut[a], s2c[a], sOut[a])' = Cat(u, t)
  BY ServerReadStep
<1>5. CASE Linked(a)
  <2>1. RingAt(a) = Cat(t, u) /\ RingAt(a)' = Cat(u, t) /\ OpenAt(a) = "yes" /\ OpenAt(a)' = "yes"
    BY <1>3, <1>4, <1>5 DEF RingAt, OpenAt, Linked
  <2>2. Take(Cat(t, u), n) = t /\ Drop(Cat(t, u), n) = u
    BY <1>4, CutCat
  <2>3. RingAt(a)' = Cat(Drop(RingAt(a), n), Take(RingAt(a), n))
    BY <2>1, <2>2
  <2>4. Rings!Turn(a, n)
    BY <1>2, <2>1, <2>3, ViewTurn
  <2>5. n \in 1..Len(RingAt(a))
    <3>1. Len(t) \in Nat /\ Len(u) \in Nat /\ Len(Cat(t, u)) = Len(t) + Len(u)
      BY LenOfBytes, CatBytes
    <3> QED BY <1>4, <2>1, <3>1
  <2>6. n \in 1..Len([c \in Clients |-> IF Linked(c) THEN Ring(c) ELSE <<>>][a])
    BY <1>5, <2>5 DEF RingAt, Ring, Four, Cat
  <2> QED BY <2>4, <2>6 DEF Rings!Next
<1>6. CASE ~Linked(a)
  <2>1. ~Linked(a)' /\ OpenAt(a)' = OpenAt(a)
    BY <1>3, <1>6 DEF Linked, OpenAt
  <2>2. RingAt(a)' = RingAt(a) /\ OpenAt(a)' = OpenAt(a)
    BY <1>6, <2>1, UnlinkedView
  <2> QED BY <1>2, <2>2, ViewStutter
<1> QED BY <1>5, <1>6

(* The other loop steps are not seen.                                       *)
LEMMA MoveRefines ==
  ASSUME RingsInv, NEW a \in Clients,
         \/ \E n \in 1..Len(sOut[a]) : ServerWrites(a, n)
         \/ \E n \in 1..Len(s2c[a]) : client_echo_read_cb(a, n)
         \/ \E n \in 1..Len(cOut[a]) : ClientWrites(a, n)
  PROVE  UNCHANGED Rings!vars
<1>1. Typed
  BY DEF RingsInv
<1>2. Four(c2s[a], cOut[a], s2c[a], sOut[a])' = Four(c2s[a], cOut[a], s2c[a], sOut[a])
  BY ServerWritesStep, ClientReadStep, ClientWritesStep
<1>3. bev'[a] = bev[a] /\ client'[a] = client[a]
  BY DEF ServerWrites, client_echo_read_cb, ClientWrites
<1>4. \A c \in Clients \ {a} : Same(c)
  BY <1>1 DEF Same, ServerWrites, client_echo_read_cb, ClientWrites, Typed
<1> QED BY <1>2, <1>3, <1>4, MovedView, SameView, ViewStutter

(* Connecting, and the end of an end whose peer is gone.                    *)
LEMMA QuietRefines ==
  ASSUME RingsInv, NEW a \in Clients,
         \/ Connected(a)
         \/ close_echo(a)
         \/ server_echo_event_cb(a)
         \/ client_echo_event_cb(a) /\ client[a] = "up"
         \/ init_echo(a) /\ client'[a] = "connecting"
  PROVE  UNCHANGED Rings!vars
<1>1. Typed /\ RingInv(a)
  BY DEF RingsInv
<1>2. \A c \in Clients \ {a} : Same(c)
  BY <1>1 DEF Same, Connected, close_echo, server_echo_event_cb, client_echo_event_cb,
              init_echo, bufferevent_free, Discard, ringVars, Typed
<1>3. ~Linked(a) /\ ~Linked(a)' /\ OpenAt(a)' = OpenAt(a)
  <2>1. CASE Connected(a)
    BY <1>1, <2>1 DEF RingInv, Connected, Typed, Linked, OpenAt
  <2>2. CASE close_echo(a)
    BY <1>1, <2>2 DEF close_echo, Typed, Linked, OpenAt
  <2>3. CASE server_echo_event_cb(a)
    BY <1>1, <2>3 DEF server_echo_event_cb, bufferevent_free, Typed, Linked, OpenAt
  <2>4. CASE client_echo_event_cb(a) /\ client[a] = "up"
    BY <1>1, <2>4 DEF client_echo_event_cb, bufferevent_free, Typed, Linked, OpenAt
  <2>5. CASE init_echo(a) /\ client'[a] = "connecting"
    BY <1>1, <2>5 DEF init_echo, Typed, Linked, OpenAt
  <2> QED BY <2>1, <2>2, <2>3, <2>4, <2>5
<1>4. RingAt(a)' = RingAt(a) /\ OpenAt(a)' = OpenAt(a)
  BY <1>3, UnlinkedView
<1> QED BY <1>2, <1>4, SameView, ViewStutter

(* A client that goes breaks its ring and no other.                         *)
LEMMA ClientGoneRefines ==
  ASSUME RingsInv, NEW a \in Clients,
         \/ init_echo(a) /\ client'[a] # "connecting"
         \/ client_echo_event_cb(a) /\ client[a] # "up"
         \/ \E n \in 0..Len(c2s[a]) : ClientKilled(a, n)
  PROVE  Rings!Next
<1>1. Typed /\ RingInv(a)
  BY DEF RingsInv
<1>2. \A c \in Clients \ {a} : RingAt(c)' = RingAt(c) /\ OpenAt(c)' = OpenAt(c)
  <2>1. \A c \in Clients \ {a} : Same(c)
    BY <1>1 DEF Same, init_echo, client_echo_event_cb, ClientKilled,
                bufferevent_free, Discard, ringVars, Typed
  <2> QED BY <2>1, SameView
<1>3. client'[a] \in {"freed", "ended"}
  BY <1>1 DEF init_echo, client_echo_event_cb, ClientKilled, bufferevent_free, Typed
<1>4. RingAt(a)' = <<>> /\ OpenAt(a)' = "broken"
  BY <1>3 DEF RingAt, OpenAt, Linked
<1>5. {a} \in SUBSET Clients /\ Rings!Break({a})
  BY <1>2, <1>4, ViewBreak
<1> QED BY <1>5 DEF Rings!Next

(* The end of the server breaks every ring that it has heard of.            *)
LEMMA ServerEndsRefines ==
  ASSUME RingsInv, NEW keep \in BOOLEAN, ServerEnds(keep)
  PROVE  Rings!Next
<1>0. PICK S \in SUBSET Clients : S = {c \in Clients : bev[c] # "none"}
  OBVIOUS
<1>1. ASSUME NEW c \in S PROVE RingAt(c)' = <<>> /\ OpenAt(c)' = "broken"
  BY <1>0 DEF ServerEnds, RingAt, OpenAt, Linked
<1>2. ASSUME NEW c \in Clients \ S PROVE RingAt(c)' = RingAt(c) /\ OpenAt(c)' = OpenAt(c)
  <2>1. bev[c] = "none" /\ bev'[c] = "none" /\ client'[c] = client[c]
    BY <1>0 DEF ServerEnds
  <2> QED BY <2>1 DEF RingAt, OpenAt, Linked
<1>3. Rings!Break(S)
  BY <1>1, <1>2, ViewBreak
<1> QED BY <1>3 DEF Rings!Next

(* Server, clients and network together implement ByteRing: whatever is     *)
(* split, delayed and cut short, what can be seen on a connection is one    *)
(* greeting that the server's echo_read_cb turns, until an end goes away,   *)
(* and then only the rings of that end break.                               *)
THEOREM ProgramsAreRings == Spec => RingsSpec
<1>1. Init => Rings!Init
  BY DEF Init, Rings!Init, Linked
<1>2. RingsInv /\ [Next]_vars => [Rings!Next]_Rings!vars
  <2> SUFFICES ASSUME RingsInv, [Next]_vars PROVE Rings!Next \/ UNCHANGED Rings!vars
    OBVIOUS
  <2>1. CASE init_test_server \/ timeout_cb \/ UNCHANGED vars
    <3>1. \A c \in Clients : Same(c)
      BY <2>1 DEF Same, init_test_server, timeout_cb, vars, ringVars
    <3> QED BY <3>1, SameView, ViewStutter
  <2>2. ASSUME NEW a \in Clients, accept_conn_cb(a) PROVE Rings!Next \/ UNCHANGED Rings!vars
    BY <2>2, AcceptRefines
  <2>3. ASSUME NEW a \in Clients, \E n \in 1..Len(c2s[a]) : server_echo_read_cb(a, n)
        PROVE  Rings!Next \/ UNCHANGED Rings!vars
    BY <2>3, ServerReadRefines
  <2>4. ASSUME NEW a \in Clients,
               \/ \E n \in 1..Len(sOut[a]) : ServerWrites(a, n)
               \/ \E n \in 1..Len(s2c[a]) : client_echo_read_cb(a, n)
               \/ \E n \in 1..Len(cOut[a]) : ClientWrites(a, n)
        PROVE  UNCHANGED Rings!vars
    BY <2>4, MoveRefines
  <2>5. ASSUME NEW a \in Clients, Connected(a) \/ close_echo(a) \/ server_echo_event_cb(a)
        PROVE  UNCHANGED Rings!vars
    BY <2>5, QuietRefines
  <2>6. ASSUME NEW a \in Clients, client_echo_event_cb(a) \/ init_echo(a)
        PROVE  Rings!Next \/ UNCHANGED Rings!vars
    BY <2>6, QuietRefines, ClientGoneRefines
  <2>7. ASSUME NEW a \in Clients, \E n \in 0..Len(c2s[a]) : ClientKilled(a, n)
        PROVE  Rings!Next
    BY <2>7, ClientGoneRefines
  <2>8. ASSUME NEW keep \in BOOLEAN, ServerEnds(keep) PROVE Rings!Next
    BY <2>8, ServerEndsRefines
  <2> QED BY <2>1, <2>2, <2>3, <2>4, <2>5, <2>6, <2>7, <2>8
          DEF Next, ServerLoop, ClientLoop, Terminated
<1> QED BY <1>1, <1>2, InitRings, RingsStep, PTL DEF Spec, RingsSpec, Rings!Spec

===============================================================================
