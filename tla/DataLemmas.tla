------------------------------- MODULE DataLemmas -------------------------------
(***************************************************************************)
(* Facts the proofs share: remainders, on which pointer arithmetic rests,  *)
(* products with a constant, how many elements of a queue are of some kind, *)
(* induction, and sequences put together from many.                        *)
(***************************************************************************)
EXTENDS Integers, SequencesExt, SequenceTheorems, FiniteSetTheorems,
        WellFoundedInduction, TLAPS

-------------------------------------------------------------------------------

(* Division with remainder. *)
LEMMA DivMod ==
  ASSUME NEW a \in Int, NEW r \in Nat \ {0}
  PROVE  a = (r * (a \div r)) + (a % r) /\ a % r \in 0 .. r - 1 /\ a \div r \in Int
OBVIOUS

(* A number has one remainder. *)
LEMMA ModUnique ==
  ASSUME NEW r \in Nat \ {0}, NEW q \in Int, NEW k \in Int,
         NEW x \in 0 .. r - 1, NEW y \in 0 .. r - 1,
         (r * q) + x = (r * k) + y
  PROVE  x = y
<1>1. r * (q - k) = y - x
  OBVIOUS
<1>2. q - k <= 0
  <2>1. SUFFICES ASSUME q - k >= 1 PROVE FALSE
    OBVIOUS
  <2>2. r * (q - k) >= r
    BY <2>1
  <2> QED
    BY <1>1, <2>2
<1>3. q - k >= 0
  <2>1. SUFFICES ASSUME q - k <= -1 PROVE FALSE
    OBVIOUS
  <2>2. r * (q - k) <= -r
    BY <2>1
  <2> QED
    BY <1>1, <2>2
<1> QED
  BY <1>1, <1>2, <1>3

(* Reducing before adding changes nothing. *)
LEMMA ModPlus ==
  ASSUME NEW a \in Int, NEW r \in Nat \ {0}, NEW n \in Int
  PROVE  ((a % r) + n) % r = (a + n) % r
<1> DEFINE b == (a % r) + n
          c == a + n
          i == a \div r
          j == b \div r
          k == c \div r
<1>1. a % r \in 0 .. r - 1 /\ i \in Int /\ a = (r * i) + (a % r)
  BY DivMod
<1>2. b \in Int /\ c \in Int
  BY <1>1
<1>3. b % r \in 0 .. r - 1 /\ j \in Int /\ b = (r * j) + (b % r)
  BY <1>2, DivMod
<1>4. c % r \in 0 .. r - 1 /\ k \in Int /\ c = (r * k) + (c % r)
  BY <1>2, DivMod
<1>5. r * (i + j) = (r * i) + (r * j)
  BY <1>1, <1>3
<1>6. (r * (i + j)) + (b % r) = (r * k) + (c % r)
  BY <1>1, <1>3, <1>4, <1>5
<1>7. i + j \in Int
  BY <1>1, <1>3
<1> QED
  BY <1>3, <1>4, <1>6, <1>7, ModUnique

LEMMA ModShift ==
  ASSUME NEW a \in Int, NEW r \in Nat \ {0}, NEW k \in Int
  PROVE  (a + (r * k)) % r = a % r
<1> DEFINE b == a + (r * k)
           i == a \div r
           j == b \div r
<1>1. r * k \in Int /\ b \in Int
  OBVIOUS
<1>2. a % r \in 0 .. r - 1 /\ i \in Int /\ a = (r * i) + (a % r)
  BY DivMod
<1> HIDE DEF i
<1>3. b % r \in 0 .. r - 1 /\ j \in Int /\ b = (r * j) + (b % r)
  <2> HIDE DEF b
  <2> QED
    BY <1>1, DivMod
<1> HIDE DEF j
<1>4. i + k \in Int /\ (r * (i + k)) + (a % r) = (r * j) + (b % r)
  <2>1. r * (i + k) = (r * i) + (r * k)
    BY <1>2
  <2> DEFINE x == a % r
             y == b % r
             z == r * i
             v == r * k
  <2>2. x \in Int /\ z \in Int /\ v \in Int /\ a = z + x /\ b = a + v /\ b = (r * j) + y
    BY <1>1, <1>2, <1>3
  <2> HIDE DEF x, y, z, v
  <2>3. (z + v) + x = (r * j) + y
    BY <2>2
  <2> QED
    BY <1>2, <2>1, <2>3 DEF x, y, z, v
<1> HIDE DEF b
<1> QED
  BY <1>2, <1>3, <1>4, ModUnique DEF b

(* One lap around a ring of r slots: what wrapping does to a number less   *)
(* than one lap away from 0 .. r - 1.                                      *)
LEMMA Wrap ==
  ASSUME NEW r \in Nat \ {0}, NEW a \in Int
  PROVE  /\ a \in 0 .. r - 1 => a % r = a
         /\ a \in r .. r + r - 1 => a % r = a - r
         /\ a \in -r .. -1 => a % r = a + r
<1>1. a % r \in 0 .. r - 1 /\ a \div r \in Int /\ a = (r * (a \div r)) + (a % r)
  BY DivMod
<1>2. ASSUME a \in 0 .. r - 1 PROVE a % r = a
  <2>1. (r * (a \div r)) + (a % r) = (r * 0) + a
    BY <1>1
  <2> QED
    BY <1>1, <1>2, <2>1, ModUnique
<1>3. ASSUME a \in r .. r + r - 1 PROVE a % r = a - r
  <2>1. (r * (a \div r)) + (a % r) = (r * 1) + (a - r) /\ a - r \in 0 .. r - 1
    BY <1>1, <1>3
  <2> QED
    BY <1>1, <2>1, ModUnique
<1>4. ASSUME a \in -r .. -1 PROVE a % r = a + r
  <2>1. (r * (a \div r)) + (a % r) = (r * (-1)) + (a + r) /\ a + r \in 0 .. r - 1
    BY <1>1, <1>4
  <2> QED
    BY <1>1, <2>1, ModUnique
<1> QED
  BY <1>2, <1>3, <1>4

(* Two places less than one lap apart, counted from the same start h, are  *)
(* as far apart after wrapping.                                            *)
LEMMA Distance ==
  ASSUME NEW r \in Nat \ {0}, NEW h \in 0 .. r - 1,
         NEW k \in 0 .. r - 1, NEW n \in 0 .. r
  PROVE  (((h + k) % r) - ((h + n) % r)) % r = IF k >= n THEN k - n ELSE (k - n) + r
<1>1. \/ h + k \in 0 .. r - 1 /\ (h + k) % r = h + k
      \/ h + k \in r .. r + r - 1 /\ (h + k) % r = (h + k) - r
  <2> DEFINE a == h + k
  <2>1. a \in Int /\ (a \in 0 .. r - 1 \/ a \in r .. r + r - 1)
    OBVIOUS
  <2> HIDE DEF a
  <2>2. \/ a \in 0 .. r - 1 /\ a % r = a
        \/ a \in r .. r + r - 1 /\ a % r = a - r
    BY <2>1, Wrap
  <2> QED
    BY <2>2 DEF a
<1>2. \/ h + n \in 0 .. r - 1 /\ (h + n) % r = h + n
      \/ h + n \in r .. r + r - 1 /\ (h + n) % r = (h + n) - r
  <2> DEFINE a == h + n
  <2>1. a \in Int /\ (a \in 0 .. r - 1 \/ a \in r .. r + r - 1)
    OBVIOUS
  <2> HIDE DEF a
  <2>2. \/ a \in 0 .. r - 1 /\ a % r = a
        \/ a \in r .. r + r - 1 /\ a % r = a - r
    BY <2>1, Wrap
  <2> QED
    BY <2>2 DEF a
<1> DEFINE d == ((h + k) % r) - ((h + n) % r)
<1>3. d \in Int
  BY <1>1, <1>2
<1>4. \/ d \in 0 .. r - 1 /\ d % r = d
      \/ d \in -r .. -1 /\ d % r = d + r
  <2>1. d \in 0 .. r - 1 \/ d \in -r .. -1
    BY <1>1, <1>2
  <2> QED
    BY <1>3, <2>1, Wrap
<1>5. d \in {k - n, (k - n) + r, (k - n) - r}
  BY <1>1, <1>2
<1>6. d % r = IF k >= n THEN k - n ELSE (k - n) + r
  <2> HIDE DEF d
  <2> QED
    BY <1>4, <1>5
<1> QED
  BY <1>6

(* A number below r * r has two digits to the base r. *)
LEMMA TwoDigits ==
  ASSUME NEW r \in Nat \ {0}, NEW a \in Nat, a < r * r
  PROVE  a % r \in 0 .. r - 1 /\ a \div r \in 0 .. r - 1
<1>1. a % r \in 0 .. r - 1 /\ a \div r \in Int /\ a = (r * (a \div r)) + (a % r)
  BY DivMod
<1> DEFINE q == a \div r
<1> HIDE DEF q
<1>2. q \in Int /\ a = (r * q) + (a % r)
  BY <1>1 DEF q
<1>3. q >= 0
  <2>1. SUFFICES ASSUME q <= -1 PROVE FALSE
    BY <1>2
  <2>2. r * q <= -r
    BY <1>2, <2>1
  <2>3. r * q \in Int
    BY <1>2
  <2> DEFINE p == r * q
  <2>4. p \in Int /\ p <= -r /\ a = p + (a % r)
    BY <1>2, <2>2, <2>3
  <2> HIDE DEF p
  <2> QED
    BY <1>1, <2>4
<1>4. q <= r - 1
  <2>1. SUFFICES ASSUME q >= r PROVE FALSE
    BY <1>2
  <2>2. r * q >= r * r
    BY <1>2, <2>1
  <2>3. r * q \in Int /\ r * r \in Int
    BY <1>2
  <2> QED
    BY <1>1, <1>2, <2>2, <2>3
<1> QED
  BY <1>1, <1>2, <1>3, <1>4 DEF q

-------------------------------------------------------------------------------
(* Products with a constant. *)
LEMMA Product ==
  ASSUME NEW c \in Nat, NEW a \in Nat
  PROVE  c * a \in Nat /\ c * (a + 1) = (c * a) + c /\ c * 0 = 0
OBVIOUS

LEMMA ProductSum ==
  ASSUME NEW c \in Nat, NEW a \in Nat, NEW b \in Nat
  PROVE  c * (a + b) = (c * a) + (c * b)
OBVIOUS

LEMMA ProductMonotone ==
  ASSUME NEW c \in Nat, NEW a \in Nat, NEW b \in Nat, a <= b
  PROVE  c * a <= c * b
<1>1. PICK d \in Nat : b = a + d
  <2>1. b - a \in Nat /\ b = a + (b - a)
    OBVIOUS
  <2> QED
    BY <2>1
<1>2. c * b = (c * a) + (c * d)
  BY <1>1
<1>3. c * d \in Nat /\ c * a \in Nat
  BY <1>1
<1> QED
  BY <1>2, <1>3

-------------------------------------------------------------------------------
(* How many elements of q, from its i-th on, are in T. *)
PlacesFrom(q, i, T) == {j \in i .. Len(q) : q[j] \in T}
CountFrom(q, i, T) == Cardinality(PlacesFrom(q, i, T))

LEMMA CountType ==
  ASSUME NEW S, NEW q \in Seq(S), NEW i \in Nat, NEW T
  PROVE  IsFiniteSet(PlacesFrom(q, i, T)) /\ CountFrom(q, i, T) \in Nat
<1> DEFINE all == i .. Len(q)
<1>1. IsFiniteSet(all)
  <2>1. i \in Int /\ Len(q) \in Int
    BY LenProperties
  <2> QED
    BY <2>1, FS_Interval
<1>2. PlacesFrom(q, i, T) \in SUBSET all
  BY DEF PlacesFrom
<1> HIDE DEF all
<1> QED
  BY <1>1, <1>2, FS_Subset, FS_CardinalityType DEF CountFrom

LEMMA CountEmpty ==
  ASSUME NEW i \in Nat \ {0}, NEW T
  PROVE  CountFrom(<<>>, i, T) = 0
<1>1. i .. Len(<<>>) = {}
  OBVIOUS
<1>2. PlacesFrom(<<>>, i, T) = {}
  BY <1>1 DEF PlacesFrom
<1> QED
  BY <1>2, FS_EmptySet DEF CountFrom

LEMMA CountAppend ==
  ASSUME NEW S, NEW q \in Seq(S), NEW x \in S, NEW T, NEW i \in 1 .. Len(q) + 1
  PROVE  CountFrom(Append(q, x), i, T) = CountFrom(q, i, T) + (IF x \in T THEN 1 ELSE 0)
<1> DEFINE n == Len(q) + 1
           r == Append(q, x)
           old == PlacesFrom(q, i, T)
           new == PlacesFrom(r, i, T)
<1>1. /\ Len(q) \in Nat /\ n \in Nat /\ Len(r) = n /\ r[n] = x
      /\ \A j \in 1 .. Len(q) : r[j] = q[j]
  BY LenProperties, AppendProperties
<1>2. i .. n = (i .. Len(q)) \cup {n} /\ n \notin i .. Len(q) /\ i .. Len(q) \subseteq 1 .. Len(q)
  BY <1>1
<1> HIDE DEF n, r
<1>3. new = IF x \in T THEN old \cup {n} ELSE old
  BY <1>1, <1>2 DEF PlacesFrom
<1>4. n \notin old
  BY <1>2 DEF PlacesFrom
<1>5. IsFiniteSet(old) /\ Cardinality(old) \in Nat
  <2>1. i \in Nat
    OBVIOUS
  <2> QED
    BY <2>1, CountType DEF CountFrom
<1> HIDE DEF old, new
<1>6. Cardinality(old \cup {n}) = Cardinality(old) + 1
  BY <1>4, <1>5, FS_AddElement
<1>7. Cardinality(new) = Cardinality(old) + (IF x \in T THEN 1 ELSE 0)
  BY <1>3, <1>5, <1>6
<1> QED
  BY <1>7 DEF CountFrom, old, new, r

(* The first element does or does not count. *)
LEMMA CountFirst ==
  ASSUME NEW S, NEW q \in Seq(S), q # <<>>, NEW T
  PROVE  CountFrom(q, 1, T) = CountFrom(q, 2, T) + (IF q[1] \in T THEN 1 ELSE 0)
<1> DEFINE all == PlacesFrom(q, 1, T)
           rest == PlacesFrom(q, 2, T)
<1>1. Len(q) \in Nat \ {0}
  BY EmptySeq
<1>2. 1 .. Len(q) = (2 .. Len(q)) \cup {1} /\ 1 \notin 2 .. Len(q)
  BY <1>1
<1>3. all = (IF q[1] \in T THEN rest \cup {1} ELSE rest) /\ 1 \notin rest
  BY <1>2 DEF PlacesFrom
<1>4. IsFiniteSet(rest) /\ Cardinality(rest) \in Nat
  BY CountType DEF CountFrom
<1> HIDE DEF all, rest
<1>5. Cardinality(rest \cup {1}) = Cardinality(rest) + 1
  BY <1>3, <1>4, FS_AddElement
<1>6. Cardinality(all) = Cardinality(rest) + (IF q[1] \in T THEN 1 ELSE 0)
  BY <1>3, <1>4, <1>5
<1> QED
  BY <1>6 DEF CountFrom, all, rest

(* Without the first element, every place moves down by one. *)
LEMMA CountTail ==
  ASSUME NEW S, NEW q \in Seq(S), q # <<>>, NEW T, NEW i \in Nat \ {0}
  PROVE  CountFrom(Tail(q), i, T) = CountFrom(q, i + 1, T)
<1> DEFINE old == PlacesFrom(q, i + 1, T)
           new == PlacesFrom(Tail(q), i, T)
           down == [j \in old |-> j - 1]
<1>1. /\ Len(q) \in Nat \ {0} /\ Len(Tail(q)) = Len(q) - 1
      /\ \A j \in 1 .. Len(q) - 1 : Tail(q)[j] = q[j + 1]
  BY EmptySeq, HeadTailProperties
<1>2. ASSUME NEW j \in old PROVE j - 1 \in new
  <2>1. j \in i + 1 .. Len(q) /\ q[j] \in T
    BY DEF PlacesFrom
  <2>2. j - 1 \in i .. Len(q) - 1 /\ j - 1 \in 1 .. Len(q) - 1 /\ (j - 1) + 1 = j
    BY <1>1, <2>1
  <2> QED
    BY <1>1, <2>1, <2>2 DEF PlacesFrom
<1>3. ASSUME NEW k \in new PROVE k + 1 \in old /\ (k + 1) - 1 = k
  <2>1. k \in i .. Len(q) - 1 /\ Tail(q)[k] \in T
    BY <1>1 DEF PlacesFrom
  <2>2. k + 1 \in i + 1 .. Len(q) /\ k \in 1 .. Len(q) - 1 /\ (k + 1) - 1 = k
    BY <1>1, <2>1
  <2> QED
    BY <1>1, <2>1, <2>2 DEF PlacesFrom
<1>4. old \subseteq Int
  BY DEF PlacesFrom
<1>5. IsFiniteSet(old)
  <2>1. i + 1 \in Nat
    OBVIOUS
  <2> QED
    BY <2>1, CountType
<1> HIDE DEF old, new
<1>6. down \in Bijection(old, new)
  <2>1. down \in [old -> new]
    BY <1>2
  <2>2. \A a, b \in old : down[a] = down[b] => a = b
    BY <1>4
  <2>3. \A k \in new : \E j \in old : down[j] = k
    BY <1>3
  <2> QED
    BY <2>1, <2>2, <2>3 DEF Bijection, Injection, Surjection, IsInjective
<1>7. ExistsBijection(old, new)
  BY <1>6 DEF ExistsBijection
<1>8. Cardinality(old) = Cardinality(new)
  BY <1>5, <1>7, FS_Bijection
<1> QED
  BY <1>8 DEF CountFrom, old, new

(* A shorter sequence has no more of them. *)
LEMMA CountShorter ==
  ASSUME NEW S, NEW q \in Seq(S), NEW r \in Seq(S), Len(r) <= Len(q),
         \A i \in 1 .. Len(r) : r[i] = q[i], NEW T
  PROVE  CountFrom(r, 1, T) <= CountFrom(q, 1, T)
<1>1. Len(q) \in Nat /\ Len(r) \in Nat
  BY LenProperties
<1>2. PlacesFrom(r, 1, T) \in SUBSET PlacesFrom(q, 1, T)
  BY <1>1 DEF PlacesFrom
<1>3. IsFiniteSet(PlacesFrom(q, 1, T))
  BY CountType
<1> QED
  BY <1>2, <1>3, FS_Subset DEF CountFrom

(* Fewer kinds count for no more. *)
LEMMA CountFewer ==
  ASSUME NEW S, NEW q \in Seq(S), NEW i \in Nat, NEW T, NEW U, T \subseteq U
  PROVE  CountFrom(q, i, T) <= CountFrom(q, i, U)
<1>1. PlacesFrom(q, i, T) \subseteq PlacesFrom(q, i, U)
  BY DEF PlacesFrom
<1>2. IsFiniteSet(PlacesFrom(q, i, U))
  BY CountType
<1> QED
  BY <1>1, <1>2, FS_Subset DEF CountFrom

-------------------------------------------------------------------------------
(* Induction, with a set for the property. *)
LEMMA SetInduction ==
  ASSUME NEW S, 0 \in S, \A n \in Nat : n \in S => n + 1 \in S
  PROVE  Nat \subseteq S
<1> DEFINE T == Nat \ S
           R == {p \in Nat \X Nat : p[1] < p[2]}
<1>1. IsWellFoundedOn(R, Nat)
  BY NatLessThanWellFounded DEF OpToRel
<1>2. SUFFICES ASSUME T # {} PROVE FALSE
  OBVIOUS
<1>3. \A x, y \in Nat : x < y => <<x, y>> \in R
  OBVIOUS
<1> HIDE DEF R
<1>4. \E x \in T : \A y \in T : ~ (<<y, x>> \in R)
  BY <1>1, <1>2, WFMin
<1>5. PICK x \in T : \A y \in T : ~ (<<y, x>> \in R)
  BY <1>4
<1>6. x # 0 /\ x - 1 \in Nat /\ x - 1 < x
  OBVIOUS
<1>7. x - 1 \in S
  BY <1>3, <1>5, <1>6
<1>8. (x - 1) + 1 \in S
  BY <1>6, <1>7
<1> QED
  BY <1>8

-------------------------------------------------------------------------------
(* FlattenSeq, by the function it is defined with: g[i] is the first i        *)
(* sequences put together.                                                    *)
IsFlat(s, n, g) == g = [i \in 1 .. n |-> IF i = 1 THEN s[i] ELSE g[i - 1] \o s[i]]

(* Two functions that agree on the first n places. *)
Agree(s, t, n) == \A i \in 1 .. n : s[i] = t[i]

LEMMA FlatExists ==
  ASSUME NEW s
  PROVE  \A n \in Nat : \E g : IsFlat(s, n, g)
<1> DEFINE S == {n \in Nat : \E g : IsFlat(s, n, g)}
<1>1. 0 \in S
  <2>1. 1 .. 0 = {}
    OBVIOUS
  <2> DEFINE g == [i \in {} |-> s[i]]
  <2>2. IsFlat(s, 0, g)
    BY <2>1 DEF IsFlat
  <2> QED
    BY <2>2
<1>2. ASSUME NEW n \in Nat, n \in S PROVE n + 1 \in S
  <2>1. PICK g : IsFlat(s, n, g)
    BY <1>2
  <2> DEFINE h == [i \in 1 .. n + 1 |->
                     IF i <= n THEN g[i] ELSE IF i = 1 THEN s[i] ELSE g[n] \o s[i]]
  <2>2. ASSUME NEW i \in 1 .. n + 1
        PROVE  h[i] = IF i = 1 THEN s[i] ELSE h[i - 1] \o s[i]
    <3>1. CASE i <= n
      <4>1. i \in 1 .. n /\ (i # 1 => i - 1 \in 1 .. n /\ i - 1 \in 1 .. n + 1 /\ i - 1 <= n)
        BY <3>1
      <4>2. g[i] = IF i = 1 THEN s[i] ELSE g[i - 1] \o s[i]
        BY <2>1, <4>1 DEF IsFlat
      <4> QED
        BY <3>1, <4>1, <4>2
    <3>2. CASE ~(i <= n)
      <4>1. i = n + 1 /\ i - 1 = n /\ (i # 1 => n \in 1 .. n + 1 /\ n <= n)
        BY <3>2
      <4> QED
        BY <3>2, <4>1
    <3> QED
      BY <3>1, <3>2
  <2>3. h = [i \in 1 .. n + 1 |-> h[i]]
    OBVIOUS
  <2> HIDE DEF h
  <2>4. IsFlat(s, n + 1, h)
    BY <2>2, <2>3 DEF IsFlat
  <2> QED
    BY <2>4
<1> HIDE DEF S
<1>3. Nat \subseteq S
  BY <1>1, <1>2, SetInduction
<1> QED
  BY <1>3 DEF S

LEMMA FlatAgree ==
  ASSUME NEW s, NEW t, NEW m \in Nat, NEW k \in Nat, m <= k, NEW g, NEW h,
         IsFlat(s, m, g), IsFlat(t, k, h), Agree(s, t, m)
  PROVE  Agree(g, h, m)
<1> DEFINE S == {i \in Nat : i \in 1 .. m => g[i] = h[i]}
<1>1. 0 \in S
  OBVIOUS
<1>2. ASSUME NEW i \in Nat, i \in S PROVE i + 1 \in S
  <2> SUFFICES ASSUME i + 1 \in 1 .. m PROVE g[i + 1] = h[i + 1]
    OBVIOUS
  <2> DEFINE j == i + 1
  <2>1. j \in 1 .. m /\ j \in 1 .. k /\ (j # 1 => j - 1 = i /\ i \in 1 .. m)
    OBVIOUS
  <2> HIDE DEF j
  <2>2. /\ g[j] = IF j = 1 THEN s[j] ELSE g[j - 1] \o s[j]
        /\ h[j] = IF j = 1 THEN t[j] ELSE h[j - 1] \o t[j]
    BY <2>1 DEF IsFlat
  <2>3. g[j] = h[j]
    BY <1>2, <2>1, <2>2 DEF Agree
  <2> QED
    BY <2>3 DEF j
<1> HIDE DEF S
<1>3. Nat \subseteq S
  BY <1>1, <1>2, SetInduction
<1> QED
  BY <1>3 DEF S, Agree

LEMMA FlattenByFlat ==
  ASSUME NEW B, NEW s \in Seq(Seq(B)), s # <<>>
  PROVE  \E g : IsFlat(s, Len(s), g) /\ FlattenSeq(s) = g[Len(s)]
<1>1. Len(s) \in Nat /\ Len(s) # 0
  BY EmptySeq, LenProperties
<1> DEFINE g == CHOOSE g : g = [i \in 1 .. Len(s) |-> IF i = 1 THEN s[i] ELSE g[i - 1] \o s[i]]
<1>2. FlattenSeq(s) = g[Len(s)]
  BY <1>1 DEF FlattenSeq
<1>3. PICK f : f = [i \in 1 .. Len(s) |-> IF i = 1 THEN s[i] ELSE f[i - 1] \o s[i]]
  BY <1>1, FlatExists DEF IsFlat
<1>4. g = [i \in 1 .. Len(s) |-> IF i = 1 THEN s[i] ELSE g[i - 1] \o s[i]]
  BY <1>3
<1> HIDE DEF g
<1> QED
  BY <1>2, <1>4 DEF IsFlat

LEMMA FlattenEmpty == FlattenSeq(<<>>) = <<>>
<1>1. Len(<<>>) = 0
  OBVIOUS
<1> QED
  BY <1>1 DEF FlattenSeq

LEMMA FlattenAppend ==
  ASSUME NEW B, NEW s \in Seq(Seq(B)), NEW x \in Seq(B)
  PROVE  FlattenSeq(Append(s, x)) = FlattenSeq(s) \o x
<1>0. PICK n \in Nat, t \in Seq(Seq(B)) : n = Len(s) /\ t = Append(s, x)
  BY LenProperties, AppendProperties
<1>1. /\ n \in Nat /\ t \in Seq(Seq(B)) /\ Len(t) = n + 1 /\ t[n + 1] = x
      /\ \A i \in 1 .. n : t[i] = s[i]
  BY <1>0, LenProperties, AppendProperties
<1>2. t # <<>>
  BY <1>1, EmptySeq
<1>3. PICK h : IsFlat(t, n + 1, h) /\ FlattenSeq(t) = h[n + 1]
  BY <1>1, <1>2, FlattenByFlat
<1>4. h[n + 1] = IF n = 0 THEN x ELSE h[n] \o x
  <2>1. n + 1 \in 1 .. n + 1 /\ (n + 1 = 1 <=> n = 0) /\ (n + 1) - 1 = n
    OBVIOUS
  <2> QED
    BY <1>1, <1>3, <2>1 DEF IsFlat
<1>5. CASE s = <<>>
  <2>1. n = 0
    BY <1>0, <1>5
  <2>2. <<>> \o x = x
    BY ConcatEmptySeq
  <2> QED
    BY <1>0, <1>3, <1>4, <1>5, <2>1, <2>2, FlattenEmpty
<1>6. CASE s # <<>>
  <2>1. PICK g : IsFlat(s, n, g) /\ FlattenSeq(s) = g[n]
    BY <1>0, <1>6, FlattenByFlat
  <2>2. n # 0 /\ n \in 1 .. n /\ n <= n + 1 /\ n + 1 \in Nat
    BY <1>0, <1>1, <1>6, EmptySeq
  <2>3. g[n] = h[n]
    <3>1. \A i \in 1 .. n : s[i] = t[i]
      BY <1>1
    <3>2. IsFlat(s, n, g)
      BY <2>1
    <3>3. IsFlat(t, n + 1, h)
      BY <1>3
    <3>4. Agree(s, t, n)
      BY <3>1 DEF Agree
    <3>5. Agree(g, h, n)
      BY <2>2, <3>2, <3>3, <3>4, FlatAgree, Zenon
    <3> QED
      BY <2>2, <3>5 DEF Agree
  <2> QED
    BY <1>0, <1>3, <1>4, <2>1, <2>2, <2>3
<1> QED
  BY <1>5, <1>6

(* A sequence that is not empty, by its last element. *)
LEMMA LastSplit ==
  ASSUME NEW S, NEW s \in Seq(S), s # <<>>
  PROVE  \E t \in Seq(S), x \in S : s = Append(t, x) /\ Len(t) = Len(s) - 1
<1>1. Len(s) \in Nat \ {0}
  BY EmptySeq, LenProperties
<1> DEFINE n == Len(s) - 1
           t == SubSeq(s, 1, n)
<1>2. /\ n \in Nat /\ n + 1 = Len(s) /\ s[n + 1] \in S
      /\ \A i \in 1 .. n : s[i] \in S
  BY <1>1, ElementOfSeq
<1> HIDE DEF n
<1>3. t \in Seq(S) /\ Len(t) = n /\ \A i \in 1 .. n : t[i] = s[i]
  <2>1. /\ t \in Seq(S)
        /\ Len(t) = IF 1 <= n THEN n - 1 + 1 ELSE 0
        /\ \A i \in 1 .. n - 1 + 1 : t[i] = s[1 + i - 1]
    BY <1>2, SubSeqProperties
  <2>2. n - 1 + 1 = n /\ \A i \in 1 .. n : 1 + i - 1 = i
    BY <1>2
  <2> QED
    BY <1>2, <2>1, <2>2
<1> HIDE DEF t
<1> DEFINE r == Append(t, s[n + 1])
<1>4. /\ r \in Seq(S) /\ Len(r) = n + 1 /\ r[n + 1] = s[n + 1]
      /\ \A i \in 1 .. n : r[i] = t[i]
  BY <1>2, <1>3, AppendProperties
<1> HIDE DEF r
<1>5. \A i \in 1 .. Len(s) : s[i] = r[i]
  <2> TAKE i \in 1 .. Len(s)
  <2>1. i \in 1 .. n \/ i = n + 1
    BY <1>2
  <2> QED
    BY <1>3, <1>4, <2>1
<1>6. s = r
  BY <1>2, <1>4, <1>5, SeqEqual
<1>7. s = Append(t, s[n + 1]) /\ Len(t) = Len(s) - 1
  BY <1>2, <1>3, <1>6 DEF r
<1> QED
  BY <1>2, <1>3, <1>7

LEMMA FlattenType ==
  ASSUME NEW B
  PROVE  \A s \in Seq(Seq(B)) : FlattenSeq(s) \in Seq(B)
<1> DEFINE S == {n \in Nat : \A s \in Seq(Seq(B)) : Len(s) = n => FlattenSeq(s) \in Seq(B)}
<1>1. 0 \in S
  BY EmptySeq, FlattenEmpty
<1>2. ASSUME NEW n \in Nat, n \in S PROVE n + 1 \in S
  <2> SUFFICES ASSUME NEW s \in Seq(Seq(B)), Len(s) = n + 1 PROVE FlattenSeq(s) \in Seq(B)
    OBVIOUS
  <2>1. s # <<>>
    BY EmptySeq
  <2>2. PICK t \in Seq(Seq(B)), x \in Seq(B) : s = Append(t, x) /\ Len(t) = Len(s) - 1
    BY <2>1, LastSplit
  <2>3. Len(t) = n
    BY <2>2
  <2>4. FlattenSeq(t) \in Seq(B)
    BY <1>2, <2>3
  <2>5. FlattenSeq(s) = FlattenSeq(t) \o x
    BY <2>2, FlattenAppend
  <2> QED
    BY <2>4, <2>5, ConcatProperties
<1> HIDE DEF S
<1>3. Nat \subseteq S
  BY <1>1, <1>2, SetInduction
<1> QED
  BY <1>3, LenProperties DEF S

LEMMA FlattenFirst ==
  ASSUME NEW B
  PROVE  \A s \in Seq(Seq(B)) : s # <<>> => FlattenSeq(s) = Head(s) \o FlattenSeq(Tail(s))
<1>0. \A a, b, c \in Seq(B) : (a \o b) \o c = a \o (b \o c)
  BY ConcatAssociative
<1> DEFINE S == {n \in Nat : \A s \in Seq(Seq(B)) :
                   Len(s) = n /\ s # <<>> => FlattenSeq(s) = Head(s) \o FlattenSeq(Tail(s))}
<1>1. 0 \in S
  BY EmptySeq
<1>2. ASSUME NEW n \in Nat, n \in S PROVE n + 1 \in S
  <2> SUFFICES ASSUME NEW s \in Seq(Seq(B)), Len(s) = n + 1
               PROVE  FlattenSeq(s) = Head(s) \o FlattenSeq(Tail(s))
    OBVIOUS
  <2>1. s # <<>>
    BY EmptySeq
  <2>2. PICK t \in Seq(Seq(B)), x \in Seq(B) : s = Append(t, x) /\ Len(t) = Len(s) - 1
    BY <2>1, LastSplit
  <2>3. Len(t) = n /\ FlattenSeq(s) = FlattenSeq(t) \o x
    BY <2>2, FlattenAppend
  <2>4. CASE t = <<>>
    <3>1. Head(s) = x /\ Tail(s) = <<>>
      BY <2>2, <2>4
    <3>2. <<>> \o x = x /\ x \o <<>> = x
      BY ConcatEmptySeq
    <3> QED
      BY <2>3, <2>4, <3>1, <3>2, FlattenEmpty
  <2>5. CASE t # <<>>
    <3>1. FlattenSeq(t) = Head(t) \o FlattenSeq(Tail(t))
      BY <1>2, <2>3, <2>5
    <3>2. Head(s) = Head(t) /\ Tail(s) = Append(Tail(t), x)
      BY <2>2, <2>5
    <3>3. Head(t) \in Seq(B) /\ Tail(t) \in Seq(Seq(B))
      BY <2>5, HeadTailProperties
    <3>4. FlattenSeq(Tail(t)) \in Seq(B) /\ FlattenSeq(Tail(s)) = FlattenSeq(Tail(t)) \o x
      BY <3>2, <3>3, FlattenAppend, FlattenType
    <3>5. (Head(t) \o FlattenSeq(Tail(t))) \o x = Head(t) \o (FlattenSeq(Tail(t)) \o x)
      BY <1>0, <3>3, <3>4
    <3> QED
      BY <2>3, <3>1, <3>2, <3>4, <3>5, Zenon
  <2> QED
    BY <2>4, <2>5
<1> HIDE DEF S
<1>3. Nat \subseteq S
  BY <1>1, <1>2, SetInduction
<1> QED
  BY <1>3, LenProperties DEF S

LEMMA ConsParts ==
  ASSUME NEW S, NEW x \in S, NEW t \in Seq(S)
  PROVE  /\ <<x>> \o t \in Seq(S) /\ <<x>> \o t # <<>> /\ Len(<<x>> \o t) = Len(t) + 1
         /\ Head(<<x>> \o t) = x /\ Tail(<<x>> \o t) = t
<1> DEFINE r == <<x>> \o t
<1>1. <<x>> \in Seq(S) /\ Len(<<x>>) = 1 /\ <<x>>[1] = x /\ Len(t) \in Nat
  BY LenProperties
<1>2. /\ r \in Seq(S) /\ Len(r) = Len(t) + 1 /\ r[1] = x
      /\ \A i \in 1 .. Len(t) : r[i + 1] = t[i]
  <2>1. /\ r \in Seq(S) /\ Len(r) = Len(<<x>>) + Len(t)
        /\ \A i \in 1 .. Len(<<x>>) + Len(t) :
             r[i] = IF i <= Len(<<x>>) THEN <<x>>[i] ELSE t[i - Len(<<x>>)]
    BY <1>1, ConcatProperties
  <2> HIDE DEF r
  <2> QED
    BY <1>1, <2>1
<1> HIDE DEF r
<1>3. r # <<>>
  BY <1>1, <1>2, EmptySeq
<1>4. Head(r) = r[1] /\ Tail(r) \in Seq(S) /\ Len(Tail(r)) = Len(r) - 1
      /\ \A i \in 1 .. Len(Tail(r)) : Tail(r)[i] = r[i + 1]
  BY <1>2, <1>3, HeadTailProperties
<1>5. Len(Tail(r)) = Len(t) /\ \A i \in 1 .. Len(t) : Tail(r)[i] = t[i]
  BY <1>1, <1>2, <1>4
<1>6. Tail(r) = t
  BY <1>4, <1>5, SeqEqual
<1> QED
  BY <1>2, <1>3, <1>4, <1>6 DEF r

===============================================================================
