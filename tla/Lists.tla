--------------------------------- MODULE Lists ---------------------------------
(***************************************************************************)
(* What the proofs need to know of queues: the elements of a sequence      *)
(* after #drain took some off its front, a timer one out of its middle, or *)
(* a call joined its end; that numbers have a least one; and what sums,    *)
(* defined by recursion, come to.                                          *)
(***************************************************************************)
EXTENDS Numbers, Integers, SequencesExt, FiniteSetTheorems, WellFoundedInduction, TLAPS

Listed(s) == {s[i] : i \in DOMAIN s}
Distinct(s) == \A i, j \in DOMAIN s : s[i] = s[j] => i = j

\* Appending a new element.
LEMMA AppendListed ==
    ASSUME NEW S, NEW s \in Seq(S), NEW x \in S, x \notin Listed(s), Distinct(s)
    PROVE  Listed(Append(s, x)) = Listed(s) \cup {x} /\ Distinct(Append(s, x))
<1>1. /\ DOMAIN Append(s, x) = DOMAIN s \cup {Len(s) + 1}
      /\ \A i \in DOMAIN s : Append(s, x)[i] = s[i]
      /\ Append(s, x)[Len(s) + 1] = x
      /\ Len(s) + 1 \notin DOMAIN s
  OBVIOUS
<1>2. QED BY <1>1 DEF Listed, Distinct

\* Dropping the first n elements.
LEMMA DropListed ==
    ASSUME NEW S, NEW s \in Seq(S), Distinct(s), NEW n \in 0..Len(s)
    PROVE  LET r == SubSeq(s, n + 1, Len(s)) IN
           Listed(r) = Listed(s) \ {s[i] : i \in 1..n} /\ Distinct(r)
<1> DEFINE r == SubSeq(s, n + 1, Len(s))
<1>1. /\ DOMAIN r = 1..(Len(s) - n) /\ DOMAIN s = 1..Len(s)
      /\ \A i \in 1..(Len(s) - n) : r[i] = s[i + n]
  OBVIOUS
<1> HIDE DEF r
<1>2. \A i \in DOMAIN s : i \notin 1..n => i - n \in DOMAIN r /\ r[i - n] = s[i]
  BY <1>1
<1>3. \A i \in DOMAIN r : i + n \in DOMAIN s /\ i + n \notin 1..n
  BY <1>1
<1>4. Distinct(r)
  <2> SUFFICES ASSUME NEW i \in DOMAIN r, NEW j \in DOMAIN r, r[i] = r[j] PROVE i = j
    BY DEF Distinct
  <2>1. i + n = j + n
    BY <1>1, <1>3 DEF Distinct
  <2>2. QED BY <1>1, <2>1
<1>5. ASSUME NEW x \in Listed(r) PROVE x \in Listed(s) /\ x \notin {s[i] : i \in 1..n}
  <2>1. PICK i \in DOMAIN r : x = r[i]
    BY <1>5 DEF Listed
  <2>2. x = s[i + n]
    BY <1>1, <2>1
  <2>3. 1..n \subseteq DOMAIN s
    BY <1>1
  <2>4. QED
    BY <1>3, <2>2, <2>3 DEF Listed, Distinct
<1>6. ASSUME NEW x \in Listed(s), x \notin {s[i] : i \in 1..n} PROVE x \in Listed(r)
  BY <1>2, <1>6 DEF Listed
<1>7. QED
  BY <1>4, <1>5, <1>6 DEF r

\* Where the elements are once one is removed.
LEMMA RemoveAtPlaces ==
    ASSUME NEW S, NEW s \in Seq(S), NEW k \in DOMAIN s
    PROVE  LET r == RemoveAt(s, k) IN
           /\ r \in Seq(S) /\ DOMAIN r = 1..(Len(s) - 1) /\ DOMAIN s = 1..Len(s)
           /\ \A i \in 1..(Len(s) - 1) : r[i] = IF i < k THEN s[i] ELSE s[i + 1]
<1> DEFINE r == RemoveAt(s, k)
           front == SubSeq(s, 1, k - 1)
           rest == SubSeq(s, k + 1, Len(s))
<1>1. /\ Len(front) = k - 1 /\ \A i \in 1..(k - 1) : front[i] = s[i]
      /\ Len(rest) = Len(s) - k /\ \A i \in 1..(Len(s) - k) : rest[i] = s[k + i]
      /\ front \in Seq(S) /\ rest \in Seq(S)
  OBVIOUS
<1>2. r = front \o rest
  BY DEF RemoveAt
<1> HIDE DEF front, rest, r
<1>3. /\ DOMAIN r = 1..(Len(s) - 1) /\ DOMAIN s = 1..Len(s)
      /\ \A i \in 1..(Len(s) - 1) : r[i] = IF i < k THEN s[i] ELSE s[i + 1]
  BY <1>1, <1>2
<1>4. r \in Seq(S)
  BY <1>1, <1>2
<1>5. QED
  BY <1>3, <1>4 DEF r

\* Removing the element at a position.
LEMMA RemoveAtListed ==
    ASSUME NEW S, NEW s \in Seq(S), Distinct(s), NEW k \in DOMAIN s
    PROVE  Listed(RemoveAt(s, k)) = Listed(s) \ {s[k]} /\ Distinct(RemoveAt(s, k))
<1> DEFINE r == RemoveAt(s, k)
<1>1. /\ DOMAIN r = 1..(Len(s) - 1) /\ DOMAIN s = 1..Len(s)
      /\ \A i \in 1..(Len(s) - 1) : r[i] = IF i < k THEN s[i] ELSE s[i + 1]
  BY RemoveAtPlaces
<1> HIDE DEF r
<1>2. \A i \in DOMAIN r :
        \E m \in DOMAIN s : m # k /\ r[i] = s[m] /\ m = IF i < k THEN i ELSE i + 1
  BY <1>1
<1>3. Distinct(r)
  <2> SUFFICES ASSUME NEW i \in DOMAIN r, NEW j \in DOMAIN r, r[i] = r[j] PROVE i = j
    BY DEF Distinct
  <2>1. (IF i < k THEN i ELSE i + 1) = (IF j < k THEN j ELSE j + 1)
    BY <1>2 DEF Distinct
  <2>2. QED BY <1>1, <2>1
<1>4. Listed(r) \subseteq Listed(s) \ {s[k]}
  BY <1>2 DEF Listed, Distinct
<1>5. ASSUME NEW m \in DOMAIN s, m # k PROVE s[m] \in Listed(r)
  <2>1. CASE m < k
    BY <1>1, <2>1 DEF Listed
  <2>2. CASE m > k
    <3>1. m - 1 \in DOMAIN r /\ r[m - 1] = s[m]
      BY <1>1, <2>2
    <3>2. QED BY <3>1 DEF Listed
  <2>3. QED BY <1>1, <1>5, <2>1, <2>2
<1>6. QED
  BY <1>3, <1>4, <1>5 DEF r, Listed

\* The first n entries of a queue without repetition are n calls.
LEMMA PrefixSize ==
    ASSUME NEW S, NEW s \in Seq(S), Distinct(s), NEW n \in 0..Len(s)
    PROVE  LET p == {s[i] : i \in 1..n} IN IsFiniteSet(p) /\ Cardinality(p) = n
<1> DEFINE p == {s[i] : i \in 1..n}
           f == [i \in 1..n |-> s[i]]
<1>1. n \in Nat /\ 1..n \subseteq DOMAIN s
  OBVIOUS
<1>2. f \in Bijection(1..n, p)
  BY <1>1 DEF Bijection, Injection, Surjection, IsInjective, Distinct
<1>3. ExistsBijection(1..n, p)
  BY <1>2 DEF ExistsBijection
<1>4. IsFiniteSet(1..n) /\ Cardinality(1..n) = n
  BY <1>1, FS_Interval
<1>5. QED
  BY <1>3, <1>4, FS_Bijection

\* A set of natural numbers has a least one.
LEMMA Least ==
    ASSUME NEW S, S \subseteq Nat, S # {}
    PROVE  \E n \in S : \A m \in S : n <= m
<1> DEFINE R == OpToRel(<, Nat)
<1>1. \A m, n \in Nat : <<m, n>> \in R <=> m < n
  BY DEF OpToRel
<1>2. IsWellFoundedOn(R, Nat)
  BY NatLessThanWellFounded
<1> HIDE DEF R
<1>3. PICK n \in S : \A m \in S : ~ (<<m, n>> \in R)
  BY <1>2, WFMin
<1>4. \A m \in S : m \in Nat /\ n \in Nat /\ ~(m < n)
  BY <1>1, <1>3
<1>5. QED
  BY <1>4

\* Arithmetic that a prover finds only where there is nothing else to look at.
LEMMA Division ==
    ASSUME NEW a \in Nat, NEW c \in Nat \ {0}
    PROVE  a \div c \in Nat /\ (a \div c) * c <= a /\ a < (a \div c) * c + c
OBVIOUS

LEMMA Stretched ==
    ASSUME NEW a \in Nat, NEW b \in Int, NEW c \in Int, b <= c
    PROVE  b * a <= c * a /\ a * b <= a * c
OBVIOUS

LEMMA Distributed ==
    ASSUME NEW a \in Int, NEW b \in Int
    PROVE  (a - 1) * b + b = a * b /\ b * (a + 1) = b * a + b
OBVIOUS

LEMMA Differences ==
    ASSUME NEW a \in Int, NEW b \in Int, NEW c \in Int, NEW d \in Int
    PROVE  (a - b - c) * d = a * d - b * d - c * d
OBVIOUS

\* Recursion.  A recursive function is what its equation says it is if some function
\* satisfies that, and one is found by going up from the least length without one.
\* What is added to a value at each length is in turn a function, `step`.
Stepped(f, n, first, step, D) ==
    /\ f \in [0..n -> D] /\ f[0] = first
    /\ \A i \in 1..n : f[i] = step[<<i, f[i - 1]>>]

LEMMA Recursion ==
    ASSUME NEW D, NEW first \in D, NEW n \in Nat, NEW step,
           \A i \in 1..n, x \in D : step[<<i, x>>] \in D
    PROVE  \E f : Stepped(f, n, first, step, D)
<1> DEFINE Without == {m \in 0..n : ~\E f : Stepped(f, m, first, step, D)}
<1>1. Without = {}
  <2> SUFFICES ASSUME Without # {} PROVE FALSE
    OBVIOUS
  <2>1. Without \subseteq Nat
    OBVIOUS
  <2>2. PICK m \in Without : \A k \in Without : m <= k
    BY <2>1, Least
  <2>3. m \in 0..n /\ ~\E f : Stepped(f, m, first, step, D)
    OBVIOUS
  <2>4. CASE m = 0
    <3>1. Stepped([i \in 0..0 |-> first], 0, first, step, D)
      BY DEF Stepped
    <3> QED BY <2>3, <2>4, <3>1
  <2>5. CASE m > 0
    <3>1. m - 1 \in 0..n /\ ~(m <= m - 1)
      BY <2>3, <2>5
    <3>2. PICK f : Stepped(f, m - 1, first, step, D)
      BY <2>2, <3>1
    <3> HIDE DEF Without
    <3> DEFINE g == [i \in 0..m |-> IF i = m THEN step[<<m, f[m - 1]>>] ELSE f[i]]
    <3>3. f[m - 1] \in D /\ m \in 1..n
      BY <2>3, <2>5, <3>2 DEF Stepped
    <3>4. g[m] = step[<<m, f[m - 1]>>] /\ g[m] \in D
      BY <2>3, <3>3
    <3>5. \A i \in 0..m - 1 : g[i] = f[i] /\ f[i] \in D
      BY <2>3, <2>5, <3>2 DEF Stepped
    <3>6. g \in [0..m -> D] /\ g[0] = first
      BY <2>3, <2>5, <3>2, <3>4, <3>5 DEF Stepped
    <3>7. \A i \in 1..m - 1 : g[i] = step[<<i, g[i - 1]>>]
      <4> SUFFICES ASSUME NEW i \in 1..m - 1 PROVE g[i] = step[<<i, g[i - 1]>>]
        OBVIOUS
      <4>1. i \in 0..m - 1 /\ i - 1 \in 0..m - 1
        BY <2>3
      <4>2. f[i] = step[<<i, f[i - 1]>>]
        BY <3>2 DEF Stepped
      <4> HIDE DEF g
      <4> QED BY <3>5, <4>1, <4>2
    <3>8. g[m] = step[<<m, g[m - 1]>>]
      <4>1. m - 1 \in 0..m - 1
        BY <2>3, <2>5
      <4> HIDE DEF g
      <4> QED BY <3>4, <3>5, <4>1
    <3> HIDE DEF g
    <3>9. \A i \in 1..m : i = m \/ i \in 1..m - 1
      BY <2>3
    <3>10. Stepped(g, m, first, step, D)
      BY <3>6, <3>7, <3>8, <3>9 DEF Stepped
    <3> QED BY <2>3, <3>10
  <2> QED BY <2>3, <2>4, <2>5
<1>2. n \in 0..n /\ n \notin Without
  BY <1>1
<1> QED BY <1>2

\* The sequences of a sequence one after another.
LEMMA Flattened ==
    ASSUME NEW S, NEW seqs \in Seq(Seq(S))
    PROVE  FlattenSeq(seqs) \in Seq(S)
<1> DEFINE n == Len(seqs)
<1>1. n \in Nat /\ \A i \in 1..n : seqs[i] \in Seq(S)
  OBVIOUS
<1>2. CASE n = 0
  <2>1. FlattenSeq(seqs) = seqs
    BY <1>2 DEF FlattenSeq
  <2>2. seqs = <<>>
    BY <1>2
  <2> QED BY <2>1, <2>2
<1>3. CASE n # 0
  <2> DEFINE body(g) == [i \in 1..n |-> IF i = 1 THEN seqs[i] ELSE g[i - 1] \o seqs[i]]
             step == [p \in (1..n) \X Seq(S) |-> IF p[1] = 1 THEN seqs[1] ELSE p[2] \o seqs[p[1]]]
             flatten == CHOOSE g : g = body(g)
  <2>1. FlattenSeq(seqs) = flatten[n]
    BY <1>3 DEF FlattenSeq
  <2>2. \A i \in 1..n, x \in Seq(S) :
          /\ step[<<i, x>>] = IF i = 1 THEN seqs[1] ELSE x \o seqs[i]
          /\ step[<<i, x>>] \in Seq(S)
    BY <1>1
  <2>3. <<>> \in Seq(S)
    OBVIOUS
  <2> HIDE DEF step
  <2>4. PICK f : Stepped(f, n, <<>>, step, Seq(S))
    BY <1>1, <2>2, <2>3, Recursion
  <2> DEFINE h == [i \in 1..n |-> f[i]]
  <2>5. \A i \in 1..n : f[i] = IF i = 1 THEN seqs[i] ELSE f[i - 1] \o seqs[i]
    <3> SUFFICES ASSUME NEW i \in 1..n PROVE f[i] = IF i = 1 THEN seqs[i] ELSE f[i - 1] \o seqs[i]
      OBVIOUS
    <3>1. i - 1 \in 0..n /\ f[i - 1] \in Seq(S)
      <4>1. i - 1 \in 0..n
        BY <1>1
      <4>2. f \in [0..n -> Seq(S)]
        BY <2>4 DEF Stepped
      <4> HIDE DEF n
      <4> QED BY <4>1, <4>2
    <3>2. f[i] = step[<<i, f[i - 1]>>]
      BY <2>4 DEF Stepped
    <3> QED BY <2>2, <3>1, <3>2
  <2>6. h = body(h)
    <3>1. \A i \in 1..n : i # 1 => i - 1 \in 1..n
      BY <1>1
    <3>2. \A i \in 1..n : h[i] = f[i] /\ (i # 1 => h[i - 1] = f[i - 1])
      BY <3>1
    <3>3. \A i \in 1..n : f[i] = IF i = 1 THEN seqs[i] ELSE h[i - 1] \o seqs[i]
      BY <2>5, <3>2
    <3> QED BY <3>3
  <2>7. flatten = body(flatten)
    BY <2>6
  <2> HIDE DEF flatten, h
  <2> DEFINE Bad == {i \in 1..n : flatten[i] \notin Seq(S)}
  <2>8. Bad = {}
    <3> SUFFICES ASSUME Bad # {} PROVE FALSE
      OBVIOUS
    <3>1. Bad \subseteq Nat
      BY <1>1
    <3>2. PICK i \in Bad : \A j \in Bad : i <= j
      BY <3>1, Least
    <3>3. i \in 1..n /\ flatten[i] = IF i = 1 THEN seqs[i] ELSE flatten[i - 1] \o seqs[i]
      BY <2>7
    <3>4. i # 1 => i - 1 \in 1..n /\ ~(i <= i - 1)
      BY <1>1, <3>3
    <3>5. i # 1 => flatten[i - 1] \in Seq(S)
      BY <3>2, <3>4
    <3>6. seqs[i] \in Seq(S)
      BY <1>1, <3>3
    <3>7. flatten[i] \in Seq(S)
      BY <3>3, <3>5, <3>6
    <3> QED BY <3>7
  <2> QED BY <1>1, <1>3, <2>1, <2>8
<1> QED BY <1>2, <1>3

\* The remainders of numbers less than c apart.
LEMMA Remainders ==
    ASSUME NEW a \in Nat, NEW b \in Nat, NEW c \in Nat \ {0}, a < b, b < a + c
    PROVE  a % c # b % c
<1> SUFFICES ASSUME a % c = b % c PROVE FALSE
  OBVIOUS
<1>1. PICK p, q : p = a \div c /\ q = b \div c
  OBVIOUS
<1>2. p \in Nat /\ q \in Nat /\ a = c * p + (a % c) /\ b = c * q + (b % c)
  BY <1>1
<1>3. a % c \in Nat /\ c * p \in Int /\ c * q \in Int
  BY <1>2
<1>4. c * p < c * q /\ c * q < c * p + c
  BY <1>2, <1>3
<1>5. CASE q <= p
  <2>1. c * q <= c * p
    BY <1>2, <1>5, Stretched
  <2> QED BY <1>3, <1>4, <2>1
<1>6. CASE p + 1 <= q
  <2>1. c * (p + 1) = c * p + c
    BY <1>2, Distributed
  <2>2. c * (p + 1) <= c * q
    BY <1>2, <1>6, Stretched
  <2> QED BY <1>3, <1>4, <2>1, <2>2
<1> QED BY <1>2, <1>5, <1>6

\* Running sums.
Summed(s, n, f) ==
    /\ f \in [0..n -> Nat] /\ f[0] = 0
    /\ \A i \in 1..n : f[i] = f[i - 1] + s[i]
Adding(s, g) == [i \in 0..Len(s) |-> IF i = 0 THEN 0 ELSE g[i - 1] + s[i]]

LEMMA SumsAre ==
    ASSUME NEW s \in Seq(Nat)
    PROVE  Summed(s, Len(s), Sums(s))
<1> DEFINE step == [p \in (1..Len(s)) \X Nat |-> p[2] + s[p[1]]]
<1>1. \A i \in 1..Len(s), x \in Nat : step[<<i, x>>] = x + s[i] /\ step[<<i, x>>] \in Nat
  OBVIOUS
<1> HIDE DEF step
<1>2. PICK f : Stepped(f, Len(s), 0, step, Nat)
  <2>1. Len(s) \in Nat /\ 0 \in Nat
    OBVIOUS
  <2> QED BY <1>1, <2>1, Recursion
<1>3. f = Adding(s, f)
  <2>1. f \in [0..Len(s) -> Nat] /\ f[0] = 0 /\ \A i \in 1..Len(s) : f[i] = step[<<i, f[i - 1]>>]
    BY <1>2 DEF Stepped
  <2>2. \A i \in 1..Len(s) : i - 1 \in 0..Len(s)
    OBVIOUS
  <2>3. \A i \in 1..Len(s) : f[i] = f[i - 1] + s[i]
    BY <1>1, <2>1, <2>2
  <2> QED BY <2>1, <2>3 DEF Adding
<1>4. Sums(s) = CHOOSE g : g = Adding(s, g)
  BY DEF Sums, Adding
<1>5. Sums(s) = Adding(s, Sums(s))
  BY <1>3, <1>4
<1>6. PICK h : h = Sums(s)
  OBVIOUS
<1>7. h = Adding(s, h)
  BY <1>5, <1>6
<1>8. /\ DOMAIN h = 0..Len(s) /\ h = [i \in 0..Len(s) |-> h[i]]
      /\ h[0] = 0 /\ \A i \in 1..Len(s) : h[i] = h[i - 1] + s[i]
  BY <1>7 DEF Adding
<1> DEFINE Off == {n \in 0..Len(s) : h[n] \notin Nat}
<1>9. Off = {}
  <2> SUFFICES ASSUME Off # {} PROVE FALSE
    OBVIOUS
  <2>1. Off \subseteq Nat
    OBVIOUS
  <2>2. PICK n \in Off : \A m \in Off : n <= m
    BY <2>1, Least
  <2>3. n \in 1..Len(s) /\ n - 1 \in 0..Len(s) /\ ~(n <= n - 1)
    BY <1>8, <2>2
  <2>4. h[n - 1] \in Nat
    BY <2>2, <2>3
  <2>5. s[n] \in Nat
    BY <2>3
  <2>6. h[n] = h[n - 1] + s[n]
    BY <1>8, <2>3
  <2> QED BY <2>2, <2>4, <2>5, <2>6
<1> QED BY <1>6, <1>8, <1>9 DEF Summed

\* One more of the summands.
LEMMA OneSumMore ==
    ASSUME NEW s \in Seq(Nat), NEW n \in 0..Len(s), n < Len(s)
    PROVE  /\ n + 1 \in 0..Len(s) /\ n + 1 \in DOMAIN s /\ s[n + 1] \in Nat
           /\ Sums(s)[n] \in Nat /\ Sums(s)[n + 1] = Sums(s)[n] + s[n + 1]
<1>1. Summed(s, Len(s), Sums(s))
  BY SumsAre
<1>2. n + 1 \in 1..Len(s) /\ n \in 0..Len(s) /\ n + 1 - 1 = n
  OBVIOUS
<1>3. Sums(s)[n + 1] = Sums(s)[n + 1 - 1] + s[n + 1] /\ Sums(s)[n] \in Nat
  BY <1>1, <1>2 DEF Summed
<1> QED BY <1>2, <1>3

\* What is left when the first has been taken.
LEMMA TotalOfTail ==
    ASSUME NEW s \in Seq(Nat), s # <<>>
    PROVE  /\ Head(s) \in Nat /\ Tail(s) \in Seq(Nat) /\ Total(Tail(s)) \in Nat
           /\ Total(s) = Head(s) + Total(Tail(s))
<1> DEFINE t == Tail(s)
           Differing == {i \in 0..Len(t) : Sums(s)[i + 1] # Head(s) + Sums(t)[i]}
<1>1. /\ Head(s) = s[1] /\ Head(s) \in Nat /\ t \in Seq(Nat)
      /\ Len(s) \in Nat /\ Len(s) = Len(t) + 1 /\ Len(t) \in Nat
      /\ \A i \in 1..Len(t) : t[i] = s[i + 1]
  OBVIOUS
<1>2. Summed(s, Len(s), Sums(s)) /\ Summed(t, Len(t), Sums(t))
  BY <1>1, SumsAre
<1> HIDE DEF t
<1>3. Differing = {}
  <2> SUFFICES ASSUME Differing # {} PROVE FALSE
    OBVIOUS
  <2>1. Differing \subseteq Nat
    OBVIOUS
  <2>2. PICK n \in Differing : \A m \in Differing : n <= m
    BY <2>1, Least
  <2>3. n \in 0..Len(t) /\ Sums(s)[n + 1] # Head(s) + Sums(t)[n]
    OBVIOUS
  <2>4. n # 0
    BY <1>1, <1>2, <2>3, OneSumMore DEF Summed
  <2>5. n - 1 \in 0..Len(t) /\ n - 1 < Len(t) /\ n - 1 + 1 = n /\ ~(n <= n - 1)
    BY <1>1, <2>3, <2>4
  <2>6. Sums(s)[n] = Head(s) + Sums(t)[n - 1]
    BY <2>2, <2>5
  <2>7. Sums(t)[n] = Sums(t)[n - 1] + t[n] /\ Sums(t)[n - 1] \in Nat /\ t[n] \in Nat
    BY <1>1, <2>5, OneSumMore
  <2>8. Sums(s)[n + 1] = Sums(s)[n] + s[n + 1]
    <3>1. n \in 0..Len(s) /\ n < Len(s)
      BY <1>1, <2>3
    <3> QED BY <3>1, OneSumMore
  <2>9. t[n] = s[n + 1]
    BY <1>1, <2>3, <2>4
  <2> QED BY <1>1, <2>3, <2>6, <2>7, <2>8, <2>9
<1>4. Sums(s)[Len(t) + 1] = Head(s) + Sums(t)[Len(t)] /\ Sums(t)[Len(t)] \in Nat
  <2>1. Len(t) \in 0..Len(t) /\ Len(t) \notin Differing
    BY <1>1, <1>3
  <2> QED BY <1>2, <2>1 DEF Summed
<1> QED BY <1>1, <1>4 DEF Total, t

LEMMA TotalOfNone == Total(<<>>) = 0
<1>1. <<>> \in Seq(Nat) /\ Len(<<>>) = 0
  OBVIOUS
<1> QED BY <1>1, SumsAre DEF Summed, Total

LEMMA TotalOfOne == ASSUME NEW n \in Nat PROVE Total(<<n>>) = n
<1>1. <<n>> \in Seq(Nat) /\ <<n>> # <<>> /\ Head(<<n>>) = n /\ Tail(<<n>>) = <<>>
  OBVIOUS
<1>2. Total(<<n>>) = Head(<<n>>) + Total(Tail(<<n>>))
  BY <1>1, TotalOfTail
<1> QED BY <1>1, <1>2, TotalOfNone

LEMMA TotalIsNat == ASSUME NEW s \in Seq(Nat) PROVE Total(s) \in Nat
BY SumsAre DEF Summed, Total

\* What is left of a list of times.
Sifting(times, t, g) ==
    [i \in 0..Len(times) |-> IF i = 0 THEN <<>>
                             ELSE IF times[i] > t THEN Append(g[i - 1], times[i]) ELSE g[i - 1]]

LEMMA RecentsAre ==
    ASSUME NEW times \in Seq(Nat), NEW t \in Int
    PROVE  Recents(times, t) = Sifting(times, t, Recents(times, t))
<1> DEFINE step == [p \in (1..Len(times)) \X Seq(Nat) |->
                        IF times[p[1]] > t THEN Append(p[2], times[p[1]]) ELSE p[2]]
<1>1. \A i \in 1..Len(times), x \in Seq(Nat) :
          /\ step[<<i, x>>] = IF times[i] > t THEN Append(x, times[i]) ELSE x
          /\ step[<<i, x>>] \in Seq(Nat)
  OBVIOUS
<1> HIDE DEF step
<1>2. PICK f : Stepped(f, Len(times), <<>>, step, Seq(Nat))
  <2>1. Len(times) \in Nat /\ <<>> \in Seq(Nat)
    OBVIOUS
  <2> QED BY <1>1, <2>1, Recursion
<1>3. f = Sifting(times, t, f)
  <2>1. /\ f \in [0..Len(times) -> Seq(Nat)] /\ f[0] = <<>>
        /\ \A i \in 1..Len(times) : f[i] = step[<<i, f[i - 1]>>]
    BY <1>2 DEF Stepped
  <2>2. \A i \in 1..Len(times) : i - 1 \in 0..Len(times)
    OBVIOUS
  <2>3. \A i \in 1..Len(times) : f[i] = IF times[i] > t THEN Append(f[i - 1], times[i]) ELSE f[i - 1]
    BY <1>1, <2>1, <2>2
  <2>4. \A i \in 0..Len(times) : i = 0 \/ i \in 1..Len(times)
    OBVIOUS
  <2>5. \A i \in 0..Len(times) :
            f[i] = IF i = 0 THEN <<>>
                   ELSE IF times[i] > t THEN Append(f[i - 1], times[i]) ELSE f[i - 1]
    BY <2>1, <2>3, <2>4
  <2>6. f = [i \in 0..Len(times) |-> f[i]]
    BY <2>1
  <2> QED BY <2>5, <2>6 DEF Sifting
<1>4. Recents(times, t) = CHOOSE g : g = Sifting(times, t, g)
  BY DEF Recents, Sifting
<1> QED BY <1>3, <1>4

\* Of times that ascend the last are left.
Ascending(times) == \A i, j \in DOMAIN times : i < j => times[i] <= times[j]

LEMMA RecentAreLast ==
    ASSUME NEW times \in Seq(Nat), Ascending(times), NEW t \in Int
    PROVE  \E k \in 0..Len(times) :
               /\ Recent(times, t) = SubSeq(times, k + 1, Len(times))
               /\ k > 0 => times[k] <= t
               /\ \A i \in k + 1..Len(times) : times[i] > t
<1> DEFINE n == Len(times)
           Ends == {k \in 0..n : \A i \in k + 1..n : times[i] > t}
<1>1. n \in Nat /\ DOMAIN times = 1..n /\ \A i \in 1..n : times[i] \in Nat
  OBVIOUS
<1>2. n \in Ends /\ Ends \subseteq Nat
  BY <1>1
<1>3. PICK k \in Ends : \A m \in Ends : k <= m
  BY <1>2, Least
<1>4. k \in 0..n /\ \A i \in k + 1..n : times[i] > t
  OBVIOUS
<1>5. k > 0 => times[k] <= t
  <2> SUFFICES ASSUME k > 0, ~(times[k] <= t) PROVE FALSE
    OBVIOUS
  <2>1. \A i \in k..n : i = k \/ i \in k + 1..n
    BY <1>1, <1>4
  <2>2. k \in 1..n /\ times[k] > t
    BY <1>1, <1>4
  <2>3. k - 1 \in 0..n /\ k - 1 + 1 = k /\ ~(k <= k - 1)
    BY <1>1, <1>4
  <2>4. \A i \in k..n : times[i] > t
    BY <1>4, <2>1, <2>2
  <2>5. k - 1 \in Ends
    BY <2>3, <2>4
  <2> QED BY <1>3, <2>3, <2>5
<1> HIDE DEF Ends
<1>6. \A i \in 1..n : times[i] > t <=> i > k
  <2>1. \A i \in 1..n : i < k => times[i] <= times[k]
    <3> SUFFICES ASSUME NEW i \in 1..n, i < k PROVE times[i] <= times[k]
      OBVIOUS
    <3>1. i \in DOMAIN times /\ k \in DOMAIN times
      BY <1>1, <1>4
    <3> QED BY <3>1 DEF Ascending
  <2> QED BY <1>1, <1>4, <1>5, <2>1
<1>7. PICK h : h = Recents(times, t)
  OBVIOUS
<1>8. /\ h[0] = <<>>
      /\ \A i \in 1..n : h[i] = IF i > k THEN Append(h[i - 1], times[i]) ELSE h[i - 1]
  <2>1. h = Sifting(times, t, h)
    BY <1>7, RecentsAre
  <2>2. \A i \in 0..n : h[i] = IF i = 0 THEN <<>>
                              ELSE IF times[i] > t THEN Append(h[i - 1], times[i]) ELSE h[i - 1]
    BY <2>1 DEF Sifting
  <2>3. \A i \in 1..n : i \in 0..n /\ i # 0
    BY <1>1
  <2>4. 0 \in 0..n
    BY <1>1
  <2> HIDE DEF n
  <2> QED BY <1>6, <2>2, <2>3, <2>4
<1> DEFINE Off == {i \in 0..n : h[i] # SubSeq(times, k + 1, i)}
<1>9. Off = {}
  <2> SUFFICES ASSUME Off # {} PROVE FALSE
    OBVIOUS
  <2>1. Off \subseteq Nat
    BY <1>1
  <2>2. PICK i \in Off : \A m \in Off : i <= m
    BY <2>1, Least
  <2>3. i \in 0..n /\ h[i] # SubSeq(times, k + 1, i)
    OBVIOUS
  <2>4. i # 0
    <3>1. k + 1 > 0 /\ SubSeq(times, k + 1, 0) = <<>>
      BY <1>4
    <3> QED BY <1>8, <2>3, <3>1
  <2>5. i \in 1..n /\ i - 1 \in 0..n /\ ~(i <= i - 1)
    BY <1>1, <2>3, <2>4
  <2>6. h[i - 1] = SubSeq(times, k + 1, i - 1)
    BY <2>2, <2>5
  <2> HIDE DEF Off
  <2>7. CASE i > k
    <3>1. h[i] = Append(SubSeq(times, k + 1, i - 1), times[i])
      BY <1>8, <2>5, <2>6, <2>7
    <3>2. Append(SubSeq(times, k + 1, i - 1), times[i]) = SubSeq(times, k + 1, i)
      BY <1>1, <1>4, <2>5, <2>7
    <3> QED BY <2>3, <3>1, <3>2
  <2>8. CASE ~(i > k)
    <3>1. h[i] = SubSeq(times, k + 1, i - 1)
      BY <1>8, <2>5, <2>6, <2>8
    <3>2. SubSeq(times, k + 1, i - 1) = <<>> /\ SubSeq(times, k + 1, i) = <<>>
      BY <1>1, <1>4, <2>5, <2>8
    <3> QED BY <2>3, <3>1, <3>2
  <2> QED BY <2>7, <2>8
<1>10. h[n] = SubSeq(times, k + 1, n)
  <2>1. n \in 0..n /\ n \notin Off
    BY <1>1, <1>9
  <2> QED BY <2>1
<1> QED BY <1>4, <1>5, <1>7, <1>10 DEF Recent

\* How many times of a list are not before t.
Since(times, t) == Cardinality({i \in DOMAIN times : times[i] >= t})

LEMMA SinceBounds ==
    ASSUME NEW s \in Seq(Nat), NEW t \in Int
    PROVE  /\ Since(s, t) \in Nat /\ Since(s, t) <= Len(s)
           /\ IsFiniteSet({i \in DOMAIN s : s[i] >= t})
           /\ (\A i \in DOMAIN s : s[i] >= t) => Since(s, t) = Len(s)
           /\ (\A i \in DOMAIN s : s[i] < t) => Since(s, t) = 0
<1> DEFINE those == {i \in DOMAIN s : s[i] >= t}
<1>1. Len(s) \in Nat /\ DOMAIN s = 1..Len(s) /\ \A i \in DOMAIN s : s[i] \in Nat
  OBVIOUS
<1>2. PICK n : n = Len(s)
  OBVIOUS
<1>3. n \in Int /\ 1 \in Int /\ n \in Nat
  BY <1>1, <1>2
<1>4. IsFiniteSet(1..n) /\ Cardinality(1..n) = IF 1 > n THEN 0 ELSE n - 1 + 1
  BY <1>3, FS_Interval
<1>5. Cardinality(1..n) = n
  BY <1>3, <1>4
<1>6. those \subseteq 1..n
  BY <1>1, <1>2
<1>7. IsFiniteSet(those) /\ Cardinality(those) \in Nat /\ Cardinality(those) <= n
  BY <1>4, <1>5, <1>6, FS_Subset, FS_CardinalityType
<1>8. (\A i \in DOMAIN s : s[i] >= t) => those = 1..n
  BY <1>1, <1>2
<1>9. (\A i \in DOMAIN s : s[i] < t) => those = {}
  BY <1>1
<1>10. Cardinality({}) = 0
  BY FS_EmptySet
<1> QED BY <1>2, <1>5, <1>7, <1>8, <1>9, <1>10 DEF Since

LEMMA SinceEarlier ==
    ASSUME NEW s \in Seq(Nat), NEW t \in Int, NEW u \in Int, t <= u
    PROVE  Since(s, u) <= Since(s, t)
<1>1. {i \in DOMAIN s : s[i] >= u} \subseteq {i \in DOMAIN s : s[i] >= t}
  OBVIOUS
<1>2. IsFiniteSet({i \in DOMAIN s : s[i] >= t})
  BY SinceBounds
<1> QED BY <1>1, <1>2, FS_Subset DEF Since

LEMMA SinceAppended ==
    ASSUME NEW s \in Seq(Nat), NEW x \in Nat, NEW t \in Int
    PROVE  Since(Append(s, x), t) = IF x >= t THEN Since(s, t) + 1 ELSE Since(s, t)
<1>1. PICK more, n : more = Append(s, x) /\ n = Len(s) + 1
  OBVIOUS
<1>2. /\ DOMAIN s = 1..Len(s) /\ Len(s) \in Nat /\ DOMAIN more = DOMAIN s \cup {n} /\ n \notin DOMAIN s
      /\ more[n] = x /\ \A i \in DOMAIN s : more[i] = s[i]
  BY <1>1
<1>3. IsFiniteSet({i \in DOMAIN s : s[i] >= t})
  BY SinceBounds
<1>4. CASE x >= t
  <2>1. {i \in DOMAIN more : more[i] >= t} = {i \in DOMAIN s : s[i] >= t} \cup {n}
    BY <1>2, <1>4
  <2>2. n \notin {i \in DOMAIN s : s[i] >= t}
    BY <1>2
  <2>3. PICK old : old = {i \in DOMAIN s : s[i] >= t}
    OBVIOUS
  <2>4. Cardinality(old \cup {n}) = Cardinality(old) + 1
    BY <1>3, <2>2, <2>3, FS_AddElement
  <2>5. Since(s, t) = Cardinality(old) /\ Since(more, t) = Cardinality(old \cup {n})
    BY <2>1, <2>3 DEF Since
  <2> QED BY <1>1, <1>4, <2>4, <2>5
<1>5. CASE ~(x >= t)
  <2>1. {i \in DOMAIN more : more[i] >= t} = {i \in DOMAIN s : s[i] >= t}
    BY <1>2, <1>5
  <2> QED BY <1>1, <1>5, <2>1 DEF Since
<1> QED BY <1>4, <1>5

\* Dropping what is older changes nothing of it.
LEMMA LengthOfRest ==
    ASSUME NEW S, NEW s \in Seq(S), NEW k \in 0..Len(s)
    PROVE  Len(SubSeq(s, k + 1, Len(s))) = Len(s) - k
OBVIOUS

LEMMA SinceDropped ==
    ASSUME NEW s \in Seq(Nat), NEW t \in Int, NEW k \in 0..Len(s), \A i \in 1..k : s[i] < t
    PROVE  Since(SubSeq(s, k + 1, Len(s)), t) = Since(s, t)
<1>1. PICK r : r = SubSeq(s, k + 1, Len(s))
  OBVIOUS
<1>2. k \in Nat /\ Len(s) \in Nat /\ k <= Len(s) /\ DOMAIN s = 1..Len(s)
  OBVIOUS
<1>3. DOMAIN r = 1..(Len(s) - k)
  BY <1>1, <1>2
<1>4. \A i \in 1..(Len(s) - k) : r[i] = s[i + k]
  BY <1>1, <1>2
<1> DEFINE Rs == {i \in DOMAIN r : r[i] >= t}
           Ss == {i \in DOMAIN s : s[i] >= t}
           f == [i \in Rs |-> i + k]
<1>5. \A i \in Rs : i \in Nat /\ i + k \in Ss
  BY <1>2, <1>3, <1>4
<1>6. \A i \in Ss : i - k \in Rs /\ (i - k) + k = i
  <2> SUFFICES ASSUME NEW i \in Ss PROVE i - k \in Rs /\ (i - k) + k = i
    OBVIOUS
  <2>1. i \in 1..Len(s) /\ s[i] >= t /\ s[i] \in Nat
    BY <1>2
  <2>2. i \notin 1..k
    BY <2>1
  <2>3. i - k \in 1..(Len(s) - k) /\ (i - k) + k = i
    BY <1>2, <2>1, <2>2
  <2>4. r[i - k] = s[i]
    BY <1>4, <2>3
  <2> QED BY <1>3, <2>1, <2>3, <2>4
<1>7. IsFiniteSet(Ss)
  BY SinceBounds
<1>8. f \in [Rs -> Ss] /\ \A i \in Rs : f[i] = i + k
  BY <1>5
<1>9. \A i, j \in Rs : f[i] = f[j] => i = j
  BY <1>2, <1>5, <1>8
<1>10. \A j \in Ss : \E i \in Rs : f[i] = j
  BY <1>6, <1>8
<1> HIDE DEF f, Rs, Ss
<1>11. f \in Injection(Rs, Ss) /\ f \in Surjection(Rs, Ss)
  BY <1>8, <1>9, <1>10 DEF Injection, IsInjective, Surjection
<1>12. Cardinality(Rs) = Cardinality(Ss)
  BY <1>7, <1>11, FS_Injection
<1> QED BY <1>1, <1>12 DEF Since, Rs, Ss

\* The recent times of a list.
LEMMA RecentTimes ==
    ASSUME NEW s \in Seq(Nat), Ascending(s), NEW t \in Int, NEW r, r = Recent(s, t)
    PROVE  /\ r \in Seq(Nat) /\ Ascending(r) /\ Len(r) \in Nat /\ Len(r) <= Len(s)
           /\ \A i \in DOMAIN r : r[i] > t /\ \E j \in DOMAIN s : r[i] = s[j]
           /\ \A u \in Int : u > t => Since(r, u) = Since(s, u)
           /\ (\A i \in DOMAIN s : s[i] > t) => r = s
<1>1. PICK k \in 0..Len(s) :
         /\ r = SubSeq(s, k + 1, Len(s))
         /\ k > 0 => s[k] <= t
         /\ \A i \in k + 1..Len(s) : s[i] > t
  BY RecentAreLast
<1>2. k \in Nat /\ Len(s) \in Nat /\ k <= Len(s) /\ DOMAIN s = 1..Len(s) /\ \A i \in 1..Len(s) : s[i] \in Nat
  OBVIOUS
<1>3. r \in Seq(Nat)
  BY <1>1, <1>2
<1>4. Len(r) = Len(s) - k
  <2>1. Len(SubSeq(s, k + 1, Len(s))) = Len(s) - k
    BY LengthOfRest
  <2> QED BY <1>1, <2>1
<1>5. \A i \in 1..(Len(s) - k) : r[i] = s[i + k]
  BY <1>1, <1>2
<1>6. DOMAIN r = 1..(Len(s) - k)
  BY <1>3, <1>4
<1>7. \A i \in 1..(Len(s) - k) : i + k \in k + 1..Len(s) /\ i + k \in DOMAIN s
  BY <1>2
<1>8. Ascending(r)
  <2> SUFFICES ASSUME NEW i \in 1..(Len(s) - k), NEW j \in 1..(Len(s) - k), i < j PROVE r[i] <= r[j]
    BY <1>6 DEF Ascending
  <2>1. i + k \in DOMAIN s /\ j + k \in DOMAIN s /\ i + k < j + k
    BY <1>2, <1>7
  <2> QED BY <1>5, <2>1 DEF Ascending
<1>9. \A i \in DOMAIN r : r[i] > t /\ \E j \in DOMAIN s : r[i] = s[j]
  BY <1>1, <1>5, <1>6, <1>7
<1>10. \A i \in 1..k : s[i] <= t
  <2> SUFFICES ASSUME NEW i \in 1..k PROVE s[i] <= t
    OBVIOUS
  <2>1. i \in DOMAIN s /\ k \in DOMAIN s /\ k > 0 /\ i <= k /\ i \in Nat
    BY <1>2
  <2>2. s[i] <= s[k] /\ s[k] <= t
    <3>1. CASE i = k
      BY <1>1, <1>2, <2>1, <3>1
    <3>2. CASE i < k
      BY <1>1, <2>1, <3>2 DEF Ascending
    <3> QED BY <2>1, <3>1, <3>2
  <2> QED BY <1>2, <2>1, <2>2
<1>11. \A u \in Int : u > t => Since(r, u) = Since(s, u)
  <2> SUFFICES ASSUME NEW u \in Int, u > t PROVE Since(r, u) = Since(s, u)
    OBVIOUS
  <2>1. \A i \in 1..k : s[i] < u
    <3> SUFFICES ASSUME NEW i \in 1..k PROVE s[i] < u
      OBVIOUS
    <3>1. i \in 1..Len(s) /\ s[i] <= t
      BY <1>2, <1>10
    <3> QED BY <1>2, <3>1
  <2> QED BY <1>1, <2>1, SinceDropped
<1>12. ASSUME \A i \in DOMAIN s : s[i] > t PROVE r = s
  <2>1. k = 0
    <3> SUFFICES ASSUME k > 0 PROVE FALSE
      BY <1>2
    <3>1. k \in DOMAIN s /\ s[k] <= t /\ s[k] \in Nat
      BY <1>1, <1>2
    <3> QED BY <1>12, <3>1
  <2>2. SubSeq(s, 1, Len(s)) = s
    OBVIOUS
  <2> QED BY <1>1, <2>1, <2>2
<1> QED BY <1>2, <1>3, <1>4, <1>8, <1>9, <1>11, <1>12

LEMMA AscendingAppended ==
    ASSUME NEW s \in Seq(Nat), Ascending(s), NEW x \in Nat, \A i \in DOMAIN s : s[i] <= x,
           NEW more, more = Append(s, x)
    PROVE  /\ more \in Seq(Nat) /\ Ascending(more) /\ Len(more) = Len(s) + 1
           /\ \A i \in DOMAIN more : more[i] <= x
           /\ \A i \in DOMAIN more : more[i] = x \/ \E j \in DOMAIN s : more[i] = s[j]
<1>1. Len(s) \in Nat /\ DOMAIN s = 1..Len(s) /\ \A i \in 1..Len(s) : s[i] \in Nat /\ s[i] <= x
  OBVIOUS
<1>2. /\ more \in Seq(Nat) /\ Len(more) = Len(s) + 1 /\ DOMAIN more = 1..(Len(s) + 1)
      /\ more[Len(s) + 1] = x /\ \A i \in 1..Len(s) : more[i] = s[i]
  BY <1>1
<1>3. \A i \in 1..(Len(s) + 1) : i = Len(s) + 1 \/ i \in 1..Len(s)
  BY <1>1
<1>4. Ascending(more)
  <2> SUFFICES ASSUME NEW i \in 1..(Len(s) + 1), NEW j \in 1..(Len(s) + 1), i < j PROVE more[i] <= more[j]
    BY <1>2 DEF Ascending
  <2>1. i \in 1..Len(s)
    BY <1>1, <1>3
  <2>2. j \in 1..Len(s) => s[i] <= s[j]
    BY <1>1, <2>1 DEF Ascending
  <2> QED BY <1>1, <1>2, <1>3, <2>1, <2>2
<1>5. \A i \in DOMAIN more : more[i] = x \/ \E j \in DOMAIN s : more[i] = s[j]
  BY <1>1, <1>2, <1>3
<1>6. \A i \in DOMAIN more : more[i] <= x
  BY <1>1, <1>2, <1>3
<1> QED BY <1>2, <1>4, <1>5, <1>6

-----------------------------------------------------------------------------
\* Sums over finite sets, which the community modules take one by one, in the order in
\* which elements are chosen of what is left.
Choice(T) == CHOOSE x \in T : TRUE
SummingOver(f, S, g) == [T \in SUBSET S |-> IF T = {} THEN 0 ELSE f[Choice(T)] + g[T \ {Choice(T)}]]

UpTo(S, n) == {T \in SUBSET S : Cardinality(T) <= n}
SummedOver(f, D, g) ==
    /\ g \in [D -> Nat]
    /\ \A T \in D : g[T] = IF T = {} THEN 0 ELSE f[Choice(T)] + g[T \ {Choice(T)}]

\* One element less.
LEMMA OneLess ==
    ASSUME NEW S, IsFiniteSet(S), NEW T \in SUBSET S, T # {}
    PROVE  /\ Choice(T) \in T /\ Choice(T) \in S /\ T \ {Choice(T)} \in SUBSET S /\ Choice(T) \notin T \ {Choice(T)}
           /\ Cardinality(T) \in Nat /\ Cardinality(T) # 0
           /\ Cardinality(T \ {Choice(T)}) = Cardinality(T) - 1
<1>1. Choice(T) \in T
  BY DEF Choice
<1>2. IsFiniteSet(T)
  BY FS_Subset
<1>3. Cardinality(T) \in Nat /\ Cardinality(T) # 0
  BY <1>2, FS_CardinalityType, FS_EmptySet
<1>4. Cardinality(T \ {Choice(T)}) = Cardinality(T) - 1
  BY <1>1, <1>2, FS_RemoveElement
<1> QED BY <1>1, <1>3, <1>4

LEMMA SubsetSize ==
    ASSUME NEW S, IsFiniteSet(S), NEW T \in SUBSET S
    PROVE  Cardinality(T) \in Nat /\ Cardinality(T) <= Cardinality(S) /\ (Cardinality(T) = 0 <=> T = {})
BY FS_Subset, FS_CardinalityType, FS_EmptySet

LEMMA SumUpTo ==
    ASSUME NEW S, IsFiniteSet(S), NEW f \in [S -> Nat], NEW n \in Nat, NEW g, SummedOver(f, UpTo(S, n), g)
    PROVE  \E h : SummedOver(f, UpTo(S, n + 1), h)
<1> DEFINE h == [T \in UpTo(S, n + 1) |-> IF T = {} THEN 0 ELSE f[Choice(T)] + g[T \ {Choice(T)}]]
<1>1. ASSUME NEW T \in UpTo(S, n + 1), T # {}
      PROVE  T \ {Choice(T)} \in UpTo(S, n) /\ f[Choice(T)] \in Nat
  <2>1. T \in SUBSET S /\ Cardinality(T) <= n + 1
    BY DEF UpTo
  <2> QED BY <1>1, <2>1, OneLess DEF UpTo
<1>2. h \in [UpTo(S, n + 1) -> Nat]
  BY <1>1 DEF SummedOver
<1>3. \A T \in UpTo(S, n) : T \in UpTo(S, n + 1) /\ h[T] = g[T]
  <2> SUFFICES ASSUME NEW T \in UpTo(S, n) PROVE T \in UpTo(S, n + 1) /\ h[T] = g[T]
    OBVIOUS
  <2>1. Cardinality(T) \in Nat /\ Cardinality(T) <= n /\ T \in SUBSET S
    BY SubsetSize DEF UpTo
  <2>2. T \in UpTo(S, n + 1)
    BY <2>1 DEF UpTo
  <2> QED BY <2>2 DEF SummedOver
<1>4. \A T \in UpTo(S, n + 1) : h[T] = IF T = {} THEN 0 ELSE f[Choice(T)] + h[T \ {Choice(T)}]
  <2> SUFFICES ASSUME NEW T \in UpTo(S, n + 1)
               PROVE  h[T] = IF T = {} THEN 0 ELSE f[Choice(T)] + h[T \ {Choice(T)}]
    OBVIOUS
  <2>1. h[T] = IF T = {} THEN 0 ELSE f[Choice(T)] + g[T \ {Choice(T)}]
    OBVIOUS
  <2>2. T # {} => h[T \ {Choice(T)}] = g[T \ {Choice(T)}]
    BY <1>1, <1>3
  <2> HIDE DEF h
  <2> QED BY <2>1, <2>2
<1> HIDE DEF h
<1> QED BY <1>2, <1>4 DEF SummedOver

LEMMA SumIs ==
    ASSUME NEW S, IsFiniteSet(S), NEW f \in [S -> Nat]
    PROVE  \E h : SummedOver(f, SUBSET S, h) /\ SumFunctionOnSet(f, S) = h[S]
<1> DEFINE Without == {n \in Nat : ~\E g : SummedOver(f, UpTo(S, n), g)}
<1>1. Without = {}
  <2> SUFFICES ASSUME Without # {} PROVE FALSE
    OBVIOUS
  <2>1. PICK n \in Without : \A m \in Without : n <= m
    BY Least
  <2>2. n \in Nat /\ ~\E g : SummedOver(f, UpTo(S, n), g)
    OBVIOUS
  <2>3. CASE n = 0
    <3>1. \A T \in UpTo(S, 0) : T = {}
      BY SubsetSize DEF UpTo
    <3>2. SummedOver(f, UpTo(S, 0), [T \in UpTo(S, 0) |-> 0])
      BY <3>1 DEF SummedOver
    <3> QED BY <2>2, <2>3, <3>2
  <2>4. CASE n # 0
    <3>1. n - 1 \in Nat /\ ~(n <= n - 1) /\ n - 1 + 1 = n
      BY <2>2, <2>4
    <3>2. PICK g : SummedOver(f, UpTo(S, n - 1), g)
      BY <2>1, <3>1
    <3> QED BY <2>2, <3>1, <3>2, SumUpTo
  <2> QED BY <2>3, <2>4
<1>2. UpTo(S, Cardinality(S)) = SUBSET S
  BY SubsetSize DEF UpTo
<1>3. PICK g : SummedOver(f, SUBSET S, g)
  <2>1. Cardinality(S) \in Nat /\ Cardinality(S) \notin Without
    BY <1>1, SubsetSize
  <2> QED BY <1>2, <2>1
<1>4. g = SummingOver(f, S, g)
  BY <1>3 DEF SummedOver, SummingOver
<1>5. PICK h : h = CHOOSE sum : sum = SummingOver(f, S, sum)
  OBVIOUS
<1>6. h = SummingOver(f, S, h)
  BY <1>4, <1>5
<1>7. SumFunctionOnSet(f, S) = h[S]
  BY <1>5 DEF SumFunctionOnSet, FoldFunctionOnSet, MapThenFoldSet, SummingOver, Choice
<1>8. /\ DOMAIN h = SUBSET S /\ h = [T \in SUBSET S |-> h[T]]
      /\ \A T \in SUBSET S : h[T] = IF T = {} THEN 0 ELSE f[Choice(T)] + h[T \ {Choice(T)}]
  BY <1>6 DEF SummingOver
<1> DEFINE Off == {n \in Nat : \E T \in SUBSET S : Cardinality(T) = n /\ h[T] \notin Nat}
<1>9. Off = {}
  <2> SUFFICES ASSUME Off # {} PROVE FALSE
    OBVIOUS
  <2>1. PICK n \in Off : \A m \in Off : n <= m
    BY Least
  <2>2. n \in Nat
    OBVIOUS
  <2>3. PICK T \in SUBSET S : Cardinality(T) = n /\ h[T] \notin Nat
    OBVIOUS
  <2>4. h[T] = IF T = {} THEN 0 ELSE f[Choice(T)] + h[T \ {Choice(T)}]
    BY <1>8
  <2>5. T # {}
    BY <2>3, <2>4
  <2>6. /\ Choice(T) \in S /\ T \ {Choice(T)} \in SUBSET S
        /\ Cardinality(T \ {Choice(T)}) = n - 1 /\ n - 1 \in Nat /\ ~(n <= n - 1)
    BY <2>2, <2>3, <2>5, OneLess
  <2>7. h[T \ {Choice(T)}] \in Nat
    BY <2>1, <2>6
  <2>8. f[Choice(T)] \in Nat
    BY <2>6
  <2> HIDE DEF Off
  <2> QED BY <2>3, <2>4, <2>5, <2>7, <2>8
<1>10. \A T \in SUBSET S : h[T] \in Nat
  BY <1>9, SubsetSize
<1> HIDE DEF Off, Without
<1>11. SummedOver(f, SUBSET S, h)
  BY <1>8, <1>10 DEF SummedOver
<1> QED BY <1>7, <1>11

\* Element by element.
LEMMA SumsAdd ==
    ASSUME NEW S, IsFiniteSet(S), NEW f \in [S -> Nat], NEW d \in [S -> Nat], NEW g \in [S -> Nat],
           \A x \in S : g[x] = f[x] + d[x]
    PROVE  /\ SumFunctionOnSet(f, S) \in Nat /\ SumFunctionOnSet(d, S) \in Nat
           /\ SumFunctionOnSet(g, S) = SumFunctionOnSet(f, S) + SumFunctionOnSet(d, S)
<1>1. PICK a : SummedOver(f, SUBSET S, a) /\ SumFunctionOnSet(f, S) = a[S]
  BY SumIs
<1>2. PICK b : SummedOver(d, SUBSET S, b) /\ SumFunctionOnSet(d, S) = b[S]
  BY SumIs
<1>3. PICK c : SummedOver(g, SUBSET S, c) /\ SumFunctionOnSet(g, S) = c[S]
  BY SumIs
<1>4. \A T \in SUBSET S : a[T] \in Nat /\ b[T] \in Nat /\ c[T] \in Nat
  BY <1>1, <1>2, <1>3 DEF SummedOver
<1> DEFINE Off == {n \in Nat : \E T \in SUBSET S : Cardinality(T) = n /\ c[T] # a[T] + b[T]}
<1>5. Off = {}
  <2> SUFFICES ASSUME Off # {} PROVE FALSE
    OBVIOUS
  <2>1. PICK n \in Off : \A m \in Off : n <= m
    BY Least
  <2>2. n \in Nat
    OBVIOUS
  <2>3. PICK T \in SUBSET S : Cardinality(T) = n /\ c[T] # a[T] + b[T]
    OBVIOUS
  <2>4. CASE T = {}
    <3>1. a[T] = 0 /\ b[T] = 0 /\ c[T] = 0
      BY <1>1, <1>2, <1>3, <2>4 DEF SummedOver
    <3> QED BY <2>3, <3>1
  <2>5. CASE T # {}
    <3>1. /\ Choice(T) \in S /\ T \ {Choice(T)} \in SUBSET S
          /\ Cardinality(T \ {Choice(T)}) = n - 1 /\ n - 1 \in Nat /\ ~(n <= n - 1)
      BY <2>2, <2>3, <2>5, OneLess
    <3>2. PICK x, R : x = Choice(T) /\ R = T \ {Choice(T)}
      OBVIOUS
    <3>3. c[R] = a[R] + b[R] /\ a[R] \in Nat /\ b[R] \in Nat /\ c[R] \in Nat
      BY <1>4, <2>1, <3>1, <3>2
    <3> HIDE DEF Off
    <3>4. a[T] = f[x] + a[R] /\ b[T] = d[x] + b[R] /\ c[T] = g[x] + c[R]
      BY <1>1, <1>2, <1>3, <2>5, <3>2 DEF SummedOver
    <3>5. g[x] = f[x] + d[x] /\ f[x] \in Nat /\ d[x] \in Nat
      BY <3>1, <3>2
    <3> QED BY <2>3, <3>3, <3>4, <3>5
  <2> QED BY <2>4, <2>5
<1>6. c[S] = a[S] + b[S]
  BY <1>5, SubsetSize
<1> QED BY <1>1, <1>2, <1>3, <1>4, <1>6

LEMMA SumOfOne ==
    ASSUME NEW S, IsFiniteSet(S), NEW r \in S, NEW d \in [S -> Nat],
           \A x \in S : d[x] = IF x = r THEN 1 ELSE 0
    PROVE  SumFunctionOnSet(d, S) = 1
<1>1. PICK a : SummedOver(d, SUBSET S, a) /\ SumFunctionOnSet(d, S) = a[S]
  BY SumIs
<1> DEFINE Off == {n \in Nat : \E T \in SUBSET S : Cardinality(T) = n /\ a[T] # IF r \in T THEN 1 ELSE 0}
<1>2. Off = {}
  <2> SUFFICES ASSUME Off # {} PROVE FALSE
    OBVIOUS
  <2>1. PICK n \in Off : \A m \in Off : n <= m
    BY Least
  <2>2. n \in Nat
    OBVIOUS
  <2>3. PICK T \in SUBSET S : Cardinality(T) = n /\ a[T] # IF r \in T THEN 1 ELSE 0
    OBVIOUS
  <2>4. CASE T = {}
    <3>1. a[T] = 0
      BY <1>1, <2>4 DEF SummedOver
    <3> QED BY <2>3, <2>4, <3>1
  <2>5. CASE T # {}
    <3>1. /\ Choice(T) \in T /\ Choice(T) \in S /\ T \ {Choice(T)} \in SUBSET S
          /\ Cardinality(T \ {Choice(T)}) = n - 1 /\ n - 1 \in Nat /\ ~(n <= n - 1)
      BY <2>2, <2>3, <2>5, OneLess
    <3>2. PICK x, R : x = Choice(T) /\ R = T \ {Choice(T)}
      OBVIOUS
    <3>3. a[R] = IF r \in R THEN 1 ELSE 0
      BY <2>1, <3>1, <3>2
    <3> HIDE DEF Off
    <3>4. a[T] = d[x] + a[R]
      BY <1>1, <2>5, <3>2 DEF SummedOver
    <3>5. d[x] = IF x = r THEN 1 ELSE 0
      BY <3>1, <3>2
    <3>6. r \in T <=> x = r \/ r \in R
      BY <3>1, <3>2
    <3>7. x = r => r \notin R
      BY <3>2
    <3> QED BY <2>3, <3>3, <3>4, <3>5, <3>6, <3>7
  <2> QED BY <2>4, <2>5
<1>3. a[S] = 1
  BY <1>2, SubsetSize
<1> QED BY <1>1, <1>3
===============================================================================
