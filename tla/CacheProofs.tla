---------------------------- MODULE CacheProofs -----------------------------
(***************************************************************************)
(* The prefix cache (PrefixCache): the slot a key names holds that key's   *)
(* rows or is about to, whatever is queued, refused, reused or restarted;  *)
(* so a restore hands over the prefix asked for; and a conversation ages   *)
(* from its deep end.  First the lists and the blocks of prompts, then     *)
(* what each action does to tables, queue and files, then the two          *)
(* invariants: about slots and files, and about the eviction order.        *)
(***************************************************************************)
EXTENDS PrefixCache, WellFoundedInduction, TLAPS

-----------------------------------------------------------------------------
(* An eviction list.                                                       *)

\* An eviction list of n slots: each slot once.
List(n) ==
  {s \in [1..n -> 1..n] : /\ \A x, y \in 1..n : s[x] = s[y] => x = y
                          /\ \A i \in 1..n : \E x \in 1..n : s[x] = i}

\* A list is a sequence.
LEMMA ListIsSeq ==
  ASSUME NEW n \in Nat \ {0}, NEW s \in List(n)
  PROVE  /\ s \in [1..n -> 1..n] /\ DOMAIN s = 1..n /\ s \in Seq(1..n) /\ Len(s) = n
         /\ Head(s) = s[1] /\ Head(s) \in 1..n
         /\ \A x, y \in 1..n : s[x] = s[y] => x = y
         /\ \A i \in 1..n : \E x \in 1..n : s[x] = i
<1>1. s \in [1..n -> 1..n] /\ (\A x, y \in 1..n : s[x] = s[y] => x = y)
      /\ (\A i \in 1..n : \E x \in 1..n : s[x] = i)
  BY DEF List
<1>2. s \in Seq(1..n) /\ Len(s) = n /\ DOMAIN s = 1..n
  <2>1. s \in [1..n -> 1..n] /\ n \in Nat
    BY <1>1
  <2>2. s \in Seq(1..n)
    BY ONLY <2>1
  <2>3. DOMAIN s = 1..Len(s) /\ Len(s) \in Nat
    BY ONLY <2>2
  <2> QED BY ONLY <2>1, <2>2, <2>3
<1>3. Head(s) = s[1] /\ s[1] \in 1..n
  BY <1>1, <1>2
<1> QED BY <1>1, <1>2, <1>3

\* Where a slot is.
LEMMA AtIn ==
  ASSUME NEW n \in Nat \ {0}, NEW s \in List(n), NEW i \in 1..n
  PROVE  At(s, i) \in 1..n /\ s[At(s, i)] = i
<1>1. DOMAIN s = 1..n /\ \E x \in 1..n : s[x] = i
  BY DEF List
<1> QED BY <1>1 DEF At

\* The list with slot i moved to the tail: the others keep their order.
LEMMA TouchFacts ==
  ASSUME NEW n \in Nat \ {0}, NEW s \in List(n), NEW i \in 1..n
  PROVE  /\ Touch(s, i) \in List(n)
         /\ \A a, b \in 1..n : a # i /\ b # i /\ Before(s, a, b) => Before(Touch(s, i), a, b)
         /\ \A a \in 1..n : a # i => Before(Touch(s, i), a, i)
<1> DEFINE p == At(s, i)
<1> DEFINE t == Touch(s, i)
<1>0. (\A x, y \in 1..n : s[x] = s[y] => x = y) /\ (\A a \in 1..n : \E x \in 1..n : s[x] = a)
  BY ListIsSeq
<1>1. p \in 1..n /\ s[p] = i /\ s \in [1..n -> 1..n] /\ DOMAIN s = 1..n /\ Len(s) = n /\ n \in Nat
  <2>1. s \in [1..n -> 1..n] /\ DOMAIN s = 1..n /\ Len(s) = n
    BY ListIsSeq
  <2> QED BY <2>1, AtIn
<1>2. t = [x \in 1..n |-> IF x < p THEN s[x] ELSE IF x < n THEN s[x + 1] ELSE i]
  BY <1>1 DEF Touch
<1> HIDE DEF p, t
<1>3. \A x \in 1..n : /\ x < p => t[x] = s[x]
                      /\ x >= p /\ x < n => t[x] = s[x + 1]
                      /\ x = n => t[x] = i
  BY <1>1, <1>2
<1>4. \A x \in 1..n : s[x] # i => x # p
  BY <1>1
<1> DEFINE new(x) == IF x < p THEN x ELSE x - 1
<1>5. \A x \in 1..n : x # p => new(x) \in 1..n /\ t[new(x)] = s[x] /\ new(x) < n
  <2> TAKE x \in 1..n
  <2>1. CASE x < p
    BY <1>1, <1>3, <2>1
  <2>2. CASE x > p
    <3> DEFINE y == x - 1
    <3>1. y \in 1..n /\ y >= p /\ y < n /\ y + 1 = x
      BY <1>1, <2>2
    <3> HIDE DEF y
    <3>2. t[y] = s[x]
      BY <1>3, <3>1
    <3>3. new(x) = y
      BY <1>1, <2>2 DEF y
    <3> QED BY <3>1, <3>2, <3>3
  <2> QED BY <1>1, <2>1, <2>2
<1>6. \A x, y \in 1..n : x # p /\ y # p /\ x < y => new(x) < new(y)
  BY <1>1
<1>7. t \in [1..n -> 1..n]
  BY <1>1, <1>2
<1>8. \A a \in 1..n : \E x \in 1..n : t[x] = a
  <2> TAKE a \in 1..n
  <2>1. CASE a = i
    BY <1>3, <2>1
  <2>2. CASE a # i
    <3>1. PICK x \in 1..n : s[x] = a
      BY <1>0
    <3> QED BY <1>4, <1>5, <2>2, <3>1
  <2> QED BY <2>1, <2>2
<1>9. \A x, y \in 1..n : t[x] = t[y] => x = y
  <2> TAKE x, y \in 1..n
  <2> HAVE t[x] = t[y]
  <2> DEFINE old(z) == IF z < p THEN z ELSE z + 1
  <2>1. \A z \in 1..n : z # n => old(z) \in 1..n /\ t[z] = s[old(z)] /\ old(z) # p
    <3> TAKE z \in 1..n
    <3>1. z # n => old(z) \in 1..n /\ old(z) # p
      <4>1. CASE z < p
        BY <1>1, <4>1
      <4>2. CASE ~(z < p)
        BY <1>1, <4>2
      <4> QED BY <4>1, <4>2
    <3>2. CASE z < p
      BY <1>1, <1>3, <3>1, <3>2
    <3>3. CASE z >= p /\ z < n
      <4>1. t[z] = s[z + 1]
        BY <1>3, <3>3
      <4>2. old(z) = z + 1
        BY <1>1, <3>3
      <4> HIDE DEF old
      <4> QED BY <3>1, <3>3, <4>1, <4>2
    <3> QED BY <1>1, <3>1, <3>2, <3>3
  <2>2. \A z \in 1..n : z # n => t[z] # i
    <3> TAKE z \in 1..n
    <3> HAVE z # n
    <3>1. old(z) \in 1..n /\ t[z] = s[old(z)] /\ old(z) # p
      BY <2>1
    <3> HIDE DEF old
    <3> QED BY <1>0, <1>1, <3>1
  <2>3. CASE x = n \/ y = n
    BY <1>3, <2>2, <2>3
  <2>4. CASE x # n /\ y # n
    <3>1. s[old(x)] = s[old(y)] /\ old(x) \in 1..n /\ old(y) \in 1..n
      BY <2>1, <2>4
    <3>2. old(x) = old(y)
      <4> HIDE DEF old
      <4> QED BY <1>0, <3>1
    <3> QED BY ONLY <1>1, <2>4, <3>2
  <2> QED BY <2>3, <2>4
<1>10. \A a, b \in 1..n : a # i /\ b # i /\ Before(s, a, b) => Before(t, a, b)
  <2> TAKE a, b \in 1..n
  <2> HAVE a # i /\ b # i /\ Before(s, a, b)
  <2>1. PICK x \in 1..n, y \in 1..n : x < y /\ s[x] = a /\ s[y] = b
    BY <1>1 DEF Before
  <2>2. x # p /\ y # p
    BY <1>4, <2>1
  <2>3. /\ new(x) \in 1..n /\ new(y) \in 1..n /\ new(x) < new(y)
        /\ t[new(x)] = a /\ t[new(y)] = b
    BY <1>5, <1>6, <2>1, <2>2
  <2>4. DOMAIN t = 1..n
    BY <1>7
  <2> HIDE DEF new
  <2> QED BY <2>3, <2>4 DEF Before
<1>11. \A a \in 1..n : a # i => Before(t, a, i)
  <2> TAKE a \in 1..n
  <2> HAVE a # i
  <2>1. PICK x \in 1..n : s[x] = a
    BY <1>0
  <2>2. new(x) \in 1..n /\ t[new(x)] = a /\ new(x) < n
    BY <1>4, <1>5, <2>1
  <2>3. DOMAIN t = 1..n /\ n \in 1..n /\ t[n] = i
    BY <1>3, <1>7
  <2> HIDE DEF new
  <2> QED BY <2>2, <2>3 DEF Before
<1>12. t \in List(n)
  BY <1>7, <1>8, <1>9 DEF List
<1> QED BY <1>10, <1>11, <1>12 DEF t

\* The list with slot i moved to the head.
LEMMA ToFrontFacts ==
  ASSUME NEW n \in Nat \ {0}, NEW s \in List(n), NEW i \in 1..n
  PROVE  /\ ToFront(s, i) \in List(n)
         /\ \A a, b \in 1..n : a # i /\ b # i /\ Before(s, a, b) => Before(ToFront(s, i), a, b)
<1> DEFINE p == At(s, i)
<1> DEFINE t == ToFront(s, i)
<1>0. (\A x, y \in 1..n : s[x] = s[y] => x = y) /\ (\A a \in 1..n : \E x \in 1..n : s[x] = a)
  BY ListIsSeq
<1>1. p \in 1..n /\ s[p] = i /\ s \in [1..n -> 1..n] /\ DOMAIN s = 1..n /\ n \in Nat
  <2>1. s \in [1..n -> 1..n] /\ DOMAIN s = 1..n
    BY ListIsSeq
  <2> QED BY <2>1, AtIn
<1>2. t = [x \in 1..n |-> IF x > p THEN s[x] ELSE IF x > 1 THEN s[x - 1] ELSE i]
  BY <1>1 DEF ToFront
<1> HIDE DEF p, t
<1>3. \A x \in 1..n : /\ x > p => t[x] = s[x]
                      /\ x <= p /\ x > 1 => t[x] = s[x - 1]
                      /\ x = 1 => t[x] = i
  BY <1>1, <1>2
<1>4. \A x \in 1..n : s[x] # i => x # p
  BY <1>1
<1> DEFINE new(x) == IF x > p THEN x ELSE x + 1
<1>5. \A x \in 1..n : x # p => new(x) \in 1..n /\ t[new(x)] = s[x]
  <2> TAKE x \in 1..n
  <2>1. CASE x > p
    BY <1>1, <1>3, <2>1
  <2>2. CASE x < p
    <3> DEFINE y == x + 1
    <3>1. y \in 1..n /\ y <= p /\ y > 1 /\ y - 1 = x
      BY <1>1, <2>2
    <3> HIDE DEF y
    <3>2. t[y] = s[x]
      BY <1>3, <3>1
    <3>3. new(x) = y
      BY <1>1, <2>2 DEF y
    <3> QED BY <3>1, <3>2, <3>3
  <2> QED BY <1>1, <2>1, <2>2
<1>6. \A x, y \in 1..n : x # p /\ y # p /\ x < y => new(x) < new(y)
  BY <1>1
<1>7. t \in [1..n -> 1..n]
  <2>1. \A x \in 1..n : x > 1 => x - 1 \in 1..n
    OBVIOUS
  <2> QED BY <1>1, <1>2, <2>1
<1>8. \A a \in 1..n : \E x \in 1..n : t[x] = a
  <2> TAKE a \in 1..n
  <2>1. CASE a = i
    BY <1>3, <2>1
  <2>2. CASE a # i
    <3>1. PICK x \in 1..n : s[x] = a
      BY <1>0
    <3> QED BY <1>4, <1>5, <2>2, <3>1
  <2> QED BY <2>1, <2>2
<1>9. \A x, y \in 1..n : t[x] = t[y] => x = y
  <2> TAKE x, y \in 1..n
  <2> HAVE t[x] = t[y]
  <2> DEFINE old(z) == IF z > p THEN z ELSE z - 1
  <2>1. \A z \in 1..n : z # 1 => old(z) \in 1..n /\ t[z] = s[old(z)] /\ old(z) # p
    <3> TAKE z \in 1..n
    <3>1. z # 1 => old(z) \in 1..n /\ old(z) # p
      <4>1. CASE z > p
        BY <1>1, <4>1
      <4>2. CASE ~(z > p)
        BY <1>1, <4>2
      <4> QED BY <4>1, <4>2
    <3>2. CASE z > p
      BY <1>1, <1>3, <3>1, <3>2
    <3>3. CASE z <= p /\ z > 1
      <4>1. t[z] = s[z - 1]
        BY <1>3, <3>3
      <4>2. old(z) = z - 1
        BY <1>1, <3>3
      <4> HIDE DEF old
      <4> QED BY <3>1, <3>3, <4>1, <4>2
    <3> QED BY <1>1, <3>1, <3>2, <3>3
  <2>2. \A z \in 1..n : z # 1 => t[z] # i
    <3> TAKE z \in 1..n
    <3> HAVE z # 1
    <3>1. old(z) \in 1..n /\ t[z] = s[old(z)] /\ old(z) # p
      BY <2>1
    <3> HIDE DEF old
    <3> QED BY <1>0, <1>1, <3>1
  <2>3. CASE x = 1 \/ y = 1
    BY <1>3, <2>2, <2>3
  <2>4. CASE x # 1 /\ y # 1
    <3>1. s[old(x)] = s[old(y)] /\ old(x) \in 1..n /\ old(y) \in 1..n
      BY <2>1, <2>4
    <3>2. old(x) = old(y)
      <4> HIDE DEF old
      <4> QED BY <1>0, <3>1
    <3> QED BY ONLY <1>1, <2>4, <3>2
  <2> QED BY <2>3, <2>4
<1>10. \A a, b \in 1..n : a # i /\ b # i /\ Before(s, a, b) => Before(t, a, b)
  <2> TAKE a, b \in 1..n
  <2> HAVE a # i /\ b # i /\ Before(s, a, b)
  <2>1. PICK x \in 1..n, y \in 1..n : x < y /\ s[x] = a /\ s[y] = b
    BY <1>1 DEF Before
  <2>2. x # p /\ y # p
    BY <1>4, <2>1
  <2>3. /\ new(x) \in 1..n /\ new(y) \in 1..n /\ new(x) < new(y)
        /\ t[new(x)] = a /\ t[new(y)] = b
    BY <1>5, <1>6, <2>1, <2>2
  <2>4. DOMAIN t = 1..n
    BY <1>7
  <2> HIDE DEF new
  <2> QED BY <2>3, <2>4 DEF Before
<1>12. t \in List(n)
  BY <1>7, <1>8, <1>9 DEF List
<1> QED BY <1>10, <1>12 DEF t

-----------------------------------------------------------------------------
(* Prompts and their blocks.                                               *)

\* Sequences of tokens, and those that are not empty.
Tokens == Seq(Nat \ {0})
Prompts == Tokens \ {NoKey}

\* A quotient and its multiples.
LEMMA Quotient ==
  ASSUME NEW a \in Nat, NEW b \in Nat \ {0}
  PROVE  a \div b \in Nat /\ (a \div b) * b <= a
<1> DEFINE q == a \div b
<1>1. a = b * q + (a % b) /\ q \in Int /\ a % b \in 0..(b - 1)
  OBVIOUS
<1> HIDE DEF q
<1>2. a % b >= 0 /\ a % b < b /\ a % b \in Int
  BY <1>1
<1>3. q >= 0
  <2>1. SUFFICES ASSUME q <= -1 PROVE FALSE
    BY <1>1
  <2>2. b * q <= -b
    BY <1>1, <2>1
  <2>3. b * q \in Int
    BY <1>1
  <2> QED BY <1>1, <1>2, <2>2, <2>3
<1>4. b * q = q * b /\ b * q \in Int
  BY <1>1
<1> QED BY <1>1, <1>2, <1>3, <1>4 DEF q

\* Multiplying keeps the order.
LEMMA Monotone ==
  ASSUME NEW a \in Nat, NEW b \in Nat, NEW m \in Nat \ {0}
  PROVE  a <= b <=> a * m <= b * m
<1>1. ASSUME NEW x \in Nat, NEW y \in Nat, x <= y PROVE x * m <= y * m
  <2>1. PICK d \in Nat : y = x + d
    BY <1>1
  <2>2. y * m = x * m + d * m /\ d * m \in Nat /\ x * m \in Nat
    BY <2>1
  <2> QED BY <2>2
<1>2. ASSUME NEW x \in Nat, NEW y \in Nat, x < y PROVE x * m < y * m
  <2>1. PICK d \in Nat : y = x + 1 + d
    BY <1>2
  <2>2. y * m = x * m + m + d * m /\ d * m \in Nat /\ x * m \in Nat
    BY <2>1
  <2> QED BY <2>2
<1>3. a * m \in Nat /\ b * m \in Nat
  OBVIOUS
<1>4. CASE a <= b
  BY <1>1, <1>4
<1>5. CASE b < a
  BY <1>2, <1>3, <1>5
<1> QED BY <1>4, <1>5

\* A prompt has a number of whole blocks.
LEMMA BlockCount ==
  ASSUME NEW ids \in Prompts PROVE NFull(ids) \in Nat
<1>1. Len(ids) \in Nat /\ B \in Nat \ {0}
  BY CacheAssumption DEF Prompts, Tokens
<1> QED BY <1>1, Quotient DEF NFull

\* A block boundary of a prompt.
LEMMA Boundary ==
  ASSUME NEW ids \in Prompts, NEW b \in 1..NFull(ids)
  PROVE  b * B \in 1..Len(ids) /\ NFull(ids) \in Nat
<1>1. Len(ids) \in Nat /\ B \in Nat \ {0}
  BY CacheAssumption DEF Prompts, Tokens
<1>2. NFull(ids) \in Nat /\ NFull(ids) * B <= Len(ids)
  BY <1>1, Quotient DEF NFull
<1>3. b * B <= NFull(ids) * B
  BY <1>1, <1>2, Monotone
<1>4. b * B >= B /\ b * B \in Nat
  <2>1. 1 * B <= b * B
    BY <1>1, <1>2, Monotone
  <2> QED BY <1>1, <1>2, <2>1
<1>5. NFull(ids) * B \in Nat
  BY <1>1, <1>2
<1> QED BY <1>1, <1>2, <1>3, <1>4, <1>5

\* The blocks of a prompt up to one of them.
LEMMA UptoFacts ==
  ASSUME NEW ids \in Prompts, NEW b \in 1..NFull(ids)
  PROVE  /\ Upto(ids, b) \in Prompts /\ Len(Upto(ids, b)) = b * B
         /\ \A n \in 1..(b * B) : Upto(ids, b)[n] = ids[n]
<1>1. b * B \in 1..Len(ids) /\ ids \in Seq(Nat \ {0})
  BY Boundary DEF Prompts, Tokens
<1> DEFINE m == b * B
<1>2. m \in 1..Len(ids) /\ Len(ids) \in Nat
  BY <1>1
<1> HIDE DEF m
<1>3. SubSeq(ids, 1, m) \in Seq(Nat \ {0}) /\ Len(SubSeq(ids, 1, m)) = m
      /\ \A n \in 1..m : SubSeq(ids, 1, m)[n] = ids[n]
  BY <1>1, <1>2
<1>4. SubSeq(ids, 1, m) # <<>>
  BY <1>2, <1>3
<1> QED BY <1>3, <1>4 DEF m, Upto, Prompts, Tokens, NoKey

\* Equal by length and elements.
LEMMA SameTokens ==
  ASSUME NEW s \in Tokens, NEW t \in Tokens, Len(s) = Len(t),
         \A n \in 1..Len(s) : s[n] = t[n]
  PROVE  s = t
BY DEF Tokens

\* Blocks that a block of a prompt extends are the prompt's own, further up.
LEMMA BlockBelow ==
  ASSUME NEW ids \in Prompts, NEW c \in 1..NFull(ids),
         NEW x \in Prompts, NEW d \in 1..NFull(x),
         IsStrictPrefix(Upto(x, d), Upto(ids, c))
  PROVE  d \in 1..(c - 1) /\ Upto(x, d) = Upto(ids, d)
<1> DEFINE s == Upto(x, d)
<1> DEFINE t == Upto(ids, c)
<1>1. s \in Tokens /\ t \in Tokens /\ Len(s) = d * B /\ Len(t) = c * B
      /\ \A n \in 1..(c * B) : t[n] = ids[n]
  BY UptoFacts DEF Prompts
<1>2. Len(s) <= Len(t) /\ SubSeq(s, 1, Len(s)) = SubSeq(t, 1, Len(s)) /\ s # t
  BY DEF IsStrictPrefix, IsPrefix
<1>3. c \in Nat /\ d \in Nat /\ d >= 1 /\ c <= NFull(ids) /\ NFull(ids) \in Nat /\ B \in Nat \ {0}
  <2>1. NFull(ids) \in Nat /\ NFull(x) \in Nat
    BY Boundary
  <2> QED BY <2>1, CacheAssumption
<1> HIDE DEF s, t
<1>4. d <= c
  BY <1>1, <1>2, <1>3, Monotone
<1>5. \A n \in 1..Len(s) : s[n] = t[n]
  <2>1. Len(s) \in Nat /\ Len(t) \in Nat
    BY <1>1 DEF Tokens
  <2>2. \A n \in 1..Len(s) : SubSeq(s, 1, Len(s))[n] = s[n] /\ SubSeq(t, 1, Len(s))[n] = t[n]
    BY <1>1, <1>2, <2>1 DEF Tokens
  <2> QED BY <1>2, <2>2
<1>6. d # c
  <2>1. SUFFICES ASSUME d = c PROVE FALSE
    OBVIOUS
  <2>2. Len(s) = Len(t)
    BY <1>1, <2>1
  <2> QED BY <1>1, <1>2, <1>5, <2>2, SameTokens
<1>7. d \in 1..NFull(ids) /\ d \in 1..(c - 1)
  BY <1>3, <1>4, <1>6
<1>8. Upto(ids, d) \in Tokens /\ Len(Upto(ids, d)) = d * B
      /\ \A n \in 1..(d * B) : Upto(ids, d)[n] = ids[n]
  BY <1>7, UptoFacts DEF Prompts
<1>9. \A n \in 1..Len(s) : s[n] = Upto(ids, d)[n]
  <2> TAKE n \in 1..Len(s)
  <2>1. Len(s) \in Nat /\ Len(t) \in Nat
    BY <1>1 DEF Tokens
  <2>2. n \in 1..(c * B) /\ n \in 1..(d * B)
    BY <1>1, <1>2, <2>1
  <2> QED BY <1>1, <1>5, <1>8, <2>2
<1>10. s = Upto(ids, d)
  BY <1>1, <1>8, <1>9, SameTokens
<1> QED BY <1>7, <1>10 DEF s

\* A prompt cut short has the blocks of the whole.
LEMMA CutPrompt ==
  ASSUME NEW ids \in Prompts, NEW n \in 1..Len(ids)
  PROVE  LET at == SubSeq(ids, 1, n) IN
         /\ at \in Prompts /\ NFull(at) = n \div B /\ n \div B <= NFull(ids)
         /\ \A b \in 1..NFull(at) : b \in 1..NFull(ids) /\ Upto(at, b) = Upto(ids, b)
<1> DEFINE at == SubSeq(ids, 1, n)
<1>1. ids \in Seq(Nat \ {0}) /\ Len(ids) \in Nat /\ n \in Nat /\ n <= Len(ids) /\ B \in Nat \ {0}
  BY CacheAssumption DEF Prompts, Tokens
<1>2. at \in Seq(Nat \ {0}) /\ Len(at) = n /\ \A k \in 1..n : at[k] = ids[k]
  BY <1>1
<1>3. at \in Prompts
  BY <1>2 DEF Prompts, Tokens, NoKey
<1>4. NFull(at) = n \div B
  BY <1>2 DEF NFull
<1> HIDE DEF at
<1>5. n \div B <= NFull(ids)
  <2> DEFINE p == n \div B
  <2> DEFINE q == Len(ids) \div B
  <2>1. p \in Nat /\ p * B <= n
    BY <1>1, Quotient
  <2>2. q \in Nat /\ Len(ids) = B * q + (Len(ids) % B) /\ Len(ids) % B \in 0..(B - 1)
    <3>1. q \in Nat
      BY <1>1, Quotient
    <3> QED BY <1>1, <3>1
  <2> HIDE DEF p, q
  <2>3. p * B < (q + 1) * B
    <3>1. (q + 1) * B = B * q + B /\ B * q \in Int /\ p * B \in Int
      BY <1>1, <2>1, <2>2
    <3> DEFINE u == p * B
    <3> DEFINE v == B * q
    <3> DEFINE r == Len(ids) % B
    <3>2. u \in Int /\ v \in Int /\ r \in Int /\ u <= n /\ Len(ids) = v + r /\ r < B
      BY <1>1, <2>1, <2>2, <3>1
    <3>3. (q + 1) * B = v + B
      BY <3>1
    <3> HIDE DEF u, v, r
    <3>4. u < v + B
      BY <1>1, <3>2
    <3> QED BY <3>3, <3>4 DEF u
  <2>4. ~(q + 1 <= p)
    <3>1. q + 1 \in Nat /\ p * B \in Int /\ (q + 1) * B \in Int
      BY <1>1, <2>1, <2>2
    <3>2. q + 1 <= p => (q + 1) * B <= p * B
      BY <1>1, <2>1, <3>1, Monotone
    <3> QED BY <2>3, <3>1, <3>2
  <2>5. p <= q
    BY <2>1, <2>2, <2>4
  <2> QED BY <2>5 DEF p, q, NFull
<1>6. ASSUME NEW b \in 1..NFull(at) PROVE b \in 1..NFull(ids) /\ Upto(at, b) = Upto(ids, b)
  <2>1. NFull(at) \in Nat /\ NFull(ids) \in Nat
    BY <1>1, <1>2, Quotient DEF NFull
  <2>2. b \in 1..NFull(ids)
    BY <1>4, <1>5, <2>1
  <2>3. /\ Upto(at, b) \in Tokens /\ Len(Upto(at, b)) = b * B
        /\ \A k \in 1..(b * B) : Upto(at, b)[k] = at[k]
    BY <1>3, UptoFacts DEF Prompts
  <2>4. /\ Upto(ids, b) \in Tokens /\ Len(Upto(ids, b)) = b * B
        /\ \A k \in 1..(b * B) : Upto(ids, b)[k] = ids[k]
    BY <2>2, UptoFacts DEF Prompts
  <2>5. b * B <= n
    <3>1. b * B \in 1..Len(at)
      BY <1>3, Boundary
    <3> QED BY <1>1, <1>2, <3>1
  <2>6. \A k \in 1..(b * B) : k \in 1..n
    BY <1>1, <2>1, <2>5
  <2>7. \A k \in 1..(b * B) : Upto(at, b)[k] = Upto(ids, b)[k]
    BY <1>2, <2>3, <2>4, <2>6
  <2> QED BY <2>2, <2>3, <2>4, <2>7, SameTokens
<1> QED BY <1>3, <1>4, <1>5, <1>6 DEF at

-----------------------------------------------------------------------------
(* Touching a prompt, from its deep end.                                   *)

\* The eviction lists the blocks' slots can be in.
BlockList == List(NSlots["blk"])

\* The blocks of a table are blocks of prompts.
BlockKeys(t) ==
  \A i \in Slots("blk") : t[i].key # NoKey =>
    \E x \in Prompts : \E d \in 1..NFull(x) : t[i].key = Upto(x, d)

\* No block is held twice.
HeldOnce(t) ==
  \A i, j \in Slots("blk") :
    t[i].linked /\ t[j].linked /\ t[i].key = t[j].key /\ t[i].key # NoKey => i = j

\* A block that another extends.
Below(t, i, j) ==
  t[i].linked /\ t[j].linked /\ t[i].key # NoKey /\ IsStrictPrefix(t[i].key, t[j].key)

\* What list s still owes the deep end: the first b blocks of a prompt have not been touched.
Ordered(t, s, ids, b) ==
  \A i, j \in Slots("blk") :
    Below(t, i, j) => Before(s, j, i) \/ \E c \in 1..b : t[i].key = Upto(ids, c)

\* A set of naturals has a least member.
LEMMA Smallest ==
  ASSUME NEW S, S \subseteq Nat, S # {} PROVE \E m \in S : \A y \in S : m <= y
<1>1. IsWellFoundedOn(OpToRel(<, Nat), Nat)
  BY NatLessThanWellFounded
<1> DEFINE R == OpToRel(<, Nat)
<1>2. \A x, y \in Nat : <<x, y>> \in R <=> x < y
  BY DEF OpToRel
<1> HIDE DEF R
<1>3. PICK m \in S : \A y \in S : <<y, m>> \notin R
  BY <1>1, WFMin DEF R
<1>4. \A y \in S : m <= y
  <2> TAKE y \in S
  <2>1. m \in Nat /\ y \in Nat /\ ~(y < m)
    BY <1>2, <1>3
  <2> QED BY <2>1
<1> QED BY <1>4

\* The slot find returns is held.
LEMMA SlotIsHeld ==
  ASSUME NEW ids, NEW b, Held("blk", Upto(ids, b)) # {}
  PROVE  SlotOf(b, ids) \in Held("blk", Upto(ids, b)) /\ SlotOf(b, ids) \in Slots("blk")
<1> DEFINE H == Held("blk", Upto(ids, b))
<1> DEFINE n == NSlots["blk"]
<1>1. H \subseteq 1..n /\ n \in Nat
  BY CacheAssumption DEF Held, Slots, Kind
<1> HIDE DEF H, n
<1> DEFINE G == {n - x : x \in H}
<1>2. G \subseteq Nat /\ G # {}
  BY <1>1 DEF H
<1>3. PICK g \in G : \A y \in G : g <= y
  <2> HIDE DEF G
  <2> QED BY <1>2, Smallest
<1>4. PICK x \in H : g = n - x
  OBVIOUS
<1>5. \A y \in H : x >= y
  <2> TAKE y \in H
  <2>1. n - x <= n - y
    BY <1>3, <1>4
  <2> QED BY <1>1, <2>1
<1>6. Max(H) \in H
  BY <1>5 DEF Max
<1>7. SlotOf(b, ids) \in H
  BY <1>6 DEF SlotOf, H
<1> QED BY <1>7 DEF H, Held

\* One step of the walk.
LEMMA TouchHeldFacts ==
  ASSUME NEW s \in BlockList, NEW ids \in Prompts, NEW b \in 0..(NFull(ids) - 1),
         NFull(ids) \in Nat
  PROVE  /\ TouchHeld(s, b + 1, ids) \in BlockList
         /\ BlockKeys(tab["blk"]) /\ HeldOnce(tab["blk"]) /\ Ordered(tab["blk"], s, ids, b + 1) =>
              Ordered(tab["blk"], TouchHeld(s, b + 1, ids), ids, b)
<1> DEFINE n == NSlots["blk"]
<1> DEFINE c == b + 1
<1> DEFINE k == Upto(ids, c)
<1>1. n \in Nat \ {0} /\ Slots("blk") = 1..n /\ BlockList = List(n)
  BY CacheAssumption DEF Slots, BlockList, Kind
<1>2. c \in 1..NFull(ids) /\ b = c - 1 /\ b \in Nat
  OBVIOUS
<1>3. k \in Prompts
  BY <1>2, UptoFacts
<1> HIDE DEF n, c
<1>4. CASE Held("blk", k) = {}
  <2>1. TouchHeld(s, c, ids) = s
    BY <1>4 DEF TouchHeld
  <2>2. ASSUME Ordered(tab["blk"], s, ids, c) PROVE Ordered(tab["blk"], s, ids, b)
    <3> SUFFICES ASSUME NEW i \in Slots("blk"), NEW j \in Slots("blk"), Below(tab["blk"], i, j),
                        NEW a \in 1..c, tab["blk"][i].key = Upto(ids, a)
                 PROVE  \E e \in 1..b : tab["blk"][i].key = Upto(ids, e)
      BY <2>2 DEF Ordered
    <3>1. a # c
      BY <1>4 DEF Held, Below
    <3>2. a \in 1..b
      BY <1>2, <3>1
    <3> QED BY <3>2
  <2> QED BY <2>1, <2>2 DEF c
<1>5. CASE Held("blk", k) # {}
  <2> DEFINE x == SlotOf(c, ids)
  <2>1. TouchHeld(s, c, ids) = Touch(s, x)
    BY <1>5 DEF TouchHeld
  <2>2. x \in 1..n /\ tab["blk"][x].linked /\ tab["blk"][x].key = k
    BY <1>1, <1>5, SlotIsHeld DEF Held
  <2> HIDE DEF x
  <2> DEFINE t == Touch(s, x)
  <2>3. /\ t \in List(n)
        /\ \A e, f \in 1..n : e # x /\ f # x /\ Before(s, e, f) => Before(t, e, f)
        /\ \A e \in 1..n : e # x => Before(t, e, x)
    BY <1>1, <2>2, TouchFacts
  <2> HIDE DEF t
  <2>4. ASSUME BlockKeys(tab["blk"]), HeldOnce(tab["blk"]), Ordered(tab["blk"], s, ids, c)
        PROVE  Ordered(tab["blk"], t, ids, b)
    <3> SUFFICES ASSUME NEW i \in 1..n, NEW j \in 1..n, Below(tab["blk"], i, j), ~Before(t, j, i)
                 PROVE  \E e \in 1..b : tab["blk"][i].key = Upto(ids, e)
      BY <1>1 DEF Ordered
    <3>1. i # x
      <4>1. j # i
        BY DEF Below, IsStrictPrefix
      <4> QED BY <2>3, <4>1
    <3>2. CASE j = x
      <4>1. IsStrictPrefix(tab["blk"][i].key, k) /\ tab["blk"][i].key # NoKey
        BY <2>2, <3>2 DEF Below
      <4>2. PICK y \in Prompts : \E d \in 1..NFull(y) : tab["blk"][i].key = Upto(y, d)
        BY <1>1, <2>4, <4>1 DEF BlockKeys
      <4>3. PICK d \in 1..NFull(y) : tab["blk"][i].key = Upto(y, d)
        BY <4>2
      <4>4. d \in 1..(c - 1) /\ Upto(y, d) = Upto(ids, d)
        BY <1>2, <4>1, <4>3, BlockBelow
      <4> QED BY <1>2, <4>3, <4>4
    <3>3. CASE j # x
      <4>1. ~Before(s, j, i)
        BY <2>3, <3>1, <3>3
      <4>2. PICK e \in 1..c : tab["blk"][i].key = Upto(ids, e)
        BY <1>1, <2>4, <4>1 DEF Ordered
      <4>3. e # c
        <5>1. SUFFICES ASSUME e = c PROVE FALSE
          OBVIOUS
        <5>2. tab["blk"][i].key = k /\ tab["blk"][i].linked /\ k # NoKey
          BY <1>3, <4>2, <5>1 DEF Below, Prompts
        <5> QED BY <1>1, <2>2, <2>4, <3>1, <5>2 DEF HeldOnce
      <4>4. e \in 1..b
        BY <1>2, <4>2, <4>3
      <4> QED BY <4>2, <4>4
    <3> QED BY <3>2, <3>3
  <2> QED BY <1>1, <2>1, <2>3, <2>4 DEF c, t
<1> QED BY <1>4, <1>5

\* The walk over a prompt, from its deep end: the list after each of its steps.
LEMMA WalkExists ==
  ASSUME NEW s, NEW ids, NEW n \in Nat
  PROVE  \E f : f = [b \in 0..n |-> IF b = n THEN s ELSE TouchHeld(f[b + 1], b + 1, ids)]
<1> DEFINE Ok(m) == \E f : f = [b \in (n - m)..n |->
                                  IF b = n THEN s ELSE TouchHeld(f[b + 1], b + 1, ids)]
<1> DEFINE Bad == {m \in 0..n : ~Ok(m)}
<1>1. ~(0 \in Bad)
  <2> DEFINE f == [b \in n..n |-> s]
  <2>1. f = [b \in (n - 0)..n |-> IF b = n THEN s ELSE TouchHeld(f[b + 1], b + 1, ids)]
    OBVIOUS
  <2> HIDE DEF f
  <2> QED BY <2>1
<1>2. ASSUME NEW m \in 0..n, m + 1 <= n, Ok(m) PROVE Ok(m + 1)
  <2>1. PICK f : f = [b \in (n - m)..n |->
                        IF b = n THEN s ELSE TouchHeld(f[b + 1], b + 1, ids)]
    BY <1>2
  <2> DEFINE l == n - (m + 1)
  <2> DEFINE g == [b \in l..n |-> IF b = l THEN TouchHeld(f[l + 1], l + 1, ids) ELSE f[b]]
  <2>2. l \in Nat /\ l < n /\ l + 1 = n - m
    BY <1>2
  <2> HIDE DEF l
  <2>3. \A b \in l..n : b # l => b \in (n - m)..n
    BY <2>2
  <2>4. \A b \in l..n : b # n => b + 1 \in l..n /\ b + 1 # l /\ g[b + 1] = f[b + 1]
    BY <2>2
  <2>5. \A b \in l..n : g[b] = IF b = n THEN s ELSE TouchHeld(g[b + 1], b + 1, ids)
    <3> TAKE b \in l..n
    <3>1. CASE b = l
      BY <2>2, <2>4, <3>1
    <3>2. CASE b # l
      <4>1. g[b] = f[b] /\ b \in (n - m)..n
        BY <2>3, <3>2
      <4>2. f[b] = IF b = n THEN s ELSE TouchHeld(f[b + 1], b + 1, ids)
        BY <2>1, <4>1
      <4> QED BY <2>4, <4>1, <4>2
    <3> QED BY <3>1, <3>2
  <2>6. g = [b \in l..n |-> g[b]]
    OBVIOUS
  <2> HIDE DEF g
  <2>7. g = [b \in l..n |-> IF b = n THEN s ELSE TouchHeld(g[b + 1], b + 1, ids)]
    BY <2>5, <2>6
  <2> QED BY <2>7 DEF l
<1>3. Bad = {}
  <2> SUFFICES ASSUME Bad # {} PROVE FALSE
    OBVIOUS
  <2>1. Bad \subseteq Nat
    OBVIOUS
  <2>2. PICK m \in Bad : \A y \in Bad : m <= y
    <3> HIDE DEF Bad
    <3> QED BY <2>1, Smallest
  <2>3. m # 0 /\ m \in 0..n /\ ~Ok(m)
    BY <1>1
  <2>4. m - 1 \in 0..n /\ (m - 1) + 1 = m /\ m <= n
    BY <2>3
  <2>5. m - 1 \notin Bad
    <3> HIDE DEF Bad
    <3> QED BY <2>2, <2>4
  <2>6. Ok(m - 1)
    <3> HIDE DEF Ok
    <3> QED BY <2>4, <2>5
  <2>7. Ok((m - 1) + 1)
    <3> HIDE DEF Ok
    <3> QED BY <1>2, <2>4, <2>6
  <2>8. Ok(m)
    <3> HIDE DEF Ok
    <3> QED BY <2>4, <2>7
  <2> QED BY <2>3, <2>8
<1>4. Ok(n)
  <2> HIDE DEF Ok
  <2> QED BY <1>3
<1> QED BY <1>4

\* Touching a prompt leaves nothing owed.
LEMMA TouchPromptFacts ==
  ASSUME NEW s \in BlockList, NEW ids \in Prompts
  PROVE  /\ TouchPrompt(s, ids) \in BlockList
         /\ BlockKeys(tab["blk"]) /\ HeldOnce(tab["blk"]) /\ Ordered(tab["blk"], s, ids, NFull(ids)) =>
              Ordered(tab["blk"], TouchPrompt(s, ids), ids, 0)
<1> DEFINE n == NFull(ids)
<1> DEFINE F == CHOOSE f : f = [b \in 0..n |-> IF b = n THEN s ELSE TouchHeld(f[b + 1], b + 1, ids)]
<1>1. TouchPrompt(s, ids) = F[0]
  BY DEF TouchPrompt
<1>2. n \in Nat
  BY CacheAssumption, Quotient DEF NFull, Prompts, Tokens
<1> HIDE DEF n
<1>3. F = [b \in 0..n |-> IF b = n THEN s ELSE TouchHeld(F[b + 1], b + 1, ids)]
  BY <1>2, WalkExists
<1> HIDE DEF F
<1> DEFINE Good(b) == /\ F[b] \in BlockList
                      /\ BlockKeys(tab["blk"]) /\ HeldOnce(tab["blk"]) /\ Ordered(tab["blk"], s, ids, n) =>
                           Ordered(tab["blk"], F[b], ids, b)
<1> DEFINE Bad == {m \in 0..n : ~Good(n - m)}
<1>4. Good(n)
  <2>1. F[n] = s
    BY <1>2, <1>3
  <2> QED BY <2>1
<1>5. ASSUME NEW b \in 0..(n - 1), Good(b + 1) PROVE Good(b)
  <2>1. b \in 0..n /\ b # n
    BY <1>2
  <2>2. F[b] = TouchHeld(F[b + 1], b + 1, ids)
    BY <1>3, <2>1
  <2>3. b \in 0..(NFull(ids) - 1) /\ NFull(ids) \in Nat
    BY <1>2 DEF n
  <2>4. /\ F[b] \in BlockList
        /\ BlockKeys(tab["blk"]) /\ HeldOnce(tab["blk"]) /\ Ordered(tab["blk"], F[b + 1], ids, b + 1) =>
             Ordered(tab["blk"], F[b], ids, b)
    BY <1>5, <2>2, <2>3, TouchHeldFacts
  <2> QED BY <1>5, <2>4
<1> HIDE DEF Good
<1>6. Bad = {}
  <2> SUFFICES ASSUME Bad # {} PROVE FALSE
    OBVIOUS
  <2>1. Bad \subseteq Nat
    OBVIOUS
  <2>2. PICK m \in Bad : \A y \in Bad : m <= y
    <3> HIDE DEF Bad
    <3> QED BY <2>1, Smallest
  <2>3. m \in 0..n /\ ~Good(n - m)
    OBVIOUS
  <2>4. m # 0
    BY <1>2, <1>4, <2>3
  <2>5. m - 1 \in 0..n /\ m - 1 < m
    BY <1>2, <2>3, <2>4
  <2>6. Good(n - (m - 1))
    <3>1. m - 1 \notin Bad
      <4> HIDE DEF Bad
      <4> QED BY <2>2, <2>3, <2>5
    <3> QED BY <2>5, <3>1
  <2>7. n - m \in 0..(n - 1) /\ (n - m) + 1 = n - (m - 1)
    BY <1>2, <2>3, <2>4
  <2> QED BY <1>5, <2>3, <2>6, <2>7
<1>7. Good(0)
  <2>1. n \in 0..n /\ n - n = 0
    BY <1>2
  <2> QED BY <1>6, <2>1
<1> QED BY <1>1, <1>7 DEF Good, n

-----------------------------------------------------------------------------
(* The states the program can be in, and what its actions do to each part. *)

\* A key the code can have computed: publish's for a block or for a checkpoint.
IsKey(k, key) == key \in Keys(k)

\* An entry of the index, a slot of a file, a queued write, and what the writer is at.
Entry == [used : BOOLEAN, linked : BOOLEAN, key : Tokens]
Stored == [hdr : Tokens, rows : Tokens \cup {Torn}]
Job == [kind : Kind, slot : Nat, buf : Buf]
Work == [ph : {"rows", "header"}, kind : Kind, slot : Nat, buf : Buf]

\* The tables...
TabOK(t) ==
  /\ t = [k \in Kind |-> t[k]]
  /\ \A k \in Kind : t[k] \in [Slots(k) -> Entry]
  /\ \A k \in Kind : \A i \in Slots(k) : t[k][i].key # NoKey => IsKey(k, t[k][i].key)

\* ...the eviction lists...
ListsOK(l) == l = [k \in Kind |-> l[k]] /\ \A k \in Kind : l[k] \in List(NSlots[k])

\* ...the files...
DiskOK ==
  /\ disk = [k \in Kind |-> disk[k]]
  /\ \A k \in Kind : disk[k] \in [Slots(k) -> Stored]
  /\ \A k \in Kind : \A i \in Slots(k) : disk[k][i].hdr # NoKey => IsKey(k, disk[k][i].hdr)

\* ...and what is staged and queued.  No buffer is in two places.
QueueOK ==
  /\ stage \in [Buf -> Tokens] /\ jobs \in Seq(Job) /\ writer \in {Idle} \cup Work
  /\ \A n \in DOMAIN jobs : jobs[n].slot \in Slots(jobs[n].kind)
                            /\ IsKey(jobs[n].kind, stage[jobs[n].buf])
  /\ writer.ph # "idle" => writer.slot \in Slots(writer.kind)
                           /\ IsKey(writer.kind, stage[writer.buf])
  /\ \A m, n \in DOMAIN jobs : jobs[m].buf = jobs[n].buf => m = n
  /\ writer.ph # "idle" => \A n \in DOMAIN jobs : jobs[n].buf # writer.buf

\* What the index file names, if there is one, is what close() wrote.
IndexOK == index = NoIndex \/ (TabOK(index.tab) /\ ListsOK(index.lru))

\* A publish under way has a prompt and a next block.
PublishOK == pub = NoPublish \/ pub \in [on : {TRUE}, ids : Turns, b : Nat \ {0}]

\* The bounded events only run down.
LeftOK ==
  /\ left \in [{"publish", "fail", "refuse", "close", "crash"} -> Nat]
  /\ left["fail"] <= MaxFail /\ left["refuse"] <= MaxRefuse /\ left["crash"] <= MaxCrash

\* The type invariant.
CacheTypeOK ==
  TabOK(tab) /\ ListsOK(lru) /\ DiskOK /\ QueueOK /\ IndexOK /\ PublishOK /\ LeftOK

\* A turn is a prompt.
LEMMA TurnsArePrompts == Turns \subseteq Prompts
BY CacheAssumption DEF Prompts, Tokens

\* A key is not empty.
LEMMA KeysArePrompts ==
  ASSUME NEW k, NEW key, IsKey(k, key) PROVE key \in Prompts /\ key \in Tokens /\ key # NoKey
<1>1. CASE k = "blk"
  <2>1. PICK x \in Turns : \E d \in 1..NFull(x) : key = Upto(x, d)
    BY <1>1 DEF IsKey, Keys
  <2>2. PICK d \in 1..NFull(x) : key = Upto(x, d)
    BY <2>1
  <2>3. x \in Prompts
    BY TurnsArePrompts
  <2> QED BY <2>2, <2>3, UptoFacts DEF Prompts
<1>2. CASE k # "blk"
  BY <1>2, TurnsArePrompts DEF IsKey, Keys, Prompts
<1> QED BY <1>1, <1>2

\* The table's blocks are blocks.
LEMMA TabBlocks ==
  ASSUME NEW t, TabOK(t) PROVE BlockKeys(t["blk"])
<1> SUFFICES ASSUME NEW i \in Slots("blk"), t["blk"][i].key # NoKey
             PROVE  \E x \in Prompts : \E d \in 1..NFull(x) : t["blk"][i].key = Upto(x, d)
  BY DEF BlockKeys
<1>1. IsKey("blk", t["blk"][i].key)
  BY DEF TabOK, Kind
<1> QED BY <1>1, TurnsArePrompts DEF IsKey, Keys

\* One entry of a table or a file, or one list, replaced.
Rewritten(t, k, i, e) == [t EXCEPT ![k][i] = e]
Relisted(l, k, s) == [l EXCEPT ![k] = s]

\* A slot of a table is rewritten.
LEMMA TabSet ==
  ASSUME NEW t, TabOK(t), NEW k \in Kind, NEW i \in Slots(k),
         NEW e \in Entry, e.key # NoKey => IsKey(k, e.key), NEW u, u = Rewritten(t, k, i, e)
  PROVE  /\ TabOK(u)
         /\ \A m \in Kind : \A j \in Slots(m) : u[m][j] = IF m = k /\ j = i THEN e ELSE t[m][j]
<1>1. t = [m \in Kind |-> t[m]] /\ \A m \in Kind : t[m] \in [Slots(m) -> Entry]
  BY DEF TabOK
<1>2. u = [m \in Kind |-> IF m = k THEN [t[k] EXCEPT ![i] = e] ELSE t[m]]
  BY <1>1 DEF Rewritten
<1>3. \A m \in Kind : u[m] = IF m = k THEN [t[k] EXCEPT ![i] = e] ELSE t[m]
  BY <1>2
<1>4. \A m \in Kind : u[m] \in [Slots(m) -> Entry]
  BY <1>1, <1>3
<1>5. \A m \in Kind : \A j \in Slots(m) : u[m][j] = IF m = k /\ j = i THEN e ELSE t[m][j]
  BY <1>1, <1>3
<1>6. \A m \in Kind : \A j \in Slots(m) : u[m][j].key # NoKey => IsKey(m, u[m][j].key)
  BY <1>5 DEF TabOK
<1>7. u = [m \in Kind |-> u[m]]
  BY <1>2
<1> QED BY <1>4, <1>5, <1>6, <1>7 DEF TabOK

\* A list is replaced.
LEMMA ListSet ==
  ASSUME NEW l, ListsOK(l), NEW k \in Kind, NEW s \in List(NSlots[k]),
         NEW u, u = Relisted(l, k, s)
  PROVE  ListsOK(u) /\ \A m \in Kind : u[m] = IF m = k THEN s ELSE l[m]
<1>1. l = [m \in Kind |-> l[m]] /\ \A m \in Kind : l[m] \in List(NSlots[m])
  BY DEF ListsOK
<1>2. u = [m \in Kind |-> IF m = k THEN s ELSE l[m]]
  BY <1>1 DEF Relisted
<1>3. \A m \in Kind : u[m] = IF m = k THEN s ELSE l[m]
  BY <1>2
<1>4. u = [m \in Kind |-> u[m]]
  BY <1>2
<1> QED BY <1>1, <1>3, <1>4 DEF ListsOK

\* A slot of a file is rewritten.
LEMMA DiskSet ==
  ASSUME DiskOK, NEW k \in Kind, NEW i \in Slots(k), NEW e \in Stored,
         e.hdr # NoKey => IsKey(k, e.hdr), disk' = Rewritten(disk, k, i, e)
  PROVE  /\ DiskOK'
         /\ \A m \in Kind : \A j \in Slots(m) :
              disk'[m][j] = IF m = k /\ j = i THEN e ELSE disk[m][j]
<1>1. disk = [m \in Kind |-> disk[m]] /\ \A m \in Kind : disk[m] \in [Slots(m) -> Stored]
  BY DEF DiskOK
<1>2. disk' = [m \in Kind |-> IF m = k THEN [disk[k] EXCEPT ![i] = e] ELSE disk[m]]
  BY <1>1 DEF Rewritten
<1>3. \A m \in Kind : disk'[m] = IF m = k THEN [disk[k] EXCEPT ![i] = e] ELSE disk[m]
  BY <1>2
<1>4. \A m \in Kind : disk'[m] \in [Slots(m) -> Stored]
  BY <1>1, <1>3
<1>5. \A m \in Kind : \A j \in Slots(m) :
        disk'[m][j] = IF m = k /\ j = i THEN e ELSE disk[m][j]
  BY <1>1, <1>3
<1>6. \A m \in Kind : \A j \in Slots(m) : disk'[m][j].hdr # NoKey => IsKey(m, disk'[m][j].hdr)
  BY <1>5 DEF DiskOK
<1>7. disk' = [m \in Kind |-> disk'[m]]
  BY <1>2
<1> QED BY <1>4, <1>5, <1>6, <1>7 DEF DiskOK

\* The head of a list is a slot.
LEMMA HeadIsSlot ==
  ASSUME NEW k \in Kind, NEW s \in List(NSlots[k])
  PROVE  Head(s) \in Slots(k) /\ NSlots[k] \in Nat \ {0} /\ Slots(k) = 1..NSlots[k]
<1>1. NSlots[k] \in Nat \ {0}
  BY CacheAssumption
<1> QED BY <1>1, ListIsSeq DEF Slots

\* One unit of a bound is spent.
LEMMA SpendType ==
  ASSUME LeftOK, NEW what \in {"publish", "fail", "refuse", "close", "crash"}, Spend(what)
  PROVE  /\ LeftOK' /\ left'[what] = left[what] - 1 /\ left[what] \in Nat /\ left[what] > 0
         /\ \A x \in {"publish", "fail", "refuse", "close", "crash"} : x # what => left'[x] = left[x]
<1> DEFINE W == {"publish", "fail", "refuse", "close", "crash"}
<1> DEFINE n == left[what] - 1
<1>1. left \in [W -> Nat] /\ left[what] \in Nat /\ left[what] > 0 /\ left' = [left EXCEPT ![what] = n]
  BY DEF LeftOK, Spend
<1>2. n \in Nat /\ n <= left[what]
  BY <1>1
<1>3. left' \in [W -> Nat] /\ left'[what] = n /\ \A x \in W : x # what => left'[x] = left[x]
  <2> HIDE DEF n
  <2> QED BY <1>1, <1>2
<1>4. MaxFail \in Nat /\ MaxRefuse \in Nat /\ MaxCrash \in Nat
  BY CacheAssumption
<1>5. \A x \in W : left'[x] <= left[x] /\ left'[x] \in Nat /\ left[x] \in Nat
  <2> HIDE DEF n
  <2> QED BY <1>1, <1>2, <1>3
<1>6. left'["fail"] <= MaxFail /\ left'["refuse"] <= MaxRefuse /\ left'["crash"] <= MaxCrash
  BY <1>4, <1>5 DEF LeftOK
<1> QED BY <1>1, <1>3, <1>6 DEF LeftOK

\* A new store.
LEMMA EmptyIsTyped == TabOK(EmptyTab) /\ ListsOK(IndexOrder)
<1>1. NoKey \in Tokens
  BY DEF NoKey, Tokens
<1>2. TabOK(EmptyTab)
  BY <1>1 DEF TabOK, EmptyTab, Entry
<1>3. ListsOK(IndexOrder)
  <2>1. \A k \in Kind : [i \in Slots(k) |-> i] \in List(NSlots[k])
    BY DEF List, Slots
  <2> QED BY <2>1 DEF ListsOK, IndexOrder
<1> QED BY <1>2, <1>3

\* A store just created is one.
LEMMA CacheInitType == CacheInit => CacheTypeOK
<1> SUFFICES ASSUME CacheInit PROVE CacheTypeOK
  OBVIOUS
<1>1. NoKey \in Tokens
  BY DEF NoKey, Tokens
<1>4. DiskOK
  BY <1>1 DEF DiskOK, CacheInit, Stored
<1>5. QueueOK
  <2>1. stage \in [Buf -> Tokens] /\ jobs = <<>> /\ writer = Idle
    BY <1>1 DEF CacheInit
  <2>2. jobs \in Seq(Job) /\ DOMAIN jobs = {} /\ writer.ph = "idle"
    BY <2>1 DEF Idle
  <2> QED BY <2>1, <2>2 DEF QueueOK
<1>6. LeftOK
  BY CacheAssumption DEF LeftOK, CacheInit
<1> QED BY EmptyIsTyped, <1>4, <1>5, <1>6 DEF CacheInit, CacheTypeOK, IndexOK, PublishOK

\* What publish does to the staging buffers and the queue.
Queues(k, i, u, key) ==
  /\ stage[u] = NoKey /\ stage' = [stage EXCEPT ![u] = key] /\ writer' = writer
  /\ jobs' = Append(jobs, [kind |-> k, slot |-> i, buf |-> u])

\* A write is queued: what was queued keeps its place and its rows.
LEMMA QueueGrows ==
  ASSUME QueueOK, NEW k \in Kind, NEW i \in Slots(k), NEW u \in Buf,
         NEW key, IsKey(k, key), Queues(k, i, u, key)
  PROVE  /\ QueueOK'
         /\ Len(jobs) \in Nat /\ DOMAIN jobs = 1..Len(jobs) /\ DOMAIN jobs' = 1..(Len(jobs) + 1)
         /\ \A n \in DOMAIN jobs : jobs'[n] = jobs[n] /\ stage'[jobs[n].buf] = stage[jobs[n].buf]
         /\ jobs'[Len(jobs) + 1].kind = k /\ jobs'[Len(jobs) + 1].slot = i
         /\ stage'[jobs'[Len(jobs) + 1].buf] = key
         /\ writer.ph # "idle" => stage'[writer.buf] = stage[writer.buf]
<1> DEFINE L == Len(jobs)
<1> DEFINE j == [kind |-> k, slot |-> i, buf |-> u]
<1>0. /\ stage[u] = NoKey /\ stage' = [stage EXCEPT ![u] = key] /\ writer' = writer
      /\ jobs' = Append(jobs, j)
  BY DEF Queues
<1>1. i \in Nat /\ j \in Job /\ key \in Tokens /\ key # NoKey
  <2>1. i \in Nat
    BY CacheAssumption DEF Slots
  <2> QED BY <2>1, KeysArePrompts DEF Job
<1>2. stage \in [Buf -> Tokens] /\ jobs \in Seq(Job)
  BY DEF QueueOK
<1> HIDE DEF j
<1>3. /\ L \in Nat /\ DOMAIN jobs = 1..L /\ DOMAIN jobs' = 1..(L + 1) /\ jobs' \in Seq(Job)
      /\ (\A n \in 1..L : jobs'[n] = jobs[n]) /\ jobs'[L + 1] = j
  <2>1. jobs' = Append(jobs, j)
    BY <1>0
  <2> QED BY ONLY <1>1, <1>2, <2>1
<1> HIDE DEF L
<1>4. j.kind = k /\ j.slot = i /\ j.buf = u
  BY DEF j
<1>5. stage' \in [Buf -> Tokens] /\ stage'[u] = key /\ \A b \in Buf : b # u => stage'[b] = stage[b]
  BY <1>0, <1>1, <1>2
<1>6. \A n \in 1..L : /\ jobs[n] \in Job /\ jobs[n].buf \in Buf /\ jobs[n].buf # u
                      /\ jobs[n].slot \in Slots(jobs[n].kind)
                      /\ IsKey(jobs[n].kind, stage[jobs[n].buf])
  <2> TAKE n \in 1..L
  <2>1. jobs[n] \in Job
    BY <1>2, <1>3
  <2>2. jobs[n].slot \in Slots(jobs[n].kind) /\ IsKey(jobs[n].kind, stage[jobs[n].buf])
    BY <1>3 DEF QueueOK
  <2>3. jobs[n].buf # u
    BY <1>0, <2>2, KeysArePrompts
  <2> QED BY <2>1, <2>2, <2>3 DEF Job
<1>7. \A n \in 1..L : stage'[jobs[n].buf] = stage[jobs[n].buf]
  BY <1>5, <1>6
<1>8. writer.ph # "idle" =>
        /\ writer.buf \in Buf /\ writer.buf # u /\ stage'[writer.buf] = stage[writer.buf]
        /\ writer.slot \in Slots(writer.kind) /\ IsKey(writer.kind, stage[writer.buf])
        /\ \A n \in 1..L : jobs[n].buf # writer.buf
  <2> SUFFICES ASSUME writer.ph # "idle"
               PROVE  /\ writer.buf \in Buf /\ writer.buf # u /\ stage'[writer.buf] = stage[writer.buf]
                      /\ writer.slot \in Slots(writer.kind) /\ IsKey(writer.kind, stage[writer.buf])
                      /\ \A n \in 1..L : jobs[n].buf # writer.buf
    OBVIOUS
  <2>1. writer \in Work
    BY DEF QueueOK, Idle
  <2>2. /\ writer.slot \in Slots(writer.kind) /\ IsKey(writer.kind, stage[writer.buf])
        /\ \A n \in 1..L : jobs[n].buf # writer.buf
    BY <1>3 DEF QueueOK
  <2>3. writer.buf # u
    BY <1>0, <2>2, KeysArePrompts
  <2>4. writer.buf \in Buf
    BY <2>1 DEF Work
  <2> QED BY <1>5, <2>2, <2>3, <2>4
<1>9. QueueOK'
  <2>1. \A n \in DOMAIN jobs' : jobs'[n].slot \in Slots(jobs'[n].kind)
                                /\ IsKey(jobs'[n].kind, stage'[jobs'[n].buf])
    <3> SUFFICES ASSUME NEW n \in 1..(L + 1)
                 PROVE  jobs'[n].slot \in Slots(jobs'[n].kind) /\ IsKey(jobs'[n].kind, stage'[jobs'[n].buf])
      BY <1>3
    <3>1. CASE n \in 1..L
      <4>1. jobs'[n] = jobs[n] /\ stage'[jobs[n].buf] = stage[jobs[n].buf]
        BY <1>3, <1>7, <3>1
      <4> QED BY <1>6, <3>1, <4>1
    <3>2. CASE n = L + 1
      <4>1. jobs'[n] = j
        BY <1>3, <3>2
      <4> QED BY <1>4, <1>5, <4>1
    <3> QED BY <1>3, <3>1, <3>2
  <2>2. \A m, n \in DOMAIN jobs' : jobs'[m].buf = jobs'[n].buf => m = n
    <3> SUFFICES ASSUME NEW m \in 1..(L + 1), NEW n \in 1..(L + 1), jobs'[m].buf = jobs'[n].buf
                 PROVE  m = n
      BY <1>3
    <3>1. CASE m \in 1..L /\ n \in 1..L
      BY <1>3, <3>1 DEF QueueOK
    <3>2. CASE m = L + 1 \/ n = L + 1
      <4>1. \A x \in 1..L : jobs'[x].buf # u
        BY <1>3, <1>6
      <4>2. jobs'[L + 1].buf = u
        BY <1>3, <1>4
      <4> QED BY <1>3, <3>2, <4>1, <4>2
    <3> QED BY <1>3, <3>1, <3>2
  <2>3. writer'.ph # "idle" => /\ writer'.slot \in Slots(writer'.kind)
                               /\ IsKey(writer'.kind, stage'[writer'.buf])
    BY <1>0, <1>8
  <2>4. writer'.ph # "idle" => \A n \in DOMAIN jobs' : jobs'[n].buf # writer'.buf
    <3> SUFFICES ASSUME writer.ph # "idle", NEW n \in 1..(L + 1) PROVE jobs'[n].buf # writer.buf
      BY <1>0, <1>3
    <3>1. CASE n \in 1..L
      BY <1>3, <1>8, <3>1
    <3>2. CASE n = L + 1
      BY <1>3, <1>4, <1>8, <3>2
    <3> QED BY <1>3, <3>1, <3>2
  <2>5. writer' \in {Idle} \cup Work
    BY <1>0 DEF QueueOK
  <2> QED BY <1>3, <1>5, <2>1, <2>2, <2>3, <2>4, <2>5 DEF QueueOK
<1>10. jobs'[L + 1].kind = k /\ jobs'[L + 1].slot = i /\ stage'[jobs'[L + 1].buf] = key
  BY <1>3, <1>4, <1>5
<1> QED BY <1>3, <1>7, <1>8, <1>9, <1>10 DEF L

\* The writer takes the oldest.
LEMMA QueueTaken ==
  ASSUME QueueOK, TakeJob
  PROVE  /\ QueueOK' /\ writer.ph = "idle" /\ stage' = stage
         /\ Len(jobs) \in Nat \ {0} /\ DOMAIN jobs = 1..Len(jobs)
         /\ DOMAIN jobs' = 1..(Len(jobs) - 1)
         /\ \A n \in DOMAIN jobs' : n + 1 \in DOMAIN jobs /\ jobs'[n] = jobs[n + 1]
         /\ writer'.ph = "rows" /\ writer'.kind = jobs[1].kind
         /\ writer'.slot = jobs[1].slot /\ writer'.buf = jobs[1].buf
<1> DEFINE L == Len(jobs)
<1>1. jobs \in Seq(Job) /\ jobs # <<>> /\ jobs' = Tail(jobs) /\ stage' = stage /\ writer = Idle
  BY DEF QueueOK, TakeJob
<1>2. /\ L \in Nat \ {0} /\ DOMAIN jobs = 1..L /\ Head(jobs) = jobs[1] /\ jobs[1] \in Job
      /\ jobs' \in Seq(Job) /\ DOMAIN jobs' = 1..(L - 1)
      /\ \A n \in 1..(L - 1) : jobs'[n] = jobs[n + 1]
  <2>1. jobs \in Seq(Job) /\ jobs # <<>> /\ jobs' = Tail(jobs)
    BY <1>1
  <2>2. L \in Nat /\ L # 0 /\ DOMAIN jobs = 1..L /\ Head(jobs) = jobs[1] /\ Len(Tail(jobs)) = L - 1
    BY ONLY <2>1
  <2>3. jobs[1] \in Job /\ Tail(jobs) \in Seq(Job)
    BY ONLY <2>1, <2>2
  <2>4. \A n \in 1..(L - 1) : Tail(jobs)[n] = jobs[n + 1]
    BY ONLY <2>1, <2>2
  <2>5. DOMAIN jobs' = 1..(L - 1)
    BY ONLY <2>1, <2>2, <2>3
  <2> QED BY ONLY <2>1, <2>2, <2>3, <2>4, <2>5
<1> HIDE DEF L
<1>3. writer' = [ph |-> "rows", kind |-> jobs[1].kind, slot |-> jobs[1].slot, buf |-> jobs[1].buf]
  BY <1>2 DEF TakeJob
<1>4. /\ writer' \in Work /\ writer'.ph = "rows" /\ writer'.kind = jobs[1].kind
      /\ writer'.slot = jobs[1].slot /\ writer'.buf = jobs[1].buf
  BY <1>2, <1>3 DEF Job, Work
<1>5. \A n \in 1..(L - 1) : n + 1 \in 1..L /\ n + 1 # 1
  BY <1>2
<1>6. 1 \in 1..L
  BY <1>2
<1>7. QueueOK'
  <2>1. \A n \in DOMAIN jobs' : jobs'[n].slot \in Slots(jobs'[n].kind)
                                /\ IsKey(jobs'[n].kind, stage'[jobs'[n].buf])
    BY <1>1, <1>2, <1>5 DEF QueueOK
  <2>2. \A m, n \in DOMAIN jobs' : jobs'[m].buf = jobs'[n].buf => m = n
    <3> SUFFICES ASSUME NEW m \in 1..(L - 1), NEW n \in 1..(L - 1), jobs'[m].buf = jobs'[n].buf
                 PROVE  m = n
      BY <1>2
    <3> DEFINE x == m + 1
    <3> DEFINE y == n + 1
    <3>1. x \in 1..L /\ y \in 1..L /\ jobs'[m] = jobs[x] /\ jobs'[n] = jobs[y]
      BY <1>2, <1>5
    <3> HIDE DEF x, y
    <3>2. x = y
      BY <1>2, <3>1 DEF QueueOK
    <3> QED BY <1>2, <3>2 DEF x, y
  <2>3. writer'.slot \in Slots(writer'.kind) /\ IsKey(writer'.kind, stage'[writer'.buf])
    BY <1>1, <1>2, <1>4, <1>6 DEF QueueOK
  <2>4. \A n \in DOMAIN jobs' : jobs'[n].buf # writer'.buf
    BY <1>2, <1>4, <1>5, <1>6 DEF QueueOK
  <2>5. stage' \in [Buf -> Tokens]
    BY <1>1 DEF QueueOK
  <2> QED BY <1>2, <1>4, <2>1, <2>2, <2>3, <2>4, <2>5 DEF QueueOK
<1> QED BY <1>1, <1>2, <1>4, <1>5, <1>7 DEF L, Idle

\* What the writer is at.
LEMMA WriterWorks ==
  ASSUME QueueOK, writer.ph # "idle"
  PROVE  /\ writer \in Work /\ writer.kind \in Kind /\ writer.slot \in Slots(writer.kind)
         /\ writer.buf \in Buf /\ IsKey(writer.kind, stage[writer.buf])
         /\ stage[writer.buf] \in Tokens /\ stage[writer.buf] # NoKey
<1>1. writer \in Work /\ writer.slot \in Slots(writer.kind) /\ IsKey(writer.kind, stage[writer.buf])
  BY DEF QueueOK, Idle
<1> QED BY <1>1, KeysArePrompts DEF Work

\* The writer ends a job and hands the buffer back.
LEMMA QueueFinished ==
  ASSUME QueueOK, writer.ph # "idle", Finished, jobs' = jobs
  PROVE  /\ QueueOK' /\ writer'.ph = "idle"
         /\ \A n \in DOMAIN jobs : stage'[jobs[n].buf] = stage[jobs[n].buf]
<1>1. stage \in [Buf -> Tokens] /\ writer.buf \in Buf /\ NoKey \in Tokens
  BY WriterWorks DEF QueueOK, Tokens, NoKey
<1>2. writer' = Idle /\ stage' \in [Buf -> Tokens]
      /\ \A b \in Buf : b # writer.buf => stage'[b] = stage[b]
  BY <1>1 DEF Finished
<1>3. \A n \in DOMAIN jobs : jobs[n].buf \in Buf /\ jobs[n].buf # writer.buf
  <2> TAKE n \in DOMAIN jobs
  <2>1. jobs[n] \in Job
    BY DEF QueueOK
  <2> QED BY <2>1 DEF QueueOK, Job
<1>4. \A n \in DOMAIN jobs : stage'[jobs[n].buf] = stage[jobs[n].buf]
  BY <1>2, <1>3
<1>5. writer'.ph = "idle"
  BY <1>2 DEF Idle
<1> QED BY <1>2, <1>4, <1>5 DEF QueueOK

\* A set of naturals below a bound has a greatest member.
LEMMA MaxIn ==
  ASSUME NEW n \in Nat, NEW S, S \subseteq 0..n, S # {}
  PROVE  Max(S) \in S /\ \A y \in S : y <= Max(S)
<1> DEFINE G == {n - x : x \in S}
<1>1. G \subseteq Nat /\ G # {}
  <2>1. \A x \in S : n - x \in Nat
    OBVIOUS
  <2> QED BY <2>1
<1>2. PICK g \in G : \A y \in G : g <= y
  <2> HIDE DEF G
  <2> QED BY <1>1, Smallest
<1>3. PICK x \in S : g = n - x
  OBVIOUS
<1>4. \A y \in S : x >= y
  <2> TAKE y \in S
  <2>1. n - x <= n - y
    BY <1>2, <1>3
  <2> QED BY <2>1
<1>5. Max(S) \in S /\ \A y \in S : Max(S) >= y
  BY <1>4 DEF Max
<1> QED BY <1>5

\* A set of naturals has its least member.
LEMMA MinIn ==
  ASSUME NEW S, S \subseteq Nat, S # {} PROVE Min(S) \in S
<1>1. PICK m \in S : \A y \in S : m <= y
  BY Smallest
<1> QED BY <1>1 DEF Min

\* What lookup returns: a held checkpoint over held blocks.
LEMMA LookupFacts ==
  ASSUME NEW ids \in Prompts, Lookup(ids) > 0
  PROVE  LET at == SubSeq(ids, 1, Lookup(ids)) IN
         /\ at \in Prompts /\ NFull(at) \in Nat /\ Held("ck", at) # {}
         /\ \A b \in 1..NFull(at) :
              /\ SlotOf(b, at) \in Held("blk", Upto(at, b)) /\ SlotOf(b, at) \in Slots("blk")
              /\ Upto(at, b) \in Prompts /\ Len(Upto(at, b)) = b * B
<1> DEFINE N == NFull(ids)
<1> DEFINE L == Len(ids)
<1> DEFINE D == {h \in 0..N : \A b \in 1..h : Held("blk", Upto(ids, b)) # {}}
<1> DEFINE R == ResumePoints(ids)
<1>1. L \in Nat /\ N \in Nat /\ B \in Nat \ {0}
  BY CacheAssumption, Quotient DEF NFull, Prompts, Tokens
<1>2. Depth(ids) \in D
  <2>1. D \subseteq 0..N /\ 0 \in D
    BY <1>1
  <2>2. Depth(ids) = Max(D)
    BY DEF Depth
  <2> HIDE DEF D, N
  <2> QED BY <1>1, <2>1, <2>2, MaxIn
<1>3. R # {} /\ Lookup(ids) = Max(R)
  BY DEF Lookup
<1>4. Lookup(ids) \in R
  <2>1. R \subseteq 0..L
    BY <1>1 DEF ResumePoints
  <2> HIDE DEF R, L
  <2> QED BY <1>1, <1>3, <2>1, MaxIn
<1> DEFINE n == Lookup(ids)
<1>5. n \in 1..L /\ n \div B <= Depth(ids) /\ Held("ck", SubSeq(ids, 1, n)) # {}
  BY <1>4 DEF ResumePoints
<1> HIDE DEF n
<1> DEFINE at == SubSeq(ids, 1, n)
<1>6. /\ at \in Prompts /\ NFull(at) = n \div B /\ n \div B <= NFull(ids)
      /\ \A b \in 1..NFull(at) : b \in 1..NFull(ids) /\ Upto(at, b) = Upto(ids, b)
  BY <1>5, CutPrompt
<1>7. NFull(at) \in Nat
  BY <1>1, <1>6, Quotient DEF NFull, Prompts, Tokens
<1> HIDE DEF at
<1>8. ASSUME NEW b \in 1..NFull(at)
      PROVE  /\ SlotOf(b, at) \in Held("blk", Upto(at, b)) /\ SlotOf(b, at) \in Slots("blk")
             /\ Upto(at, b) \in Prompts /\ Len(Upto(at, b)) = b * B
  <2>1. b \in 1..Depth(ids)
    BY <1>1, <1>2, <1>5, <1>6, <1>7
  <2>2. Held("blk", Upto(at, b)) # {}
    BY <1>2, <1>6, <2>1
  <2> QED BY <1>6, <2>2, SlotIsHeld, UptoFacts
<1> QED BY <1>5, <1>6, <1>7, <1>8 DEF at, n

\* A slot is claimed and its write queued.
LEMMA EnqueueStep ==
  ASSUME CacheTypeOK, NEW k \in Kind, NEW key, IsKey(k, key), NEW lists, ListsOK(lists),
         Enqueue(k, key, lists), writer' = writer, NEW i, i = Head(lists[k])
  PROVE  /\ i \in Slots(k) /\ TabOK(tab') /\ ListsOK(lru') /\ QueueOK'
         /\ \A m \in Kind : \A j \in Slots(m) :
              tab'[m][j] = IF m = k /\ j = i THEN [used |-> TRUE, linked |-> TRUE, key |-> key]
                                             ELSE tab[m][j]
         /\ \A m \in Kind : lru'[m] = IF m = k THEN Touch(lists[k], i) ELSE lists[m]
         /\ Len(jobs) \in Nat /\ DOMAIN jobs = 1..Len(jobs) /\ DOMAIN jobs' = 1..(Len(jobs) + 1)
         /\ \A n \in DOMAIN jobs : jobs'[n] = jobs[n] /\ stage'[jobs[n].buf] = stage[jobs[n].buf]
         /\ jobs'[Len(jobs) + 1].kind = k /\ jobs'[Len(jobs) + 1].slot = i
         /\ stage'[jobs'[Len(jobs) + 1].buf] = key
         /\ writer.ph # "idle" => stage'[writer.buf] = stage[writer.buf]
<1> DEFINE e == [used |-> TRUE, linked |-> TRUE, key |-> key]
<1>1. TabOK(tab) /\ QueueOK
  BY DEF CacheTypeOK
<1>2. i \in Slots(k) /\ lists[k] \in List(NSlots[k]) /\ NSlots[k] \in Nat \ {0}
      /\ Slots(k) = 1..NSlots[k]
  <2>1. lists[k] \in List(NSlots[k])
    BY DEF ListsOK
  <2> QED BY <2>1, HeadIsSlot
<1>3. PICK u \in Buf : /\ stage[u] = NoKey /\ stage' = [stage EXCEPT ![u] = key]
                       /\ tab' = [tab EXCEPT ![k][i] = e]
                       /\ lru' = [lists EXCEPT ![k] = Touch(lists[k], i)]
                       /\ jobs' = Append(jobs, [kind |-> k, slot |-> i, buf |-> u])
  BY DEF Enqueue
<1>a. Queues(k, i, u, key)
  BY <1>3 DEF Queues
<1>b. tab' = Rewritten(tab, k, i, e)
  BY <1>3 DEF Rewritten
<1>c. lru' = Relisted(lists, k, Touch(lists[k], i))
  BY <1>3 DEF Relisted
<1>4. e \in Entry /\ (e.key # NoKey => IsKey(k, e.key))
  BY KeysArePrompts DEF Entry
<1> HIDE DEF e
<1>5. TabOK(tab') /\ \A m \in Kind : \A j \in Slots(m) :
                       tab'[m][j] = IF m = k /\ j = i THEN e ELSE tab[m][j]
  <2>1. TabOK(tab) /\ k \in Kind /\ i \in Slots(k)
    BY <1>1, <1>2
  <2> QED BY ONLY <2>1, <1>b, <1>4, TabSet
<1>6. Touch(lists[k], i) \in List(NSlots[k])
  BY <1>2, TouchFacts
<1>7. ListsOK(lru') /\ \A m \in Kind : lru'[m] = IF m = k THEN Touch(lists[k], i) ELSE lists[m]
  BY <1>c, <1>6, ListSet
<1>8. /\ QueueOK'
      /\ Len(jobs) \in Nat /\ DOMAIN jobs = 1..Len(jobs) /\ DOMAIN jobs' = 1..(Len(jobs) + 1)
      /\ \A n \in DOMAIN jobs : jobs'[n] = jobs[n] /\ stage'[jobs[n].buf] = stage[jobs[n].buf]
      /\ jobs'[Len(jobs) + 1].kind = k /\ jobs'[Len(jobs) + 1].slot = i
      /\ stage'[jobs'[Len(jobs) + 1].buf] = key
      /\ writer.ph # "idle" => stage'[writer.buf] = stage[writer.buf]
  BY <1>1, <1>2, <1>a, QueueGrows
<1> QED BY <1>2, <1>5, <1>7, <1>8 DEF e

\* A publish is refused: the head of the list is claimed and in no bucket.
LEMMA RefuseStep ==
  ASSUME CacheTypeOK, NEW k \in Kind, Refuse(k), NEW i, i = Head(lru[k])
  PROVE  /\ i \in Slots(k) /\ TabOK(tab') /\ pub' = NoPublish
         /\ \A m \in Kind : \A j \in Slots(m) : tab'[m][j].key = tab[m][j].key
         /\ LeftOK' /\ left'["refuse"] # MaxRefuse /\ left'["crash"] = left["crash"]
         /\ left'["fail"] = left["fail"]
<1> DEFINE e == [[tab[k][i] EXCEPT !.used = TRUE] EXCEPT !.linked = FALSE]
<1>1. TabOK(tab) /\ ListsOK(lru) /\ LeftOK /\ MaxRefuse \in Nat
  BY CacheAssumption DEF CacheTypeOK
<1>2. i \in Slots(k)
  <2>1. lru[k] \in List(NSlots[k])
    BY <1>1 DEF ListsOK
  <2> QED BY <2>1, HeadIsSlot
<1>3. tab = [m \in Kind |-> tab[m]] /\ tab[k] \in [Slots(k) -> Entry] /\ tab[k][i] \in Entry
  BY <1>1, <1>2 DEF TabOK
<1>4. tab' = [tab EXCEPT ![k] = [tab[k] EXCEPT
                 ![i] = [[tab[k][i] EXCEPT !.used = TRUE] EXCEPT !.linked = FALSE]]]
  BY <1>2, <1>3 DEF Refuse
<1>5. tab' = Rewritten(tab, k, i, e)
  BY <1>4 DEF Rewritten
<1>7. e \in Entry /\ e.key = tab[k][i].key
  BY <1>3 DEF Entry
<1>6. e.key # NoKey => IsKey(k, e.key)
  BY <1>1, <1>2, <1>7 DEF TabOK
<1> HIDE DEF e
<1>8. TabOK(tab') /\ \A m \in Kind : \A j \in Slots(m) :
                       tab'[m][j] = IF m = k /\ j = i THEN e ELSE tab[m][j]
  <2> HIDE DEF e
  <2> QED BY <1>1, <1>2, <1>5, <1>6, <1>7, TabSet
<1>9. /\ LeftOK' /\ left'["refuse"] = left["refuse"] - 1 /\ left["refuse"] \in Nat
      /\ left["refuse"] > 0 /\ left'["crash"] = left["crash"] /\ left'["fail"] = left["fail"]
  <2>1. Spend("refuse")
    BY DEF Refuse
  <2> QED BY <1>1, <2>1, SpendType
<1>10. left'["refuse"] # MaxRefuse
  BY <1>1, <1>9 DEF LeftOK
<1>11. pub' = NoPublish
  BY DEF Refuse
<1>12. \A m \in Kind : \A j \in Slots(m) : tab'[m][j].key = tab[m][j].key
  <2> HIDE DEF e
  <2> QED BY <1>7, <1>8
<1> QED BY <1>2, <1>8, <1>9, <1>10, <1>11, <1>12

\* A slot that failed verification is given up.
LEMMA DropStep ==
  ASSUME TabOK(tab), ListsOK(lru), NEW k \in Kind, NEW i \in Slots(k),
         tab' = [tab EXCEPT ![k][i] = Dropped],
         lru' = [lru EXCEPT ![k] = ToFront(lru[k], i)]
  PROVE  /\ TabOK(tab') /\ ListsOK(lru')
         /\ \A m \in Kind : \A j \in Slots(m) :
              tab'[m][j] = IF m = k /\ j = i THEN Dropped ELSE tab[m][j]
         /\ \A m \in Kind : lru'[m] = IF m = k THEN ToFront(lru[k], i) ELSE lru[m]
<1>1. Dropped \in Entry /\ Dropped.key = NoKey
  BY DEF Dropped, Entry, NoKey, Tokens
<1>a. tab' = Rewritten(tab, k, i, Dropped)
  BY DEF Rewritten
<1>b. lru' = Relisted(lru, k, ToFront(lru[k], i))
  BY DEF Relisted
<1>2. TabOK(tab') /\ \A m \in Kind : \A j \in Slots(m) :
                       tab'[m][j] = IF m = k /\ j = i THEN Dropped ELSE tab[m][j]
  <2>1. TabOK(tab) /\ k \in Kind /\ i \in Slots(k)
    OBVIOUS
  <2>2. Dropped.key # NoKey => IsKey(k, Dropped.key)
    BY <1>1
  <2> QED BY ONLY <2>1, <2>2, <1>1, <1>a, TabSet
<1>3. NSlots[k] \in Nat \ {0} /\ lru[k] \in List(NSlots[k]) /\ i \in 1..NSlots[k]
  BY CacheAssumption DEF ListsOK, Slots
<1>4. ToFront(lru[k], i) \in List(NSlots[k])
  BY <1>3, ToFrontFacts
<1>5. ListsOK(lru') /\ \A m \in Kind : lru'[m] = IF m = k THEN ToFront(lru[k], i) ELSE lru[m]
  <2>1. ListsOK(lru) /\ k \in Kind
    OBVIOUS
  <2> QED BY ONLY <2>1, <1>b, <1>4, ListSet
<1> QED BY <1>2, <1>5

\* A publish under way.
LEMMA PublishIsTyped ==
  ASSUME CacheTypeOK, pub.on PROVE pub \in [on : {TRUE}, ids : Turns, b : Nat \ {0}]
<1>1. ~NoPublish.on
  BY DEF NoPublish
<1>2. pub # NoPublish
  BY <1>1
<1> QED BY <1>2 DEF CacheTypeOK, PublishOK

\* With the queue drained the writer is idle.
LEMMA DrainedIsIdle ==
  ASSUME QueueOK, Drained PROVE jobs = <<>> /\ writer = Idle
<1>1. SUFFICES ASSUME writer # Idle PROVE FALSE
  BY DEF Drained
<1>2. writer \in Work
  BY <1>1 DEF QueueOK
<1>3. writer.ph # "idle" /\ writer.buf \in Buf
  BY <1>2 DEF Work
<1> QED BY <1>3, WriterWorks DEF Drained

\* A block or a checkpoint of the publish under way is one.
LEMMA PublishedKey ==
  ASSUME CacheTypeOK, pub.on
  PROVE  /\ pub.ids \in Turns /\ pub.ids \in Prompts /\ pub.b \in Nat \ {0}
         /\ NFull(pub.ids) \in Nat /\ IsKey("ck", pub.ids)
         /\ InBlocks => pub.b \in 1..NFull(pub.ids) /\ IsKey("blk", Upto(pub.ids, pub.b))
<1>1. pub \in [on : {TRUE}, ids : Turns, b : Nat \ {0}]
  BY PublishIsTyped
<1>2. pub.ids \in Turns /\ pub.ids \in Prompts /\ pub.b \in Nat \ {0}
  BY <1>1, TurnsArePrompts
<1>3. NFull(pub.ids) \in Nat
  BY <1>2, BlockCount
<1>4. IsKey("ck", pub.ids)
  BY <1>2 DEF IsKey, Keys
<1>5. InBlocks => pub.b \in 1..NFull(pub.ids) /\ IsKey("blk", Upto(pub.ids, pub.b))
  BY <1>2, <1>3 DEF InBlocks, IsKey, Keys
<1> QED BY <1>2, <1>3, <1>4, <1>5

\* The lists a checkpoint is queued with: the blocks' touched, the checkpoints' as it was.
LEMMA PromptTouched ==
  ASSUME CacheTypeOK, NEW ids \in Prompts,
         NEW lists, lists = [lru EXCEPT !["blk"] = TouchPrompt(lru["blk"], ids)]
  PROVE  ListsOK(lists) /\ lists["ck"] = lru["ck"] /\ lists["blk"] = TouchPrompt(lru["blk"], ids)
<1>1. ListsOK(lru) /\ "blk" \in Kind /\ "ck" \in Kind
  BY DEF CacheTypeOK, Kind
<1>2. TouchPrompt(lru["blk"], ids) \in List(NSlots["blk"])
  <2>1. lru["blk"] \in BlockList
    BY <1>1 DEF ListsOK, BlockList
  <2> QED BY <2>1, TouchPromptFacts DEF BlockList
<1>3. lists = Relisted(lru, "blk", TouchPrompt(lru["blk"], ids))
  BY DEF Relisted
<1>4. /\ ListsOK(lists)
      /\ \A m \in Kind : lists[m] = IF m = "blk" THEN TouchPrompt(lru["blk"], ids) ELSE lru[m]
  BY ONLY <1>1, <1>2, <1>3, ListSet
<1> QED BY <1>1, <1>4

\* The writer's three steps.
LEMMA WriteRowsStep ==
  ASSUME CacheTypeOK, WriteRows
  PROVE  /\ DiskOK' /\ QueueOK' /\ writer.ph = "rows"
         /\ writer.kind \in Kind /\ writer.slot \in Slots(writer.kind)
         /\ stage' = stage /\ jobs' = jobs /\ writer'.ph = "header" /\ writer'.kind = writer.kind
         /\ writer'.slot = writer.slot /\ writer'.buf = writer.buf
         /\ \A m \in Kind : \A j \in Slots(m) :
              /\ ~(m = writer.kind /\ j = writer.slot) => disk'[m][j] = disk[m][j]
              /\ m = writer.kind /\ j = writer.slot => disk'[m][j].rows = stage[writer.buf]
<1> DEFINE k == writer.kind
<1> DEFINE i == writer.slot
<1> DEFINE e == [disk[k][i] EXCEPT !.rows = stage[writer.buf]]
<1>1. QueueOK /\ DiskOK /\ writer.ph = "rows" /\ writer.ph # "idle" /\ stage' = stage /\ jobs' = jobs
  BY DEF CacheTypeOK, WriteRows
<1>2. /\ writer \in Work /\ k \in Kind /\ i \in Slots(k) /\ IsKey(k, stage[writer.buf])
      /\ stage[writer.buf] \in Tokens
  BY <1>1, WriterWorks
<1>3. disk = [m \in Kind |-> disk[m]] /\ disk[k] \in [Slots(k) -> Stored] /\ disk[k][i] \in Stored
  BY <1>1, <1>2 DEF DiskOK
<1>4. e \in Stored /\ e.hdr = disk[k][i].hdr /\ e.rows = stage[writer.buf]
  BY <1>2, <1>3 DEF Stored
<1>5. e.hdr # NoKey => IsKey(k, e.hdr)
  BY <1>1, <1>2, <1>4 DEF DiskOK
<1>6. disk' = Rewritten(disk, k, i, e)
  BY DEF WriteRows, Rewritten
<1>7. /\ writer' \in Work /\ writer'.ph = "header" /\ writer'.kind = writer.kind
      /\ writer'.slot = writer.slot /\ writer'.buf = writer.buf
  BY <1>2 DEF WriteRows, Work
<1> HIDE DEF e
<1>8. /\ DiskOK'
      /\ \A m \in Kind : \A j \in Slots(m) :
           disk'[m][j] = IF m = k /\ j = i THEN e ELSE disk[m][j]
  <2> HIDE DEF k, i
  <2> QED BY ONLY <1>1, <1>2, <1>4, <1>5, <1>6, DiskSet
<1>9. QueueOK'
  BY <1>1, <1>7 DEF QueueOK
<1> QED BY <1>1, <1>2, <1>4, <1>7, <1>8, <1>9

\* The header goes last: the slot then holds what was staged, if its rows do.
LEMMA WriteHeaderStep ==
  ASSUME CacheTypeOK, WriteHeader
  PROVE  /\ DiskOK' /\ QueueOK' /\ writer.ph = "header"
         /\ writer.kind \in Kind /\ writer.slot \in Slots(writer.kind) /\ writer'.ph = "idle"
         /\ jobs' = jobs /\ \A n \in DOMAIN jobs : stage'[jobs[n].buf] = stage[jobs[n].buf]
         /\ \A m \in Kind : \A j \in Slots(m) :
              /\ ~(m = writer.kind /\ j = writer.slot) => disk'[m][j] = disk[m][j]
              /\ m = writer.kind /\ j = writer.slot =>
                   disk'[m][j] = [hdr |-> stage[writer.buf], rows |-> disk[m][j].rows]
<1> DEFINE k == writer.kind
<1> DEFINE i == writer.slot
<1> DEFINE e == [hdr |-> stage[writer.buf], rows |-> disk[k][i].rows]
<1>1. QueueOK /\ DiskOK /\ writer.ph = "header" /\ writer.ph # "idle" /\ jobs' = jobs /\ Finished
  BY DEF CacheTypeOK, WriteHeader
<1>2. /\ writer \in Work /\ k \in Kind /\ i \in Slots(k) /\ IsKey(k, stage[writer.buf])
      /\ stage[writer.buf] \in Tokens
  BY <1>1, WriterWorks
<1>3. disk = [m \in Kind |-> disk[m]] /\ disk[k] \in [Slots(k) -> Stored] /\ disk[k][i] \in Stored
  BY <1>1, <1>2 DEF DiskOK
<1>4. e \in Stored /\ e.hdr = stage[writer.buf]
  BY <1>2, <1>3 DEF Stored
<1>5. [disk[k][i] EXCEPT !.hdr = stage[writer.buf]] = e
  BY <1>3 DEF Stored
<1>6. disk' = Rewritten(disk, k, i, e)
  BY <1>5 DEF WriteHeader, Rewritten
<1> HIDE DEF e
<1>8. /\ DiskOK'
      /\ \A m \in Kind : \A j \in Slots(m) :
           disk'[m][j] = IF m = k /\ j = i THEN e ELSE disk[m][j]
  <2>1. e.hdr # NoKey => IsKey(k, e.hdr)
    BY <1>2, <1>4
  <2> HIDE DEF k, i
  <2> QED BY ONLY <1>1, <1>2, <1>4, <2>1, <1>6, DiskSet
<1>9. QueueOK' /\ writer'.ph = "idle" /\ \A n \in DOMAIN jobs : stage'[jobs[n].buf] = stage[jobs[n].buf]
  BY ONLY <1>1, QueueFinished
<1> QED BY <1>1, <1>2, <1>8, <1>9 DEF e

\* A short write leaves every header as it was, and no row changed where there was
\* nothing to change.
LEMMA WriteFailsStep ==
  ASSUME CacheTypeOK, WriteFails
  PROVE  /\ DiskOK' /\ QueueOK' /\ LeftOK' /\ writer.ph \in {"rows", "header"}
         /\ writer.kind \in Kind /\ writer.slot \in Slots(writer.kind) /\ writer'.ph = "idle"
         /\ jobs' = jobs /\ \A n \in DOMAIN jobs : stage'[jobs[n].buf] = stage[jobs[n].buf]
         /\ left["fail"] \in Nat /\ left'["fail"] = left["fail"] - 1
         /\ left'["crash"] = left["crash"] /\ left'["refuse"] = left["refuse"]
         /\ \A m \in Kind : \A j \in Slots(m) :
              /\ ~(m = writer.kind /\ j = writer.slot) => disk'[m][j] = disk[m][j]
              /\ disk'[m][j].hdr = disk[m][j].hdr
              /\ m = writer.kind /\ j = writer.slot /\
                   (writer.ph = "header" \/ disk[m][j].rows = stage[writer.buf]) =>
                   disk'[m][j] = disk[m][j]
<1> DEFINE k == writer.kind
<1> DEFINE i == writer.slot
<1> DEFINE e == [disk[k][i] EXCEPT !.rows = Torn]
<1>1. /\ QueueOK /\ DiskOK /\ LeftOK /\ writer.ph \in {"rows", "header"} /\ writer.ph # "idle"
      /\ jobs' = jobs /\ Finished
  BY DEF CacheTypeOK, WriteFails
<1>2. writer \in Work /\ k \in Kind /\ i \in Slots(k)
  BY <1>1, WriterWorks
<1>3. disk = [m \in Kind |-> disk[m]] /\ disk[k] \in [Slots(k) -> Stored] /\ disk[k][i] \in Stored
  BY <1>1, <1>2 DEF DiskOK
<1>4. e \in Stored /\ e.hdr = disk[k][i].hdr
  BY <1>3 DEF Stored
<1>5. e.hdr # NoKey => IsKey(k, e.hdr)
  BY <1>1, <1>2, <1>4 DEF DiskOK
<1>6. QueueOK' /\ writer'.ph = "idle" /\ \A n \in DOMAIN jobs : stage'[jobs[n].buf] = stage[jobs[n].buf]
  BY ONLY <1>1, QueueFinished
<1>7. /\ LeftOK' /\ left["fail"] \in Nat /\ left'["fail"] = left["fail"] - 1
      /\ left'["crash"] = left["crash"] /\ left'["refuse"] = left["refuse"]
  <2>1. Spend("fail")
    BY DEF WriteFails
  <2> QED BY <1>1, <2>1, SpendType
<1>8. CASE writer.ph = "rows" /\ disk[k][i].rows # stage[writer.buf]
  <2>1. disk' = Rewritten(disk, k, i, e)
    BY <1>8 DEF WriteFails, Rewritten
  <2> HIDE DEF e
  <2>2. /\ DiskOK'
        /\ \A m \in Kind : \A j \in Slots(m) :
             disk'[m][j] = IF m = k /\ j = i THEN e ELSE disk[m][j]
    <3> HIDE DEF k, i
    <3> QED BY ONLY <1>1, <1>2, <1>4, <1>5, <2>1, DiskSet
  <2> QED BY <1>1, <1>2, <1>4, <1>6, <1>7, <1>8, <2>2
<1>9. CASE ~(writer.ph = "rows" /\ disk[k][i].rows # stage[writer.buf])
  <2>1. disk' = disk
    BY <1>9 DEF WriteFails
  <2>2. DiskOK'
    BY <1>1, <2>1 DEF DiskOK
  <2> QED BY <1>1, <1>2, <1>6, <1>7, <2>1, <2>2
<1> QED BY <1>8, <1>9

\* While the store is closed nothing is under way, and unless the process was killed the
\* index in its file is the one in memory.
DownOK ==
  /\ ~up => jobs = <<>> /\ writer = Idle /\ pub = NoPublish
  /\ ~up /\ left["crash"] = MaxCrash => index.some /\ index.tab = tab /\ index.lru = lru

\* The tables open() rebuilds.
LEMMA OpenStep ==
  ASSUME CacheTypeOK, Open
  PROVE  /\ TabOK(tab') /\ ListsOK(lru')
         /\ index.some => /\ TabOK(index.tab) /\ ListsOK(index.lru) /\ lru' = index.lru
                          /\ \A k \in Kind : \A i \in Slots(k) :
                               /\ tab'[k][i].key = index.tab[k][i].key
                               /\ tab'[k][i].linked = index.tab[k][i].used
                               /\ tab'[k][i].used = index.tab[k][i].used
         /\ ~index.some => tab' = EmptyTab /\ lru' = IndexOrder
<1>1. CASE index.some
  <2>1. TabOK(index.tab) /\ ListsOK(index.lru)
    <3>1. ~NoIndex.some
      BY DEF NoIndex
    <3>2. index # NoIndex
      BY <1>1, <3>1
    <3> QED BY <3>2 DEF CacheTypeOK, IndexOK
  <2> DEFINE r(k, i) == [index.tab[k][i] EXCEPT !.linked = index.tab[k][i].used]
  <2>2. tab' = [k \in Kind |-> [i \in Slots(k) |-> r(k, i)]] /\ lru' = index.lru
    BY <1>1 DEF Open
  <2>3. \A k \in Kind : \A i \in Slots(k) :
          /\ index.tab[k][i] \in Entry /\ r(k, i) \in Entry /\ r(k, i).key = index.tab[k][i].key
          /\ r(k, i).linked = index.tab[k][i].used /\ r(k, i).used = index.tab[k][i].used
    <3> TAKE k \in Kind
    <3> TAKE i \in Slots(k)
    <3>1. index.tab[k][i] \in Entry
      BY <2>1 DEF TabOK
    <3> QED BY <3>1 DEF Entry
  <2> HIDE DEF r
  <2>4. \A k \in Kind : tab'[k] = [i \in Slots(k) |-> r(k, i)]
    BY <2>2
  <2>5. \A k \in Kind : \A i \in Slots(k) : tab'[k][i] = r(k, i)
    BY <2>4
  <2>6. \A k \in Kind : tab'[k] \in [Slots(k) -> Entry]
    BY <2>3, <2>4
  <2>7. \A k \in Kind : \A i \in Slots(k) : tab'[k][i].key # NoKey => IsKey(k, tab'[k][i].key)
    BY <2>1, <2>3, <2>5 DEF TabOK
  <2>8. tab' = [k \in Kind |-> tab'[k]]
    BY <2>2
  <2>9. TabOK(tab')
    BY <2>6, <2>7, <2>8 DEF TabOK
  <2> QED BY <1>1, <2>1, <2>2, <2>3, <2>5, <2>9
<1>2. CASE ~index.some
  <2>1. tab' = EmptyTab /\ lru' = IndexOrder
    BY <1>2 DEF Open
  <2> QED BY <1>2, <2>1, EmptyIsTyped
<1> QED BY <1>1, <1>2

\* A restore's lists.
LEMMA RestoreStep ==
  ASSUME CacheTypeOK, NEW ids \in Turns, Restore(ids),
         NEW at, at = SubSeq(ids, 1, Lookup(ids))
  PROVE  /\ ListsOK(lru') /\ lru'["blk"] = TouchPrompt(lru["blk"], at) /\ at \in Prompts
<1>1. ids \in Prompts /\ Lookup(ids) > 0 /\ ListsOK(lru) /\ "blk" \in Kind /\ "ck" \in Kind
  BY TurnsArePrompts DEF Restore, CanRestore, CacheTypeOK, Kind
<1>2. at \in Prompts
  BY ONLY <1>1, LookupFacts, at = SubSeq(ids, 1, Lookup(ids))
<1>3. PICK i \in Held("ck", at) :
        lru' = [blk |-> TouchPrompt(lru["blk"], at), ck |-> Touch(lru["ck"], i)]
  BY DEF Restore
<1>4. TouchPrompt(lru["blk"], at) \in List(NSlots["blk"])
  <2>1. lru["blk"] \in BlockList
    BY <1>1 DEF ListsOK, BlockList
  <2> QED BY <1>2, <2>1, TouchPromptFacts DEF BlockList
<1>5. Touch(lru["ck"], i) \in List(NSlots["ck"])
  <2>1. lru["ck"] \in List(NSlots["ck"])
    BY <1>1 DEF ListsOK
  <2>2. NSlots["ck"] \in Nat \ {0} /\ i \in 1..NSlots["ck"]
    BY <1>1, CacheAssumption DEF Held, Slots
  <2> QED BY <2>1, <2>2, TouchFacts
<1>6. lru' = [k \in Kind |-> lru'[k]]
  BY <1>3 DEF Kind
<1>7. \A k \in Kind : lru'[k] \in List(NSlots[k])
  BY <1>3, <1>4, <1>5 DEF Kind
<1> QED BY <1>2, <1>3, <1>6, <1>7 DEF ListsOK

\* The slots a restore drops.
LEMMA DropsBlockStep ==
  ASSUME CacheTypeOK, NEW ids \in Turns, RestoreDropsBlock(ids)
  PROVE  \E i \in Slots("blk") :
           /\ TabOK(tab') /\ ListsOK(lru')
           /\ \A m \in Kind : \A j \in Slots(m) :
                tab'[m][j] = IF m = "blk" /\ j = i THEN Dropped ELSE tab[m][j]
           /\ lru'["blk"] = ToFront(lru["blk"], i)
<1> DEFINE at == SubSeq(ids, 1, Lookup(ids))
<1> DEFINE b == Min(BadBlocks(at))
<1> DEFINE i == SlotOf(b, at)
<1>1. ids \in Prompts /\ Lookup(ids) > 0 /\ TabOK(tab) /\ ListsOK(lru) /\ "blk" \in Kind
  BY TurnsArePrompts DEF RestoreDropsBlock, CanRestore, CacheTypeOK, Kind
<1>2. /\ BadBlocks(at) # {}
      /\ tab' = [tab EXCEPT !["blk"][i] = Dropped]
      /\ lru' = [lru EXCEPT !["blk"] = ToFront(lru["blk"], i)]
  BY DEF RestoreDropsBlock
<1>3. \A c \in 1..NFull(at) : SlotOf(c, at) \in Slots("blk")
  BY ONLY <1>1, LookupFacts
<1>4. BadBlocks(at) \subseteq Nat /\ \A c \in BadBlocks(at) : c \in 1..NFull(at)
  BY DEF BadBlocks
<1> HIDE DEF at
<1>5. b \in BadBlocks(at)
  BY <1>2, <1>4, MinIn
<1>6. i \in Slots("blk")
  BY <1>3, <1>4, <1>5
<1> HIDE DEF i
<1>7. /\ TabOK(tab') /\ ListsOK(lru')
      /\ \A m \in Kind : \A j \in Slots(m) :
           tab'[m][j] = IF m = "blk" /\ j = i THEN Dropped ELSE tab[m][j]
      /\ \A m \in Kind : lru'[m] = IF m = "blk" THEN ToFront(lru["blk"], i) ELSE lru[m]
  BY ONLY <1>1, <1>2, <1>6, DropStep
<1>8. lru'["blk"] = ToFront(lru["blk"], i)
  BY <1>1, <1>7
<1> QED BY <1>6, <1>7, <1>8

\* The same of a checkpoint; the blocks' list is not touched.
LEMMA DropsCheckpointStep ==
  ASSUME CacheTypeOK, NEW ids \in Turns, RestoreDropsCheckpoint(ids)
  PROVE  \E i \in Slots("ck") :
           /\ TabOK(tab') /\ ListsOK(lru')
           /\ \A m \in Kind : \A j \in Slots(m) :
                tab'[m][j] = IF m = "ck" /\ j = i THEN Dropped ELSE tab[m][j]
           /\ lru'["blk"] = lru["blk"]
<1>1. TabOK(tab) /\ ListsOK(lru) /\ "blk" \in Kind /\ "ck" \in Kind
  BY DEF CacheTypeOK, Kind
<1>2. PICK i \in Slots("ck") : /\ tab' = [tab EXCEPT !["ck"][i] = Dropped]
                               /\ lru' = [lru EXCEPT !["ck"] = ToFront(lru["ck"], i)]
  BY DEF RestoreDropsCheckpoint, Held
<1>3. /\ TabOK(tab') /\ ListsOK(lru')
      /\ \A m \in Kind : \A j \in Slots(m) :
           tab'[m][j] = IF m = "ck" /\ j = i THEN Dropped ELSE tab[m][j]
      /\ \A m \in Kind : lru'[m] = IF m = "ck" THEN ToFront(lru["ck"], i) ELSE lru[m]
  BY ONLY <1>1, <1>2, DropStep
<1>4. lru'["blk"] = lru["blk"]
  BY <1>1, <1>3
<1> QED BY <1>3, <1>4

\* What a publish queues.
LEMMA PublishBlockStep ==
  ASSUME CacheTypeOK, PublishBlock
  PROVE  /\ IsKey("blk", Upto(pub.ids, pub.b)) /\ ListsOK(lru) /\ "blk" \in Kind
         /\ Enqueue("blk", Upto(pub.ids, pub.b), lru) /\ writer' = writer
         /\ pub.ids \in Prompts /\ pub.b \in 1..NFull(pub.ids) /\ NFull(pub.ids) \in Nat
         /\ pub'.ids = pub.ids /\ pub'.on /\ pub' \in [on : {TRUE}, ids : Turns, b : Nat \ {0}]
<1>1. up /\ pub.on /\ InBlocks
  BY DEF PublishBlock, InBlocks
<1>2. /\ pub.ids \in Turns /\ pub.ids \in Prompts /\ pub.b \in Nat \ {0} /\ NFull(pub.ids) \in Nat
      /\ pub.b \in 1..NFull(pub.ids) /\ IsKey("blk", Upto(pub.ids, pub.b))
  BY <1>1, PublishedKey
<1>3. pub \in [on : {TRUE}, ids : Turns, b : Nat \ {0}]
  BY <1>1, PublishIsTyped
<1>4. pub' \in [on : {TRUE}, ids : Turns, b : Nat \ {0}] /\ pub'.ids = pub.ids /\ pub'.on
  <2> DEFINE n == pub.b + 1
  <2>1. n \in Nat \ {0} /\ pub' = [pub EXCEPT !.b = n]
    BY <1>2 DEF PublishBlock
  <2> HIDE DEF n
  <2> QED BY <1>3, <2>1
<1> QED BY <1>2, <1>4 DEF PublishBlock, CacheTypeOK, Kind

\* A checkpoint is queued behind the walk over the blocks' list.
LEMMA PublishCheckpointStep ==
  ASSUME CacheTypeOK, PublishCheckpoint,
         NEW lists, lists = [lru EXCEPT !["blk"] = TouchPrompt(lru["blk"], pub.ids)]
  PROVE  /\ IsKey("ck", pub.ids) /\ ListsOK(lists) /\ "ck" \in Kind
         /\ Enqueue("ck", pub.ids, lists) /\ writer' = writer /\ pub.ids \in Prompts
         /\ lists["blk"] = TouchPrompt(lru["blk"], pub.ids) /\ pub' = NoPublish
<1>1. up /\ pub.on
  BY DEF PublishCheckpoint, InCheckpoint
<1>2. pub.ids \in Prompts /\ IsKey("ck", pub.ids)
  BY <1>1, PublishedKey
<1>3. ListsOK(lists) /\ lists["blk"] = TouchPrompt(lru["blk"], pub.ids)
  BY <1>2, PromptTouched
<1> QED BY <1>2, <1>3 DEF PublishCheckpoint, Kind

\* Typing is about the variables alone.
LEMMA TypeUnchanged ==
  ASSUME CacheTypeOK, UNCHANGED vars PROVE CacheTypeOK'
BY DEF CacheTypeOK, TabOK, ListsOK, DiskOK, QueueOK, IndexOK, PublishOK, LeftOK, vars

\* Every step leaves the state a state the program can be in.
LEMMA TypeStep ==
  ASSUME CacheTypeOK, DownOK, CacheNext PROVE CacheTypeOK' /\ DownOK'
<1>0. TabOK(tab) /\ ListsOK(lru) /\ DiskOK /\ QueueOK /\ IndexOK /\ PublishOK /\ LeftOK
  BY DEF CacheTypeOK
<1>a. UNCHANGED <<tab, lru>> => TabOK(tab') /\ ListsOK(lru')
  BY <1>0
<1>b. UNCHANGED disk => DiskOK'
  BY <1>0 DEF DiskOK
<1>c. UNCHANGED <<stage, jobs, writer>> => QueueOK'
  BY <1>0 DEF QueueOK
<1>d. UNCHANGED index => IndexOK'
  BY <1>0 DEF IndexOK
<1>e. UNCHANGED pub \/ pub' = NoPublish => PublishOK'
  BY <1>0 DEF PublishOK
<1>f. UNCHANGED left => LeftOK'
  BY <1>0 DEF LeftOK
<1>g. CacheTypeOK' <=> /\ TabOK(tab') /\ ListsOK(lru') /\ DiskOK' /\ QueueOK' /\ IndexOK' /\ PublishOK'
                       /\ LeftOK'
  BY DEF CacheTypeOK
<1>h. up /\ up' = up => DownOK'
  BY DEF DownOK
<1>1. ASSUME NEW ids \in Turns, StartPublish(ids) PROVE CacheTypeOK' /\ DownOK'
  <2>1. /\ UNCHANGED <<tab, lru, stage, jobs, writer, disk, index, up>> /\ up /\ Spend("publish")
        /\ pub' = [on |-> TRUE, ids |-> ids, b |-> 1]
    BY <1>1 DEF StartPublish
  <2>2. LeftOK' /\ PublishOK'
    BY <1>0, <2>1, SpendType DEF PublishOK
  <2> QED BY <1>a, <1>b, <1>c, <1>d, <1>g, <1>h, <2>1, <2>2
<1>2. ASSUME NEW ids \in Turns, Restore(ids) PROVE CacheTypeOK' /\ DownOK'
  <2>1. UNCHANGED <<tab, stage, jobs, writer, disk, index, up, pub, left>> /\ up
    BY <1>2 DEF Restore, CanRestore
  <2>2. ListsOK(lru')
    BY <1>2, RestoreStep
  <2> QED BY <1>0, <1>b, <1>c, <1>d, <1>e, <1>f, <1>g, <1>h, <2>1, <2>2
<1>3. ASSUME NEW ids \in Turns, RestoreDropsBlock(ids) PROVE CacheTypeOK' /\ DownOK'
  <2>1. UNCHANGED <<stage, jobs, writer, disk, index, up, pub, left>> /\ up
    BY <1>3 DEF RestoreDropsBlock, CanRestore
  <2>2. TabOK(tab') /\ ListsOK(lru')
    BY <1>3, DropsBlockStep
  <2> QED BY <1>b, <1>c, <1>d, <1>e, <1>f, <1>g, <1>h, <2>1, <2>2
<1>4. ASSUME NEW ids \in Turns, RestoreDropsCheckpoint(ids) PROVE CacheTypeOK' /\ DownOK'
  <2>1. UNCHANGED <<stage, jobs, writer, disk, index, up, pub, left>> /\ up
    BY <1>4 DEF RestoreDropsCheckpoint, CanRestore
  <2>2. TabOK(tab') /\ ListsOK(lru')
    BY <1>4, DropsCheckpointStep
  <2> QED BY <1>b, <1>c, <1>d, <1>e, <1>f, <1>g, <1>h, <2>1, <2>2
<1>5. ASSUME SkipBlock PROVE CacheTypeOK' /\ DownOK'
  <2>1. UNCHANGED <<tab, lru, stage, jobs, writer, disk, index, up, left>> /\ up /\ pub.on
    BY <1>5 DEF SkipBlock, InBlocks
  <2>2. pub \in [on : {TRUE}, ids : Turns, b : Nat \ {0}]
    BY <2>1, PublishIsTyped
  <2> DEFINE n == pub.b + 1
  <2>3. n \in Nat \ {0} /\ pub' = [pub EXCEPT !.b = n]
    BY <1>5, <2>2 DEF SkipBlock
  <2> HIDE DEF n
  <2>4. PublishOK'
    BY <2>2, <2>3 DEF PublishOK
  <2> QED BY <1>a, <1>b, <1>c, <1>d, <1>f, <1>g, <1>h, <2>1, <2>4
<1>6. ASSUME PublishBlock PROVE CacheTypeOK' /\ DownOK'
  <2>1. UNCHANGED <<disk, index, up, left>> /\ up
    BY <1>6 DEF PublishBlock, InBlocks
  <2>2. /\ IsKey("blk", Upto(pub.ids, pub.b)) /\ ListsOK(lru) /\ "blk" \in Kind
        /\ Enqueue("blk", Upto(pub.ids, pub.b), lru) /\ writer' = writer /\ PublishOK'
    BY <1>6, PublishBlockStep DEF PublishOK
  <2>3. TabOK(tab') /\ ListsOK(lru') /\ QueueOK'
    BY <2>2, EnqueueStep
  <2> QED BY <1>b, <1>d, <1>f, <1>g, <1>h, <2>1, <2>2, <2>3
<1>7. ASSUME RefuseBlock PROVE CacheTypeOK' /\ DownOK'
  <2>1. UNCHANGED <<lru, stage, jobs, writer, disk, index, up>> /\ up /\ Refuse("blk") /\ "blk" \in Kind
    BY <1>7 DEF RefuseBlock, Refuse, InBlocks, Kind
  <2>2. TabOK(tab') /\ LeftOK' /\ pub' = NoPublish
    BY <2>1, RefuseStep
  <2> QED BY <1>0, <1>b, <1>c, <1>d, <1>e, <1>g, <1>h, <2>1, <2>2
<1>8. ASSUME PublishCheckpoint PROVE CacheTypeOK' /\ DownOK'
  <2> DEFINE lists == [lru EXCEPT !["blk"] = TouchPrompt(lru["blk"], pub.ids)]
  <2>1. UNCHANGED <<disk, index, up, left>> /\ up
    BY <1>8 DEF PublishCheckpoint, InCheckpoint
  <2>2. /\ IsKey("ck", pub.ids) /\ ListsOK(lists) /\ "ck" \in Kind
        /\ Enqueue("ck", pub.ids, lists) /\ writer' = writer /\ pub' = NoPublish
    <3> HIDE DEF lists
    <3> QED BY <1>8, PublishCheckpointStep DEF lists
  <2> HIDE DEF lists
  <2>3. TabOK(tab') /\ ListsOK(lru') /\ QueueOK'
    BY <2>2, EnqueueStep
  <2> QED BY <1>b, <1>d, <1>e, <1>f, <1>g, <1>h, <2>1, <2>2, <2>3
<1>9. ASSUME RefuseCheckpoint PROVE CacheTypeOK' /\ DownOK'
  <2>1. /\ UNCHANGED <<stage, jobs, writer, disk, index, up>> /\ up /\ pub.on
        /\ Refuse("ck") /\ "ck" \in Kind
    BY <1>9 DEF RefuseCheckpoint, Refuse, InCheckpoint, Kind
  <2>2. TabOK(tab') /\ LeftOK' /\ pub' = NoPublish
    BY <2>1, RefuseStep
  <2>3. ListsOK(lru')
    BY <1>9, <2>1, PublishedKey, PromptTouched DEF RefuseCheckpoint
  <2> QED BY <1>b, <1>c, <1>d, <1>e, <1>g, <1>h, <2>1, <2>2, <2>3
<1>10. ASSUME TakeJob PROVE CacheTypeOK' /\ DownOK'
  <2>1. UNCHANGED <<tab, lru, disk, index, up, pub, left>> /\ up
    BY <1>10 DEF TakeJob
  <2>2. QueueOK'
    BY <1>0, <1>10, QueueTaken
  <2> QED BY <1>a, <1>b, <1>d, <1>e, <1>f, <1>g, <1>h, <2>1, <2>2
<1>11. ASSUME WriteRows PROVE CacheTypeOK' /\ DownOK'
  <2>1. UNCHANGED <<tab, lru, index, up, pub, left>> /\ up
    BY <1>11 DEF WriteRows
  <2>2. QueueOK' /\ DiskOK'
    BY <1>11, WriteRowsStep
  <2> QED BY <1>a, <1>d, <1>e, <1>f, <1>g, <1>h, <2>1, <2>2
<1>12. ASSUME WriteHeader PROVE CacheTypeOK' /\ DownOK'
  <2>1. UNCHANGED <<tab, lru, index, up, pub, left>> /\ up
    BY <1>12 DEF WriteHeader
  <2>2. QueueOK' /\ DiskOK'
    BY <1>12, WriteHeaderStep
  <2> QED BY <1>a, <1>d, <1>e, <1>f, <1>g, <1>h, <2>1, <2>2
<1>13. ASSUME WriteFails PROVE CacheTypeOK' /\ DownOK'
  <2>1. UNCHANGED <<tab, lru, index, up, pub>> /\ up
    BY <1>13 DEF WriteFails
  <2>2. QueueOK' /\ DiskOK' /\ LeftOK'
    BY <1>13, WriteFailsStep
  <2> QED BY <1>a, <1>d, <1>e, <1>g, <1>h, <2>1, <2>2
<1>14. ASSUME Close PROVE CacheTypeOK' /\ DownOK'
  <2>1. /\ UNCHANGED <<tab, lru, stage, jobs, writer, disk, pub>> /\ Spend("close") /\ ~pub.on /\ Drained
        /\ index' = [some |-> TRUE, tab |-> tab, lru |-> lru]
    BY <1>14 DEF Close
  <2>2. LeftOK'
    BY <1>0, <2>1, SpendType
  <2>3. pub = NoPublish
    BY <1>0, <2>1 DEF PublishOK
  <2>4. jobs = <<>> /\ writer = Idle
    BY <1>0, <2>1, DrainedIsIdle
  <2>5. index'.tab = tab /\ index'.lru = lru /\ index'.some
    BY <2>1
  <2>6. IndexOK'
    BY <1>0, <2>5 DEF IndexOK
  <2>7. DownOK'
    BY <2>1, <2>3, <2>4, <2>5 DEF DownOK
  <2> QED BY <1>a, <1>b, <1>c, <1>e, <1>g, <2>1, <2>2, <2>6, <2>7
<1>15. ASSUME Crash PROVE CacheTypeOK' /\ DownOK'
  <2>1. /\ UNCHANGED <<tab, lru, disk, index>> /\ Spend("crash") /\ stage' = [u \in Buf |-> NoKey]
        /\ jobs' = <<>> /\ writer' = Idle /\ pub' = NoPublish
    BY <1>15 DEF Crash
  <2>2. LeftOK' /\ left'["crash"] = left["crash"] - 1 /\ left["crash"] \in Nat
    BY <1>0, <2>1, SpendType
  <2>3. left'["crash"] # MaxCrash
    BY <1>0, <2>2, CacheAssumption DEF LeftOK
  <2>4. QueueOK'
    <3>1. NoKey \in Tokens
      BY DEF NoKey, Tokens
    <3>2. stage' \in [Buf -> Tokens] /\ jobs' \in Seq(Job) /\ DOMAIN jobs' = {} /\ writer'.ph = "idle"
      BY <2>1, <3>1 DEF Idle
    <3> QED BY <2>1, <3>2 DEF QueueOK
  <2>5. DownOK'
    BY <2>1, <2>3 DEF DownOK
  <2> QED BY <1>a, <1>b, <1>d, <1>e, <1>g, <2>1, <2>2, <2>4, <2>5
<1>16. ASSUME Open PROVE CacheTypeOK' /\ DownOK'
  <2>1. UNCHANGED <<stage, jobs, writer, disk, index, pub, left>> /\ up'
    BY <1>16 DEF Open
  <2>2. TabOK(tab') /\ ListsOK(lru')
    BY <1>16, OpenStep
  <2>3. DownOK'
    BY <2>1 DEF DownOK
  <2> QED BY <1>b, <1>c, <1>d, <1>e, <1>f, <1>g, <2>1, <2>2, <2>3
<1> QED BY <1>1, <1>2, <1>3, <1>4, <1>5, <1>6, <1>7, <1>8, <1>9, <1>10, <1>11, <1>12, <1>13, <1>14, <1>15, <1>16
        DEF CacheNext, PublishNext, WriterNext

-----------------------------------------------------------------------------
(* Slots, queue and files.                                                 *)

\* The process has not been killed, and one write at most came up short.
Mild == left["crash"] = MaxCrash /\ MaxFail - left["fail"] <= 1

\* The n-th queued write is for slot i of kind k; it is the last one that is.
On(n, k, i) == jobs[n].kind = k /\ jobs[n].slot = i
LastOn(n, k, i) == On(n, k, i) /\ \A m \in DOMAIN jobs : m > n => ~On(m, k, i)
\* No queued write is for the slot.
Quiet(k, i) == \A n \in DOMAIN jobs : ~On(n, k, i)

\* A slot's key is what its last write stages, what the writer is at, or what its file
\* holds, header and rows; or, after the one short write, the header is another's.
SlotTrue(k, i) ==
  /\ \A n \in DOMAIN jobs : LastOn(n, k, i) => stage[jobs[n].buf] = tab[k][i].key
  /\ Quiet(k, i) /\ Writing(k, i) => stage[writer.buf] = tab[k][i].key
  /\ Quiet(k, i) /\ ~Writing(k, i) =>
       \/ disk[k][i].hdr = tab[k][i].key /\ disk[k][i].rows = tab[k][i].key
       \/ left["fail"] < MaxFail /\ disk[k][i].hdr # tab[k][i].key

\* Between rows and header a slot has the rows; elsewhere, before a write has come up
\* short, header and rows are one key's.
FileTrue(k, i) ==
  /\ writer.ph = "header" /\ Writing(k, i) => disk[k][i].rows = stage[writer.buf]
  /\ left["fail"] = MaxFail /\ ~(writer.ph = "header" /\ Writing(k, i)) =>
       disk[k][i].hdr = disk[k][i].rows

\* The invariant about slots and files.
TruthOK ==
  Mild => \A k \in Kind : \A i \in Slots(k) :
            FileTrue(k, i) /\ (tab[k][i].key # NoKey => SlotTrue(k, i))

\* A step that leaves alone what TruthOK reads keeps it, whatever keys it drops.
LEMMA TruthKept ==
  ASSUME TruthOK, UNCHANGED <<stage, jobs, writer, disk>>,
         left'["fail"] = left["fail"], left'["crash"] = left["crash"],
         \A k \in Kind : \A i \in Slots(k) :
           tab'[k][i].key = tab[k][i].key \/ tab'[k][i].key = NoKey
  PROVE  TruthOK'
<1> SUFFICES ASSUME Mild', NEW k \in Kind, NEW i \in Slots(k)
             PROVE  (FileTrue(k, i) /\ (tab[k][i].key # NoKey => SlotTrue(k, i)))'
  BY DEF TruthOK
<1>1. Mild
  BY DEF Mild
<1>2. FileTrue(k, i) /\ (tab[k][i].key # NoKey => SlotTrue(k, i))
  BY <1>1 DEF TruthOK
<1>3. FileTrue(k, i)'
  BY <1>2 DEF FileTrue, Writing
<1>4. ASSUME tab'[k][i].key # NoKey PROVE SlotTrue(k, i)'
  <2>1. tab'[k][i].key = tab[k][i].key /\ SlotTrue(k, i)
    BY <1>2, <1>4
  <2> QED BY <2>1 DEF SlotTrue, Writing, Quiet, LastOn, On
<1> QED BY <1>3, <1>4

\* A write queued is the last one for its slot.
LEMMA TruthEnqueued ==
  ASSUME CacheTypeOK, TruthOK, NEW k \in Kind, NEW key, IsKey(k, key), NEW lists, ListsOK(lists),
         Enqueue(k, key, lists), UNCHANGED <<writer, disk, left>>
  PROVE  TruthOK'
<1> SUFFICES ASSUME Mild', NEW m \in Kind, NEW j \in Slots(m)
             PROVE  (FileTrue(m, j) /\ (tab[m][j].key # NoKey => SlotTrue(m, j)))'
  BY DEF TruthOK
<1>1. Mild
  BY DEF Mild
<1>2. FileTrue(m, j) /\ (tab[m][j].key # NoKey => SlotTrue(m, j))
  BY <1>1 DEF TruthOK
<1> DEFINE i == Head(lists[k])
<1>3. /\ \A x \in Kind : \A y \in Slots(x) :
           tab'[x][y] = IF x = k /\ y = i THEN [used |-> TRUE, linked |-> TRUE, key |-> key]
                                          ELSE tab[x][y]
      /\ Len(jobs) \in Nat /\ DOMAIN jobs = 1..Len(jobs) /\ DOMAIN jobs' = 1..(Len(jobs) + 1)
      /\ \A n \in DOMAIN jobs : jobs'[n] = jobs[n] /\ stage'[jobs[n].buf] = stage[jobs[n].buf]
      /\ jobs'[Len(jobs) + 1].kind = k /\ jobs'[Len(jobs) + 1].slot = i
      /\ stage'[jobs'[Len(jobs) + 1].buf] = key
      /\ writer.ph # "idle" => stage'[writer.buf] = stage[writer.buf]
  <2>1. writer' = writer /\ i = Head(lists[k])
    OBVIOUS
  <2> HIDE DEF i
  <2> QED BY ONLY CacheTypeOK, k \in Kind, IsKey(k, key), ListsOK(lists), Enqueue(k, key, lists),
                  <2>1, EnqueueStep
<1> HIDE DEF i
<1>5. PICK q \in Nat : /\ q = Len(jobs) + 1 /\ DOMAIN jobs' = 1..q /\ q \in 1..q
                       /\ \A n \in DOMAIN jobs : n \in 1..q /\ n < q
                       /\ \A n \in 1..q : n # q => n \in DOMAIN jobs
  <2> QED BY ONLY <1>3
<1>4. FileTrue(m, j)'
  BY <1>2, <1>3 DEF FileTrue, Writing
<1>6. CASE m = k /\ j = i
  <2>1. tab'[m][j].key = key
    BY <1>3, <1>6
  <2>2. On(q, m, j)'
    BY <1>3, <1>5, <1>6 DEF On
  <2>3. ~Quiet(m, j)'
    BY <1>3, <1>5, <2>2 DEF Quiet
  <2>4. \A n \in DOMAIN jobs' : LastOn(n, m, j)' => n = q
    BY <1>3, <1>5, <2>2 DEF LastOn
  <2>5. SlotTrue(m, j)'
    BY <1>3, <1>5, <2>1, <2>3, <2>4 DEF SlotTrue
  <2> QED BY <1>4, <2>5
<1>7. CASE ~(m = k /\ j = i)
  <2>1. tab'[m][j] = tab[m][j]
    BY <1>3, <1>7
  <2>2. ~On(q, m, j)' /\ \A n \in DOMAIN jobs : On(n, m, j)' = On(n, m, j)
    BY <1>3, <1>5, <1>7 DEF On
  <2>3. Quiet(m, j)' => Quiet(m, j)
    BY <1>3, <1>5, <2>2 DEF Quiet
  <2>4. \A n \in DOMAIN jobs' : LastOn(n, m, j)' => n \in DOMAIN jobs /\ LastOn(n, m, j)
    BY <1>3, <1>5, <2>2 DEF LastOn
  <2>5. ASSUME tab[m][j].key # NoKey PROVE SlotTrue(m, j)'
    <3>1. SlotTrue(m, j)
      BY <1>2, <2>5
    <3>2. \A n \in DOMAIN jobs' : LastOn(n, m, j)' => stage'[jobs'[n].buf] = tab'[m][j].key
      BY <1>3, <2>1, <2>4, <3>1 DEF SlotTrue
    <3>3. (Quiet(m, j) /\ Writing(m, j) => stage[writer.buf] = tab[m][j].key)'
      BY <1>3, <2>1, <2>3, <3>1 DEF SlotTrue, Writing
    <3>4. (Quiet(m, j) /\ ~Writing(m, j) =>
             \/ disk[m][j].hdr = tab[m][j].key /\ disk[m][j].rows = tab[m][j].key
             \/ left["fail"] < MaxFail /\ disk[m][j].hdr # tab[m][j].key)'
      BY <2>1, <2>3, <3>1 DEF SlotTrue, Writing
    <3> QED BY <3>2, <3>3, <3>4 DEF SlotTrue
  <2> QED BY <1>4, <2>1, <2>5
<1> QED BY <1>6, <1>7

\* The job taken was the slot's last, or another is.
LEMMA TruthTaken ==
  ASSUME CacheTypeOK, TruthOK, TakeJob PROVE TruthOK'
<1> SUFFICES ASSUME Mild', NEW m \in Kind, NEW j \in Slots(m)
             PROVE  (FileTrue(m, j) /\ (tab[m][j].key # NoKey => SlotTrue(m, j)))'
  BY DEF TruthOK
<1> DEFINE L == Len(jobs)
<1>0. UNCHANGED <<tab, disk, left>> /\ QueueOK
  BY DEF TakeJob, CacheTypeOK
<1>1. Mild
  BY <1>0 DEF Mild
<1>2. FileTrue(m, j) /\ (tab[m][j].key # NoKey => SlotTrue(m, j))
  BY <1>1 DEF TruthOK
<1>3. /\ writer.ph = "idle" /\ stage' = stage
      /\ L \in Nat \ {0} /\ DOMAIN jobs = 1..L
      /\ DOMAIN jobs' = 1..(L - 1)
      /\ \A n \in DOMAIN jobs' : n + 1 \in DOMAIN jobs /\ jobs'[n] = jobs[n + 1]
      /\ writer'.ph = "rows" /\ writer'.kind = jobs[1].kind
      /\ writer'.slot = jobs[1].slot /\ writer'.buf = jobs[1].buf
  BY <1>0, QueueTaken
<1> HIDE DEF L
<1>4. FileTrue(m, j)'
  BY <1>0, <1>2, <1>3 DEF FileTrue, Writing
<1>5. \A n \in 1..(L - 1) : n + 1 \in 1..L /\ On(n, m, j)' = On(n + 1, m, j)
  BY <1>3 DEF On
<1>6. \A x \in 1..L : x # 1 => x - 1 \in 1..(L - 1) /\ (x - 1) + 1 = x
  BY <1>3
<1>7. \A n \in 1..(L - 1) : LastOn(n, m, j)' => LastOn(n + 1, m, j)
  <2> SUFFICES ASSUME NEW n \in 1..(L - 1), LastOn(n, m, j)', NEW x \in 1..L, x > n + 1
               PROVE  ~On(x, m, j)
    BY <1>3, <1>5 DEF LastOn
  <2> DEFINE y == x - 1
  <2>1. y \in 1..(L - 1) /\ y > n /\ y + 1 = x
    BY <1>3
  <2> HIDE DEF y
  <2>2. ~On(y, m, j)'
    BY <1>3, <2>1 DEF LastOn
  <2> QED BY <1>5, <2>1, <2>2
<1>8. ASSUME tab[m][j].key # NoKey PROVE SlotTrue(m, j)'
  <2>1. SlotTrue(m, j)
    BY <1>2, <1>8
  <2>2. \A n \in DOMAIN jobs' : LastOn(n, m, j)' => stage'[jobs'[n].buf] = tab'[m][j].key
    BY <1>0, <1>3, <1>7, <2>1 DEF SlotTrue
  <2>3. ASSUME Quiet(m, j)' PROVE \A x \in 1..L : x # 1 => ~On(x, m, j)
    <3> SUFFICES ASSUME NEW x \in 1..L, x # 1 PROVE ~On(x, m, j)
      OBVIOUS
    <3> DEFINE y == x - 1
    <3>1. y \in 1..(L - 1) /\ y + 1 = x
      BY <1>6
    <3> HIDE DEF y
    <3> QED BY <1>3, <1>5, <2>3, <3>1 DEF Quiet
  <2>4. 1 \in 1..L
    BY <1>3
  <2>5. Writing(m, j)' <=> On(1, m, j)
    BY <1>3 DEF Writing, On
  <2>6. ~Writing(m, j)
    BY <1>3 DEF Writing
  <2>7. ASSUME Quiet(m, j)', Writing(m, j)' PROVE stage'[writer'.buf] = tab'[m][j].key
    <3>1. LastOn(1, m, j)
      BY <1>3, <2>3, <2>5, <2>7 DEF LastOn
    <3> QED BY <1>0, <1>3, <2>1, <2>4, <3>1 DEF SlotTrue
  <2>8. ASSUME Quiet(m, j)', ~Writing(m, j)'
        PROVE  (\/ disk[m][j].hdr = tab[m][j].key /\ disk[m][j].rows = tab[m][j].key
                \/ left["fail"] < MaxFail /\ disk[m][j].hdr # tab[m][j].key)'
    <3>1. Quiet(m, j)
      BY <1>3, <2>3, <2>5, <2>8 DEF Quiet
    <3> QED BY <1>0, <2>1, <2>6, <3>1 DEF SlotTrue
  <2> QED BY <2>2, <2>7, <2>8 DEF SlotTrue
<1> QED BY <1>0, <1>4, <1>8

\* The rows are in the file.
LEMMA TruthRows ==
  ASSUME CacheTypeOK, TruthOK, WriteRows PROVE TruthOK'
<1> SUFFICES ASSUME Mild', NEW m \in Kind, NEW j \in Slots(m)
             PROVE  (FileTrue(m, j) /\ (tab[m][j].key # NoKey => SlotTrue(m, j)))'
  BY DEF TruthOK
<1>0. UNCHANGED <<tab, left>>
  BY DEF WriteRows
<1>1. Mild
  BY <1>0 DEF Mild
<1>2. FileTrue(m, j) /\ (tab[m][j].key # NoKey => SlotTrue(m, j))
  BY <1>1 DEF TruthOK
<1>3. /\ writer.ph = "rows" /\ stage' = stage /\ jobs' = jobs
      /\ writer'.ph = "header" /\ writer'.kind = writer.kind
      /\ writer'.slot = writer.slot /\ writer'.buf = writer.buf
      /\ ~(m = writer.kind /\ j = writer.slot) => disk'[m][j] = disk[m][j]
      /\ m = writer.kind /\ j = writer.slot => disk'[m][j].rows = stage[writer.buf]
  BY WriteRowsStep
<1>4. Writing(m, j)' = Writing(m, j) /\ (Writing(m, j) <=> m = writer.kind /\ j = writer.slot)
  BY <1>3 DEF Writing
<1>5. FileTrue(m, j)'
  BY <1>0, <1>2, <1>3, <1>4 DEF FileTrue
<1>6. ASSUME tab[m][j].key # NoKey PROVE SlotTrue(m, j)'
  <2>1. SlotTrue(m, j)
    BY <1>2, <1>6
  <2>2. Quiet(m, j)' = Quiet(m, j) /\ \A n : LastOn(n, m, j)' = LastOn(n, m, j)
    BY <1>3 DEF Quiet, LastOn, On
  <2> QED BY <1>0, <1>3, <1>4, <2>1, <2>2 DEF SlotTrue
<1> QED BY <1>0, <1>5, <1>6

\* What the writer's end of a job leaves of the queue.
LEMMA QueueLeft ==
  ASSUME jobs' = jobs, writer'.ph = "idle", NEW m \in Kind, NEW j \in Slots(m)
  PROVE  /\ Quiet(m, j)' = Quiet(m, j) /\ ~Writing(m, j)'
         /\ \A n \in DOMAIN jobs : LastOn(n, m, j)' = LastOn(n, m, j)
BY DEF Quiet, LastOn, On, Writing

\* The header is.
LEMMA TruthHeader ==
  ASSUME CacheTypeOK, TruthOK, WriteHeader PROVE TruthOK'
<1> SUFFICES ASSUME Mild', NEW m \in Kind, NEW j \in Slots(m)
             PROVE  (FileTrue(m, j) /\ (tab[m][j].key # NoKey => SlotTrue(m, j)))'
  BY DEF TruthOK
<1>0. UNCHANGED <<tab, left>>
  BY DEF WriteHeader
<1>1. Mild
  BY <1>0 DEF Mild
<1>2. FileTrue(m, j) /\ (tab[m][j].key # NoKey => SlotTrue(m, j))
  BY <1>1 DEF TruthOK
<1>3. /\ writer.ph = "header" /\ writer'.ph = "idle" /\ jobs' = jobs
      /\ \A n \in DOMAIN jobs : stage'[jobs[n].buf] = stage[jobs[n].buf]
      /\ ~(m = writer.kind /\ j = writer.slot) => disk'[m][j] = disk[m][j]
      /\ m = writer.kind /\ j = writer.slot =>
           disk'[m][j] = [hdr |-> stage[writer.buf], rows |-> disk[m][j].rows]
  BY WriteHeaderStep
<1>4. Writing(m, j) <=> m = writer.kind /\ j = writer.slot
  BY <1>3 DEF Writing
<1>5. Writing(m, j) => disk'[m][j].hdr = stage[writer.buf] /\ disk'[m][j].rows = stage[writer.buf]
  BY <1>2, <1>3, <1>4 DEF FileTrue
<1>6. ~Writing(m, j) => disk'[m][j] = disk[m][j]
  BY <1>3, <1>4
<1>7. FileTrue(m, j)'
  BY <1>0, <1>2, <1>3, <1>5, <1>6 DEF FileTrue
<1>8. ASSUME tab[m][j].key # NoKey PROVE SlotTrue(m, j)'
  <2>1. SlotTrue(m, j)
    BY <1>2, <1>8
  <2>2. /\ Quiet(m, j)' = Quiet(m, j) /\ ~Writing(m, j)'
        /\ \A n \in DOMAIN jobs : LastOn(n, m, j)' = LastOn(n, m, j)
    BY <1>3, QueueLeft
  <2> QED BY <1>0, <1>3, <1>5, <1>6, <2>1, <2>2 DEF SlotTrue
<1> QED BY <1>0, <1>7, <1>8

\* A write comes up short: the first to do so finds a header that is another key's, or
\* the very rows it was writing.
LEMMA TruthFails ==
  ASSUME CacheTypeOK, TruthOK, WriteFails PROVE TruthOK'
<1> SUFFICES ASSUME Mild', NEW m \in Kind, NEW j \in Slots(m)
             PROVE  (FileTrue(m, j) /\ (tab[m][j].key # NoKey => SlotTrue(m, j)))'
  BY DEF TruthOK
<1>0. tab' = tab
  BY DEF WriteFails
<1>3. /\ writer.ph \in {"rows", "header"} /\ writer'.ph = "idle" /\ jobs' = jobs
      /\ \A n \in DOMAIN jobs : stage'[jobs[n].buf] = stage[jobs[n].buf]
      /\ left["fail"] \in Nat /\ left'["fail"] = left["fail"] - 1 /\ left'["crash"] = left["crash"]
      /\ ~(m = writer.kind /\ j = writer.slot) => disk'[m][j] = disk[m][j]
      /\ disk'[m][j].hdr = disk[m][j].hdr
      /\ m = writer.kind /\ j = writer.slot /\
           (writer.ph = "header" \/ disk[m][j].rows = stage[writer.buf]) =>
           disk'[m][j] = disk[m][j]
  BY WriteFailsStep
<1>1. left["fail"] = MaxFail /\ left'["fail"] < MaxFail /\ Mild /\ MaxFail \in Nat
  <2>1. MaxFail \in Nat /\ left["fail"] <= MaxFail
    BY CacheAssumption DEF CacheTypeOK, LeftOK
  <2>2. left'["crash"] = MaxCrash /\ MaxFail - left'["fail"] <= 1
    BY DEF Mild
  <2>3. left["fail"] = MaxFail
    BY <1>3, <2>1, <2>2
  <2> QED BY <1>3, <2>1, <2>2, <2>3 DEF Mild
<1>2. FileTrue(m, j) /\ (tab[m][j].key # NoKey => SlotTrue(m, j))
  BY <1>1 DEF TruthOK
<1>4. Writing(m, j) <=> m = writer.kind /\ j = writer.slot
  BY <1>3 DEF Writing
<1>7. FileTrue(m, j)'
  BY <1>1, <1>3 DEF FileTrue
<1>8. ASSUME tab[m][j].key # NoKey PROVE SlotTrue(m, j)'
  <2>1. SlotTrue(m, j)
    BY <1>2, <1>8
  <2>2. /\ Quiet(m, j)' = Quiet(m, j) /\ ~Writing(m, j)'
        /\ \A n \in DOMAIN jobs : LastOn(n, m, j)' = LastOn(n, m, j)
    BY <1>3, QueueLeft
  <2>3. \A n \in DOMAIN jobs' : LastOn(n, m, j)' => stage'[jobs'[n].buf] = tab'[m][j].key
    BY <1>0, <1>3, <2>1, <2>2 DEF SlotTrue
  <2> DEFINE key == tab[m][j].key
  <2>4. ASSUME Quiet(m, j)
        PROVE  \/ disk'[m][j].hdr = key /\ disk'[m][j].rows = key
               \/ disk'[m][j].hdr # key
    <3>1. CASE ~Writing(m, j)
      <4>1. disk'[m][j] = disk[m][j]
        BY <1>3, <1>4, <3>1
      <4> QED BY <1>1, <2>1, <2>4, <3>1, <4>1 DEF SlotTrue
    <3>2. CASE Writing(m, j)
      <4>1. stage[writer.buf] = key
        BY <2>1, <2>4, <3>2 DEF SlotTrue
      <4>2. CASE disk[m][j].rows = key
        <5>1. disk'[m][j] = disk[m][j]
          BY <1>3, <1>4, <3>2, <4>1, <4>2
        <5> QED BY <4>2, <5>1
      <4>3. CASE disk[m][j].rows # key
        <5>1. writer.ph # "header"
          BY <1>2, <3>2, <4>1, <4>3 DEF FileTrue
        <5>2. disk[m][j].hdr = disk[m][j].rows
          BY <1>1, <1>2, <5>1 DEF FileTrue
        <5> QED BY <1>3, <4>3, <5>2
      <4> QED BY <4>2, <4>3
    <3> QED BY <3>1, <3>2
  <2>5. Quiet(m, j)' => \/ disk'[m][j].hdr = key /\ disk'[m][j].rows = key
                        \/ left'["fail"] < MaxFail /\ disk'[m][j].hdr # key
    BY <1>1, <2>2, <2>4
  <2> QED BY <1>0, <2>2, <2>3, <2>5 DEF SlotTrue
<1> QED BY <1>0, <1>7, <1>8

\* Index, queue, buffers and files agree after every step.
LEMMA TruthStep ==
  ASSUME CacheTypeOK, DownOK, TruthOK, CacheNext PROVE TruthOK'
<1>1. ASSUME NEW ids \in Turns, StartPublish(ids) PROVE TruthOK'
  <2>1. UNCHANGED <<tab, stage, jobs, writer, disk>> /\ Spend("publish")
    BY <1>1 DEF StartPublish
  <2>2. left'["fail"] = left["fail"] /\ left'["crash"] = left["crash"]
    BY <2>1, SpendType DEF CacheTypeOK
  <2> QED BY <2>1, <2>2, TruthKept
<1>2. ASSUME NEW ids \in Turns, Restore(ids) PROVE TruthOK'
  <2>1. UNCHANGED <<tab, stage, jobs, writer, disk, left>>
    BY <1>2 DEF Restore
  <2> QED BY <2>1, TruthKept
<1>3. ASSUME NEW ids \in Turns, RestoreDropsBlock(ids) PROVE TruthOK'
  <2>1. UNCHANGED <<stage, jobs, writer, disk, left>>
    BY <1>3 DEF RestoreDropsBlock
  <2>2. \A m \in Kind : \A j \in Slots(m) : tab'[m][j] = tab[m][j] \/ tab'[m][j] = Dropped
    BY <1>3, DropsBlockStep
  <2>3. Dropped.key = NoKey
    BY DEF Dropped
  <2> QED BY <2>1, <2>2, <2>3, TruthKept
<1>4. ASSUME NEW ids \in Turns, RestoreDropsCheckpoint(ids) PROVE TruthOK'
  <2>1. UNCHANGED <<stage, jobs, writer, disk, left>>
    BY <1>4 DEF RestoreDropsCheckpoint
  <2>2. \A m \in Kind : \A j \in Slots(m) : tab'[m][j] = tab[m][j] \/ tab'[m][j] = Dropped
    BY <1>4, DropsCheckpointStep
  <2>3. Dropped.key = NoKey
    BY DEF Dropped
  <2> QED BY <2>1, <2>2, <2>3, TruthKept
<1>5. ASSUME SkipBlock PROVE TruthOK'
  <2>1. UNCHANGED <<tab, stage, jobs, writer, disk, left>>
    BY <1>5 DEF SkipBlock
  <2> QED BY <2>1, TruthKept
<1>6. ASSUME PublishBlock PROVE TruthOK'
  <2>1. UNCHANGED <<writer, disk, left>>
    BY <1>6 DEF PublishBlock
  <2>2. /\ IsKey("blk", Upto(pub.ids, pub.b)) /\ ListsOK(lru) /\ "blk" \in Kind
        /\ Enqueue("blk", Upto(pub.ids, pub.b), lru)
    BY <1>6, PublishBlockStep
  <2> QED BY <2>1, <2>2, TruthEnqueued
<1>7. ASSUME NEW k \in Kind, Refuse(k) PROVE TruthOK'
  <2>1. UNCHANGED <<stage, jobs, writer, disk>>
    BY <1>7 DEF Refuse
  <2>2. /\ \A m \in Kind : \A j \in Slots(m) : tab'[m][j].key = tab[m][j].key
        /\ left'["crash"] = left["crash"] /\ left'["fail"] = left["fail"]
    BY <1>7, RefuseStep
  <2> QED BY <2>1, <2>2, TruthKept
<1>8. ASSUME PublishCheckpoint PROVE TruthOK'
  <2> DEFINE lists == [lru EXCEPT !["blk"] = TouchPrompt(lru["blk"], pub.ids)]
  <2>1. UNCHANGED <<writer, disk, left>>
    BY <1>8 DEF PublishCheckpoint
  <2>2. IsKey("ck", pub.ids) /\ ListsOK(lists) /\ "ck" \in Kind /\ Enqueue("ck", pub.ids, lists)
    <3> HIDE DEF lists
    <3> QED BY <1>8, PublishCheckpointStep DEF lists
  <2> HIDE DEF lists
  <2> QED BY <2>1, <2>2, TruthEnqueued
<1>9. CASE RefuseBlock \/ RefuseCheckpoint
  <2>1. \E k \in Kind : Refuse(k)
    BY <1>9 DEF RefuseBlock, RefuseCheckpoint, Kind
  <2> QED BY <1>7, <2>1
<1>10. CASE WriterNext
  BY <1>10, TruthTaken, TruthRows, TruthHeader, TruthFails DEF WriterNext
<1>11. ASSUME Close PROVE TruthOK'
  <2>1. UNCHANGED <<tab, stage, jobs, writer, disk>> /\ Spend("close")
    BY <1>11 DEF Close
  <2>2. left'["fail"] = left["fail"] /\ left'["crash"] = left["crash"]
    BY <2>1, SpendType DEF CacheTypeOK
  <2> QED BY <2>1, <2>2, TruthKept
<1>12. ASSUME Crash PROVE TruthOK'
  <2>1. left'["crash"] = left["crash"] - 1 /\ left["crash"] \in Nat /\ left["crash"] <= MaxCrash
        /\ MaxCrash \in Nat
    <3>1. Spend("crash") /\ LeftOK
      BY <1>12 DEF Crash, CacheTypeOK
    <3> QED BY <3>1, CacheAssumption, SpendType DEF LeftOK
  <2>2. ~Mild'
    BY <2>1 DEF Mild
  <2> QED BY <2>2 DEF TruthOK
<1>13. ASSUME Open PROVE TruthOK'
  <2>1. UNCHANGED <<stage, jobs, writer, disk, left>> /\ ~up
    BY <1>13 DEF Open
  <2>2. CASE left["crash"] = MaxCrash
    <3>1. index.some /\ index.tab = tab
      BY <2>1, <2>2 DEF DownOK
    <3>2. \A m \in Kind : \A j \in Slots(m) : tab'[m][j].key = tab[m][j].key
      BY <1>13, <3>1, OpenStep
    <3> QED BY <2>1, <3>2, TruthKept
  <2>3. CASE left["crash"] # MaxCrash
    <3>1. ~Mild'
      BY <2>1, <2>3 DEF Mild
    <3> QED BY <3>1 DEF TruthOK
  <2> QED BY <2>2, <2>3
<1> QED BY <1>1, <1>2, <1>3, <1>4, <1>5, <1>6, <1>8, <1>9, <1>10, <1>11, <1>12, <1>13 DEF CacheNext, PublishNext

\* The invariant's account of a slot, in the words of the property.
LEMMA TruthTold == CacheTypeOK /\ TruthOK => IndexTellsTheTruth
<1> SUFFICES ASSUME CacheTypeOK, TruthOK, left["crash"] = MaxCrash, left["fail"] = MaxFail,
                    NEW k \in Kind, NEW i \in Slots(k), tab[k][i].linked, tab[k][i].key # NoKey
             PROVE  CASE Pending(k, i) # {} -> stage[jobs[Max(Pending(k, i))].buf] = tab[k][i].key
                      [] Pending(k, i) = {} /\ Writing(k, i) -> stage[writer.buf] = tab[k][i].key
                      [] OTHER -> disk[k][i] = [hdr |-> tab[k][i].key, rows |-> tab[k][i].key]
  BY DEF IndexTellsTheTruth
<1>1. SlotTrue(k, i)
  <2>1. Mild
    BY CacheAssumption DEF Mild
  <2> QED BY <2>1 DEF TruthOK
<1>2. Pending(k, i) = {} <=> Quiet(k, i)
  BY DEF Pending, Quiet, On
<1>3. CASE Pending(k, i) # {}
  <2> DEFINE P == Pending(k, i)
  <2> DEFINE n == Max(P)
  <2>1. jobs \in Seq(Job)
    BY DEF CacheTypeOK, QueueOK
  <2>2. Len(jobs) \in Nat /\ DOMAIN jobs = 1..Len(jobs)
    BY <2>1
  <2>3. P \subseteq 0..Len(jobs)
    BY <2>2 DEF Pending
  <2>4. n \in P /\ \A y \in P : y <= n
    <3> HIDE DEF P
    <3> QED BY <1>3, <2>2, <2>3, MaxIn DEF P
  <2>5. n \in DOMAIN jobs /\ On(n, k, i) /\ \A y \in DOMAIN jobs : On(y, k, i) => y <= n
    BY <2>4 DEF Pending, On
  <2> HIDE DEF n
  <2>6. \A y \in DOMAIN jobs : y > n => ~On(y, k, i)
    BY <2>2, <2>5
  <2>7. LastOn(n, k, i)
    BY <2>5, <2>6 DEF LastOn
  <2>8. stage[jobs[n].buf] = tab[k][i].key
    BY <1>1, <2>5, <2>7 DEF SlotTrue
  <2> QED BY <1>3, <2>8 DEF n
<1>4. CASE Pending(k, i) = {} /\ Writing(k, i)
  BY <1>1, <1>2, <1>4 DEF SlotTrue
<1>5. CASE Pending(k, i) = {} /\ ~Writing(k, i)
  <2>1. disk[k][i].hdr = tab[k][i].key /\ disk[k][i].rows = tab[k][i].key
    <3>1. ~(left["fail"] < MaxFail)
      BY CacheAssumption
    <3> QED BY <1>1, <1>2, <1>5, <3>1 DEF SlotTrue
  <2>2. disk[k][i] \in Stored
    BY DEF CacheTypeOK, DiskOK
  <2>3. disk[k][i] = [hdr |-> disk[k][i].hdr, rows |-> disk[k][i].rows]
    BY <2>2 DEF Stored
  <2> QED BY <1>5, <2>1, <2>3
<1> QED BY <1>3, <1>4, <1>5

\* With the queue drained, what a slot's key verifies against is its own.
LEMMA VerifiedIsTrue ==
  ASSUME CacheTypeOK, TruthOK, Mild, Drained, NEW k \in Kind, NEW i \in Slots(k),
         tab[k][i].key # NoKey, Verified(k, i, tab[k][i].key),
         left["fail"] = MaxFail \/ TokensTellPrefixes
  PROVE  disk[k][i].rows = tab[k][i].key
<1> DEFINE key == tab[k][i].key
<1>1. jobs = <<>> /\ writer = Idle
  BY DrainedIsIdle DEF CacheTypeOK
<1>2. Quiet(k, i) /\ ~Writing(k, i)
  BY <1>1 DEF Quiet, Writing, Idle
<1>3. \/ disk[k][i].hdr = key /\ disk[k][i].rows = key
      \/ left["fail"] < MaxFail /\ disk[k][i].hdr # key
  BY <1>2 DEF TruthOK, SlotTrue
<1>4. ASSUME left["fail"] < MaxFail PROVE disk[k][i].hdr = key
  <2>1. TokensTellPrefixes
    BY <1>4, CacheAssumption
  <2>2. IsKey(k, key) /\ disk[k][i].hdr # NoKey /\ IsKey(k, disk[k][i].hdr)
    BY DEF CacheTypeOK, TabOK, DiskOK, Verified
  <2>3. key \in Keys(k) /\ disk[k][i].hdr \in Keys(k)
    BY <2>2 DEF IsKey
  <2>4. OwnTokens(k, disk[k][i].hdr) = OwnTokens(k, key) /\ (k = "ck" => Len(disk[k][i].hdr) = Len(key))
    BY DEF Verified
  <2> QED BY <2>1, <2>2, <2>3, <2>4 DEF TokensTellPrefixes
<1> QED BY <1>3, <1>4

\* What a restore hands over.
LEMMA RestoreIsTrue ==
  ASSUME CacheTypeOK, TruthOK, Mild, NEW ids \in Turns, Restore(ids),
         left["fail"] = MaxFail \/ TokensTellPrefixes
  PROVE  ServedIsThePrefix'
<1> DEFINE at == SubSeq(ids, 1, Lookup(ids))
<1>1. ids \in Prompts /\ Lookup(ids) > 0 /\ Drained /\ "blk" \in Kind /\ "ck" \in Kind
  BY TurnsArePrompts DEF Restore, CanRestore, Kind
<1>2. /\ at \in Prompts /\ NFull(at) \in Nat
      /\ \A b \in 1..NFull(at) :
           /\ SlotOf(b, at) \in Held("blk", Upto(at, b)) /\ SlotOf(b, at) \in Slots("blk")
           /\ Upto(at, b) \in Prompts
  BY ONLY <1>1, LookupFacts
<1>3. BadBlocks(at) = {}
  BY DEF Restore
<1>4. PICK i \in Held("ck", at) :
        /\ Verified("ck", i, at)
        /\ served' = [some |-> TRUE, ids |-> at, rings |-> disk["ck"][i].rows,
                      rows |-> [b \in 1..NFull(at) |-> disk["blk"][SlotOf(b, at)].rows]]
  BY DEF Restore
<1> HIDE DEF at
<1>5. i \in Slots("ck") /\ tab["ck"][i].key = at /\ at # NoKey
  BY <1>2, <1>4 DEF Held, Prompts
<1>6. disk["ck"][i].rows = at
  BY <1>1, <1>4, <1>5, VerifiedIsTrue
<1>7. ASSUME NEW b \in 1..NFull(at) PROVE disk["blk"][SlotOf(b, at)].rows = Upto(at, b)
  <2> DEFINE x == SlotOf(b, at)
  <2>1. x \in Slots("blk") /\ tab["blk"][x].key = Upto(at, b) /\ Upto(at, b) # NoKey
    BY <1>2 DEF Held, Prompts
  <2>2. Verified("blk", x, Upto(at, b))
    BY <1>3 DEF BadBlocks
  <2> HIDE DEF x
  <2>3. disk["blk"][x].rows = Upto(at, b)
    BY <1>1, <2>1, <2>2, VerifiedIsTrue
  <2> QED BY <2>3 DEF x
<1>8. served'.ids = at /\ served'.rings = at
      /\ \A b \in 1..NFull(at) : served'.rows[b] = Upto(at, b)
  BY <1>4, <1>6, <1>7
<1> QED BY <1>8 DEF ServedIsThePrefix

\* A failed write is not forgotten, and neither is a kill.
LEMMA BoundsAreSpent ==
  ASSUME CacheTypeOK, CacheTypeOK', CacheNext
  PROVE  /\ left'["crash"] <= left["crash"] /\ left'["fail"] <= left["fail"]
         /\ left["crash"] \in Nat /\ left["fail"] \in Nat
         /\ left["crash"] <= MaxCrash /\ left["fail"] <= MaxFail
         /\ left'["crash"] \in Nat /\ left'["fail"] \in Nat
<1>1. LeftOK /\ LeftOK'
  BY DEF CacheTypeOK
<1>2. /\ left["crash"] \in Nat /\ left["fail"] \in Nat
      /\ left["crash"] <= MaxCrash /\ left["fail"] <= MaxFail
      /\ left'["crash"] \in Nat /\ left'["fail"] \in Nat
  BY <1>1 DEF LeftOK
<1>3. left' = left \/ \E what \in {"publish", "fail", "refuse", "close", "crash"} : Spend(what)
  <2>1. ASSUME NEW ids \in Turns, StartPublish(ids) PROVE Spend("publish")
    BY <2>1 DEF StartPublish
  <2>2. ASSUME NEW ids \in Turns,
               Restore(ids) \/ RestoreDropsBlock(ids) \/ RestoreDropsCheckpoint(ids)
        PROVE left' = left
    BY <2>2 DEF Restore, RestoreDropsBlock, RestoreDropsCheckpoint
  <2>3. CASE SkipBlock \/ PublishBlock \/ PublishCheckpoint
    BY <2>3 DEF SkipBlock, PublishBlock, PublishCheckpoint
  <2>4. CASE RefuseBlock \/ RefuseCheckpoint
    BY <2>4 DEF RefuseBlock, RefuseCheckpoint, Refuse
  <2>5. CASE TakeJob \/ WriteRows \/ WriteHeader
    BY <2>5 DEF TakeJob, WriteRows, WriteHeader
  <2>6. CASE WriteFails
    BY <2>6 DEF WriteFails
  <2>7. CASE Close \/ Crash \/ Open
    BY <2>7 DEF Close, Crash, Open
  <2> QED BY <2>1, <2>2, <2>3, <2>4, <2>5, <2>6, <2>7 DEF CacheNext, PublishNext, WriterNext
<1>4. CASE left' = left
  BY <1>2, <1>4
<1>5. ASSUME NEW what \in {"publish", "fail", "refuse", "close", "crash"}, Spend(what)
      PROVE  left'["crash"] <= left["crash"] /\ left'["fail"] <= left["fail"]
  <2>1. /\ left'[what] = left[what] - 1 /\ left[what] \in Nat
        /\ \A x \in {"publish", "fail", "refuse", "close", "crash"} : x # what => left'[x] = left[x]
    BY <1>1, <1>5, SpendType
  <2> QED BY <1>2, <2>1
<1> QED BY <1>2, <1>3, <1>4, <1>5

\* What is served stays the prefix asked for.
ServedOK(fails) ==
  left["crash"] = MaxCrash /\ MaxFail - left["fail"] <= fails => ServedIsThePrefix

\* A restore serves the prefix; nothing else writes what was served.
LEMMA ServedStep ==
  ASSUME CacheTypeOK, CacheTypeOK', TruthOK, CacheNext, NEW fails \in {0, 1}, ServedOK(fails),
         fails = 0 \/ TokensTellPrefixes
  PROVE  ServedOK(fails)'
<1> SUFFICES ASSUME left'["crash"] = MaxCrash, MaxFail - left'["fail"] <= fails
             PROVE  ServedIsThePrefix'
  BY DEF ServedOK
<1>1. MaxCrash \in Nat /\ MaxFail \in Nat
  BY CacheAssumption
<1>2. left["crash"] = MaxCrash /\ MaxFail - left["fail"] <= fails /\ Mild
      /\ (fails = 0 => left["fail"] = MaxFail)
  BY <1>1, BoundsAreSpent DEF Mild
<1>3. ServedIsThePrefix
  BY <1>2 DEF ServedOK
<1>4. CASE served' = served
  BY <1>3, <1>4 DEF ServedIsThePrefix
<1>5. ASSUME Open PROVE ServedIsThePrefix'
  BY <1>5 DEF Open, Nothing, ServedIsThePrefix
<1>6. ASSUME NEW ids \in Turns, Restore(ids) PROVE ServedIsThePrefix'
  BY <1>2, <1>6, RestoreIsTrue
<1>7. served' = served \/ Open \/ \E ids \in Turns : Restore(ids)
  <2>1. ASSUME NEW ids \in Turns,
               StartPublish(ids) \/ RestoreDropsBlock(ids) \/ RestoreDropsCheckpoint(ids)
        PROVE served' = served
    BY <2>1 DEF StartPublish, RestoreDropsBlock, RestoreDropsCheckpoint
  <2>2. CASE PublishNext
    BY <2>2 DEF PublishNext, SkipBlock, PublishBlock, RefuseBlock, PublishCheckpoint,
                RefuseCheckpoint, Refuse
  <2>3. CASE WriterNext
    BY <2>3 DEF WriterNext, TakeJob, WriteRows, WriteHeader, WriteFails
  <2>4. CASE Close \/ Crash
    BY <2>4 DEF Close, Crash
  <2> QED BY <2>1, <2>2, <2>3, <2>4 DEF CacheNext
<1> QED BY <1>4, <1>5, <1>6, <1>7

-----------------------------------------------------------------------------
(* The eviction order.                                                     *)

\* No slot is claimed and in no bucket, and no block is held twice.
Sound(t) == (\A i \in Slots("blk") : t[i].used = t[i].linked) /\ HeldOnce(t)
\* The list owes nothing.
Settled(t, s) == \A i, j \in Slots("blk") : Below(t, i, j) => Before(s, j, i)

\* Between publishes the list owes the deep end nothing; a publish under way owes it only
\* the blocks of its own prompt.
OrderOK ==
  left["refuse"] = MaxRefuse =>
    /\ up => /\ Sound(tab["blk"])
             /\ ~pub.on => Settled(tab["blk"], lru["blk"])
             /\ pub.on => Ordered(tab["blk"], lru["blk"], pub.ids, NFull(pub.ids))
    /\ index.some => Sound(index.tab["blk"]) /\ Settled(index.tab["blk"], index.lru["blk"])

\* To owe nothing is to owe no block of any prompt.
LEMMA SettledIsOrdered ==
  ASSUME NEW t, NEW s, NEW ids PROVE Settled(t, s) <=> Ordered(t, s, ids, 0)
<1>1. \A c \in 1..0 : FALSE
  OBVIOUS
<1> QED BY <1>1 DEF Settled, Ordered

\* A list that owes nothing is a list publish may start from.
LEMMA SettledIsEnough ==
  ASSUME NEW t, NEW s, NEW ids, NEW b, Settled(t, s) PROVE Ordered(t, s, ids, b)
BY DEF Settled, Ordered

\* The invariant gives the property.
LEMMA OrderTold == CacheTypeOK /\ OrderOK => DeepEndGoesFirst
<1> SUFFICES ASSUME OrderOK, up, ~pub.on, left["refuse"] = MaxRefuse,
                    NEW i \in Slots("blk"), NEW j \in Slots("blk"),
                    tab["blk"][i].linked, tab["blk"][j].linked,
                    IsStrictPrefix(tab["blk"][i].key, tab["blk"][j].key), tab["blk"][i].key # NoKey
             PROVE  Before(lru["blk"], j, i)
  BY DEF DeepEndGoesFirst
<1>1. Below(tab["blk"], i, j)
  BY DEF Below
<1> QED BY <1>1 DEF OrderOK, Settled

\* A block is claimed, keyed and touched.
LEMMA OrderPublished ==
  ASSUME CacheTypeOK, OrderOK, PublishBlock, left["refuse"] = MaxRefuse
  PROVE  Sound(tab["blk"])' /\ Ordered(tab'["blk"], lru'["blk"], pub.ids, NFull(pub.ids))
<1> DEFINE ids == pub.ids
<1> DEFINE key == Upto(ids, pub.b)
<1> DEFINE i == Head(lru["blk"])
<1> DEFINE t == tab["blk"]
<1> DEFINE u == tab'["blk"]
<1> DEFINE l == lru["blk"]
<1> DEFINE n == NSlots["blk"]
<1>1. up /\ pub.on /\ Held("blk", key) = {} /\ TabOK(tab) /\ "blk" \in Kind /\ ListsOK(lru)
  BY DEF PublishBlock, InBlocks, CacheTypeOK, Kind
<1>2. Sound(t) /\ Ordered(t, l, ids, NFull(ids)) /\ BlockKeys(t)
  BY <1>1, TabBlocks DEF OrderOK
<1>3. ids \in Prompts /\ pub.b \in 1..NFull(ids) /\ NFull(ids) \in Nat /\ IsKey("blk", key)
  BY PublishBlockStep
<1>4. /\ i \in Slots("blk")
      /\ \A j \in Slots("blk") :
           u[j] = IF j = i THEN [used |-> TRUE, linked |-> TRUE, key |-> key] ELSE t[j]
      /\ lru'["blk"] = Touch(l, i)
  <2>1. Enqueue("blk", key, lru) /\ writer' = writer /\ i = Head(lru["blk"])
    BY PublishBlockStep
  <2> HIDE DEF i, key
  <2> QED BY ONLY CacheTypeOK, <1>1, <1>3, <2>1, EnqueueStep
<1> DEFINE m == Touch(l, i)
<1>5. n \in Nat \ {0} /\ Slots("blk") = 1..n /\ l \in List(n)
  BY <1>1, CacheAssumption DEF Slots, ListsOK
<1>6. /\ \A e, f \in Slots("blk") : e # i /\ f # i /\ Before(l, e, f) => Before(m, e, f)
      /\ \A e \in Slots("blk") : e # i => Before(m, e, i)
  <2> HIDE DEF i, l, n
  <2> QED BY <1>4, <1>5, TouchFacts
<1> HIDE DEF i, m
<1>7. u[i].linked /\ u[i].used /\ u[i].key = key
  BY <1>4
<1>8. \A j \in Slots("blk") : j # i => u[j] = t[j]
  BY <1>4
<1> HIDE DEF t, u, l, ids, key
<1>9. \A j \in Slots("blk") : ~(t[j].linked /\ t[j].key = key)
  BY <1>1 DEF Held, t
<1>10. Sound(u)
  <2>1. \A j \in Slots("blk") : u[j].used = u[j].linked
    <3> TAKE j \in Slots("blk")
    <3>1. CASE j = i
      BY <1>7, <3>1
    <3>2. CASE j # i
      BY <1>2, <1>8, <3>2 DEF Sound
    <3> QED BY <3>1, <3>2
  <2>2. ASSUME NEW x \in Slots("blk"), NEW y \in Slots("blk"), u[x].linked, u[y].linked,
               u[x].key = u[y].key, u[x].key # NoKey
        PROVE  x = y
    <3>1. CASE x = i \/ y = i
      BY <1>7, <1>8, <1>9, <2>2, <3>1
    <3>2. CASE x # i /\ y # i
      BY <1>2, <1>8, <2>2, <3>2 DEF Sound, HeldOnce
    <3> QED BY <3>1, <3>2
  <2> QED BY <2>1, <2>2 DEF Sound, HeldOnce
<1>11. ASSUME NEW x \in Slots("blk"), NEW y \in Slots("blk"), Below(u, x, y)
       PROVE  Before(m, y, x) \/ \E c \in 1..NFull(ids) : u[x].key = Upto(ids, c)
  <2>1. CASE x = i
    BY <1>3, <1>7, <2>1 DEF key
  <2>2. CASE x # i /\ y = i
    <3>1. t[x].key # NoKey /\ IsStrictPrefix(t[x].key, Upto(ids, pub.b)) /\ u[x] = t[x]
      BY <1>7, <1>8, <1>11, <2>2 DEF Below, key
    <3>2. PICK z \in Prompts : \E d \in 1..NFull(z) : t[x].key = Upto(z, d)
      BY <1>2, <3>1 DEF BlockKeys
    <3>3. PICK d \in 1..NFull(z) : t[x].key = Upto(z, d)
      BY <3>2
    <3>4. d \in 1..(pub.b - 1) /\ Upto(z, d) = Upto(ids, d)
      <4>1. IsStrictPrefix(Upto(z, d), Upto(ids, pub.b))
        BY <3>1, <3>3
      <4> QED BY ONLY <1>3, z \in Prompts, d \in 1..NFull(z), <4>1, BlockBelow
    <3>5. d \in 1..NFull(ids)
      BY <1>3, <3>4
    <3> QED BY <3>1, <3>3, <3>4, <3>5
  <2>3. CASE x # i /\ y # i
    <3>1. Below(t, x, y) /\ u[x] = t[x]
      BY <1>8, <1>11, <2>3 DEF Below
    <3> QED BY <1>2, <1>6, <2>3, <3>1 DEF Ordered
  <2> QED BY <2>1, <2>2, <2>3
<1>12. Ordered(u, m, ids, NFull(ids))
  BY <1>11 DEF Ordered
<1> QED BY <1>4, <1>10, <1>12 DEF u, m, l, ids

\* A prompt touched from its deep end leaves nothing owed.
LEMMA OrderTouched ==
  ASSUME CacheTypeOK, NEW ids \in Prompts, Sound(tab["blk"]),
         Ordered(tab["blk"], lru["blk"], ids, NFull(ids))
  PROVE  Settled(tab["blk"], TouchPrompt(lru["blk"], ids))
<1>1. lru["blk"] \in BlockList /\ BlockKeys(tab["blk"]) /\ HeldOnce(tab["blk"])
  BY TabBlocks DEF CacheTypeOK, ListsOK, BlockList, Kind, Sound
<1>2. Ordered(tab["blk"], TouchPrompt(lru["blk"], ids), ids, 0)
  BY <1>1, TouchPromptFacts
<1> QED BY <1>2, SettledIsOrdered

\* A block is dropped.
LEMMA OrderDropped ==
  ASSUME CacheTypeOK, NEW i \in Slots("blk"), Sound(tab["blk"]), Settled(tab["blk"], lru["blk"]),
         \A j \in Slots("blk") : tab'["blk"][j] = IF j = i THEN Dropped ELSE tab["blk"][j],
         lru'["blk"] = ToFront(lru["blk"], i)
  PROVE  Sound(tab["blk"])' /\ Settled(tab'["blk"], lru'["blk"])
<1> DEFINE t == tab["blk"]
<1> DEFINE u == tab'["blk"]
<1> DEFINE l == lru["blk"]
<1> DEFINE m == ToFront(l, i)
<1> DEFINE n == NSlots["blk"]
<1>1. n \in Nat \ {0} /\ Slots("blk") = 1..n /\ l \in List(n)
  BY CacheAssumption DEF Slots, ListsOK, CacheTypeOK, Kind
<1>2. \A e, f \in Slots("blk") : e # i /\ f # i /\ Before(l, e, f) => Before(m, e, f)
  <2> HIDE DEF l, n
  <2> QED BY <1>1, ToFrontFacts
<1>3. u[i].linked = FALSE /\ u[i].used = FALSE
  BY DEF Dropped
<1>4. \A j \in Slots("blk") : j # i => u[j] = t[j]
  OBVIOUS
<1>5. Sound(t) /\ Settled(t, l) /\ lru'["blk"] = m
  OBVIOUS
<1> HIDE DEF t, u, l, m
<1>6. \A j \in Slots("blk") : u[j].used = u[j].linked
  <2> TAKE j \in Slots("blk")
  <2>1. CASE j = i
    BY <1>3, <2>1
  <2>2. CASE j # i
    BY <1>4, <1>5, <2>2 DEF Sound
  <2> QED BY <2>1, <2>2
<1>7. HeldOnce(u)
  BY <1>3, <1>4, <1>5 DEF Sound, HeldOnce
<1>8. Settled(u, m)
  <2> SUFFICES ASSUME NEW x \in Slots("blk"), NEW y \in Slots("blk"), Below(u, x, y)
               PROVE  Before(m, y, x)
    BY DEF Settled
  <2>1. x # i /\ y # i
    BY <1>3 DEF Below
  <2>2. Below(t, x, y)
    BY <1>4, <2>1 DEF Below
  <2> QED BY <1>2, <1>5, <2>1, <2>2 DEF Settled
<1> QED BY <1>5, <1>6, <1>7, <1>8 DEF Sound, u

\* A new store owes nothing.
LEMMA EmptyIsSettled ==
  ASSUME NEW s PROVE Sound(EmptyTab["blk"]) /\ Settled(EmptyTab["blk"], s)
<1>1. \A i \in Slots("blk") : EmptyTab["blk"][i].linked = FALSE /\ EmptyTab["blk"][i].used = FALSE
  BY DEF EmptyTab, Kind
<1> QED BY <1>1 DEF Sound, HeldOnce, Settled, Below

\* A step that leaves the tables alone.
LEMMA OrderKept ==
  ASSUME OrderOK, UNCHANGED <<tab, lru, index, up, pub>>, left'["refuse"] = left["refuse"]
  PROVE  OrderOK'
BY DEF OrderOK, Sound, Settled, Ordered, HeldOnce, Below

\* Restores and publishes.
LEMMA OrderStep ==
  ASSUME CacheTypeOK, CacheTypeOK', DownOK, OrderOK, CacheNext PROVE OrderOK'
<1>0. LeftOK /\ MaxRefuse \in Nat
  BY CacheAssumption DEF CacheTypeOK
<1>1. ASSUME NEW ids \in Turns, StartPublish(ids) PROVE OrderOK'
  <2>1. /\ UNCHANGED <<tab, lru, index, up>> /\ ~pub.on /\ up /\ Spend("publish")
        /\ pub'.on /\ pub'.ids = ids
    BY <1>1 DEF StartPublish
  <2>2. left'["refuse"] = left["refuse"]
    BY <1>0, <2>1, SpendType
  <2> SUFFICES ASSUME left["refuse"] = MaxRefuse PROVE OrderOK'
    BY <2>2 DEF OrderOK
  <2>3. Sound(tab["blk"]) /\ Settled(tab["blk"], lru["blk"])
        /\ (index.some => Sound(index.tab["blk"]) /\ Settled(index.tab["blk"], index.lru["blk"]))
    BY <2>1 DEF OrderOK
  <2>4. Ordered(tab["blk"], lru["blk"], ids, NFull(ids))
    BY <2>3, SettledIsEnough
  <2> QED BY <2>1, <2>3, <2>4 DEF OrderOK
<1>2. ASSUME NEW ids \in Turns, Restore(ids) PROVE OrderOK'
  <2> DEFINE at == SubSeq(ids, 1, Lookup(ids))
  <2>1. UNCHANGED <<tab, index, up, pub, left>> /\ ~pub.on /\ up
    BY <1>2 DEF Restore, CanRestore
  <2>2. lru'["blk"] = TouchPrompt(lru["blk"], at) /\ at \in Prompts
    BY <1>2, RestoreStep
  <2> HIDE DEF at
  <2> SUFFICES ASSUME left["refuse"] = MaxRefuse PROVE OrderOK'
    BY <2>1 DEF OrderOK
  <2>3. Sound(tab["blk"]) /\ Settled(tab["blk"], lru["blk"])
        /\ (index.some => Sound(index.tab["blk"]) /\ Settled(index.tab["blk"], index.lru["blk"]))
    BY <2>1 DEF OrderOK
  <2>4. Settled(tab["blk"], lru'["blk"])
    BY <2>2, <2>3, SettledIsEnough, OrderTouched
  <2> QED BY <2>1, <2>3, <2>4 DEF OrderOK
<1>3. ASSUME NEW ids \in Turns, RestoreDropsBlock(ids) PROVE OrderOK'
  <2>1. UNCHANGED <<index, up, pub, left>> /\ ~pub.on /\ up
    BY <1>3 DEF RestoreDropsBlock, CanRestore
  <2>2. PICK i \in Slots("blk") :
          /\ \A m \in Kind : \A j \in Slots(m) :
               tab'[m][j] = IF m = "blk" /\ j = i THEN Dropped ELSE tab[m][j]
          /\ lru'["blk"] = ToFront(lru["blk"], i)
    BY <1>3, DropsBlockStep
  <2> SUFFICES ASSUME left["refuse"] = MaxRefuse PROVE OrderOK'
    BY <2>1 DEF OrderOK
  <2>3. Sound(tab["blk"]) /\ Settled(tab["blk"], lru["blk"])
        /\ (index.some => Sound(index.tab["blk"]) /\ Settled(index.tab["blk"], index.lru["blk"]))
    BY <2>1 DEF OrderOK
  <2>4. \A j \in Slots("blk") : tab'["blk"][j] = IF j = i THEN Dropped ELSE tab["blk"][j]
    BY <2>2 DEF Kind
  <2>5. Sound(tab["blk"])' /\ Settled(tab'["blk"], lru'["blk"])
    BY <2>2, <2>3, <2>4, OrderDropped
  <2> QED BY <2>1, <2>3, <2>5 DEF OrderOK
<1>4. ASSUME NEW ids \in Turns, RestoreDropsCheckpoint(ids) PROVE OrderOK'
  <2>1. UNCHANGED <<index, up, pub, left>> /\ ~pub.on /\ up
    BY <1>4 DEF RestoreDropsCheckpoint, CanRestore
  <2>2. PICK i \in Slots("ck") :
          /\ \A m \in Kind : \A j \in Slots(m) :
               tab'[m][j] = IF m = "ck" /\ j = i THEN Dropped ELSE tab[m][j]
          /\ lru'["blk"] = lru["blk"]
    BY <1>4, DropsCheckpointStep
  <2>3. tab'["blk"] = tab["blk"]
    <3>1. \A j \in Slots("blk") : tab'["blk"][j] = tab["blk"][j]
      BY <2>2 DEF Kind
    <3>2. tab["blk"] \in [Slots("blk") -> Entry] /\ tab'["blk"] \in [Slots("blk") -> Entry]
      BY DEF CacheTypeOK, TabOK, Kind
    <3> QED BY <3>1, <3>2
  <2> QED BY <2>1, <2>2, <2>3 DEF OrderOK
<1>5. ASSUME SkipBlock PROVE OrderOK'
  <2>1. UNCHANGED <<tab, lru, index, up, left>> /\ pub.on /\ pub' = [pub EXCEPT !.b = pub.b + 1]
    BY <1>5 DEF SkipBlock, InBlocks
  <2>2. pub \in [on : {TRUE}, ids : Turns, b : Nat \ {0}]
    BY <2>1, PublishIsTyped
  <2>3. pub'.on = pub.on /\ pub'.ids = pub.ids
    BY <2>1, <2>2
  <2> QED BY <2>1, <2>3 DEF OrderOK
<1>6. ASSUME PublishBlock PROVE OrderOK'
  <2>1. UNCHANGED <<index, up, left>> /\ up
    BY <1>6 DEF PublishBlock, InBlocks
  <2>2. pub'.on /\ pub'.ids = pub.ids
    BY <1>6, PublishBlockStep
  <2> SUFFICES ASSUME left["refuse"] = MaxRefuse PROVE OrderOK'
    BY <2>1 DEF OrderOK
  <2>3. Sound(tab["blk"])' /\ Ordered(tab'["blk"], lru'["blk"], pub.ids, NFull(pub.ids))
    BY <1>6, OrderPublished
  <2>4. index.some => Sound(index.tab["blk"]) /\ Settled(index.tab["blk"], index.lru["blk"])
    BY DEF OrderOK
  <2> QED BY <2>1, <2>2, <2>3, <2>4 DEF OrderOK
<1>7. ASSUME PublishCheckpoint PROVE OrderOK'
  <2> DEFINE lists == [lru EXCEPT !["blk"] = TouchPrompt(lru["blk"], pub.ids)]
  <2>1. UNCHANGED <<index, up, left>> /\ up /\ pub.on
    BY <1>7 DEF PublishCheckpoint, InCheckpoint
  <2>2. /\ IsKey("ck", pub.ids) /\ ListsOK(lists) /\ "ck" \in Kind
        /\ Enqueue("ck", pub.ids, lists) /\ writer' = writer /\ pub.ids \in Prompts
        /\ lists["blk"] = TouchPrompt(lru["blk"], pub.ids) /\ pub' = NoPublish
    <3> HIDE DEF lists
    <3> QED BY <1>7, PublishCheckpointStep DEF lists
  <2> HIDE DEF lists
  <2>3. /\ \A m \in Kind : \A j \in Slots(m) :
             tab'[m][j] = IF m = "ck" /\ j = Head(lists["ck"])
                          THEN [used |-> TRUE, linked |-> TRUE, key |-> pub.ids] ELSE tab[m][j]
        /\ \A m \in Kind : lru'[m] = IF m = "ck" THEN Touch(lists["ck"], Head(lists["ck"]))
                                                 ELSE lists[m]
    BY <2>2, EnqueueStep
  <2>4. lru'["blk"] = TouchPrompt(lru["blk"], pub.ids)
    BY <2>2, <2>3 DEF Kind
  <2>5. tab'["blk"] = tab["blk"]
    <3>1. \A j \in Slots("blk") : tab'["blk"][j] = tab["blk"][j]
      BY <2>3 DEF Kind
    <3>2. tab["blk"] \in [Slots("blk") -> Entry] /\ tab'["blk"] \in [Slots("blk") -> Entry]
      BY DEF CacheTypeOK, TabOK, Kind
    <3> QED BY <3>1, <3>2
  <2>6. ~pub'.on
    BY <2>2 DEF NoPublish
  <2> SUFFICES ASSUME left["refuse"] = MaxRefuse PROVE OrderOK'
    BY <2>1 DEF OrderOK
  <2>7. Sound(tab["blk"]) /\ Ordered(tab["blk"], lru["blk"], pub.ids, NFull(pub.ids))
        /\ (index.some => Sound(index.tab["blk"]) /\ Settled(index.tab["blk"], index.lru["blk"]))
    BY <2>1 DEF OrderOK
  <2>8. Settled(tab["blk"], lru'["blk"])
    BY <2>2, <2>4, <2>7, OrderTouched
  <2> QED BY <2>1, <2>5, <2>6, <2>7, <2>8 DEF OrderOK
<1>8. CASE RefuseBlock \/ RefuseCheckpoint
  <2>1. PICK k \in Kind : Refuse(k)
    BY <1>8 DEF RefuseBlock, RefuseCheckpoint, Kind
  <2>2. left'["refuse"] # MaxRefuse
    BY <2>1, RefuseStep
  <2> QED BY <2>2 DEF OrderOK
<1>9. CASE TakeJob \/ WriteRows \/ WriteHeader
  <2>1. UNCHANGED <<tab, lru, index, up, pub, left>>
    BY <1>9 DEF TakeJob, WriteRows, WriteHeader
  <2> QED BY <2>1, OrderKept
<1>10. ASSUME WriteFails PROVE OrderOK'
  <2>1. UNCHANGED <<tab, lru, index, up, pub>> /\ left'["refuse"] = left["refuse"]
    BY <1>10, WriteFailsStep DEF WriteFails
  <2> QED BY <2>1, OrderKept
<1>11. ASSUME Close PROVE OrderOK'
  <2>1. /\ UNCHANGED <<tab, lru, pub>> /\ up /\ ~up' /\ ~pub.on /\ Spend("close")
        /\ index' = [some |-> TRUE, tab |-> tab, lru |-> lru]
    BY <1>11 DEF Close
  <2>2. left'["refuse"] = left["refuse"]
    BY <1>0, <2>1, SpendType
  <2>3. index'.tab = tab /\ index'.lru = lru
    BY <2>1
  <2> SUFFICES ASSUME left["refuse"] = MaxRefuse PROVE OrderOK'
    BY <2>2 DEF OrderOK
  <2>4. Sound(tab["blk"]) /\ Settled(tab["blk"], lru["blk"])
    BY <2>1 DEF OrderOK
  <2> QED BY <2>1, <2>3, <2>4 DEF OrderOK
<1>12. ASSUME Crash PROVE OrderOK'
  <2>1. index' = index /\ ~up' /\ Spend("crash")
    BY <1>12 DEF Crash
  <2>2. left'["refuse"] = left["refuse"]
    BY <1>0, <2>1, SpendType
  <2> QED BY <2>1, <2>2 DEF OrderOK
<1>13. ASSUME Open PROVE OrderOK'
  <2>1. UNCHANGED <<index, pub, left>> /\ up' /\ ~up
    BY <1>13 DEF Open
  <2>2. ~pub'.on
    BY <2>1 DEF DownOK, NoPublish
  <2> SUFFICES ASSUME left["refuse"] = MaxRefuse PROVE OrderOK'
    BY <2>1 DEF OrderOK
  <2>3. CASE index.some
    <3>1. /\ TabOK(index.tab) /\ lru' = index.lru
          /\ \A k \in Kind : \A i \in Slots(k) :
               /\ tab'[k][i].key = index.tab[k][i].key
               /\ tab'[k][i].linked = index.tab[k][i].used
               /\ tab'[k][i].used = index.tab[k][i].used
      BY <1>13, <2>3, OpenStep
    <3>2. Sound(index.tab["blk"]) /\ Settled(index.tab["blk"], index.lru["blk"])
      BY <2>3 DEF OrderOK
    <3>3. \A i \in Slots("blk") : /\ tab'["blk"][i].key = index.tab["blk"][i].key
                                  /\ tab'["blk"][i].linked = index.tab["blk"][i].linked
                                  /\ tab'["blk"][i].used = tab'["blk"][i].linked
      BY <3>1, <3>2 DEF Sound, Kind
    <3>4. Sound(tab'["blk"])
      BY <3>2, <3>3 DEF Sound, HeldOnce
    <3>5. Settled(tab'["blk"], lru'["blk"])
      BY <3>1, <3>2, <3>3 DEF Settled, Below
    <3> QED BY <2>1, <2>2, <3>2, <3>4, <3>5 DEF OrderOK
  <2>4. CASE ~index.some
    <3>1. tab' = EmptyTab
      BY <1>13, <2>4, OpenStep
    <3>2. Sound(tab'["blk"]) /\ Settled(tab'["blk"], lru'["blk"])
      BY <3>1, EmptyIsSettled
    <3> QED BY <2>1, <2>2, <2>4, <3>2 DEF OrderOK
  <2> QED BY <2>3, <2>4
<1> QED BY <1>1, <1>2, <1>3, <1>4, <1>5, <1>6, <1>7, <1>8, <1>9, <1>10, <1>11, <1>12, <1>13
        DEF CacheNext, PublishNext, WriterNext

-----------------------------------------------------------------------------
(* The theorems.                                                           *)

\* The inductive invariant.
CacheInv == CacheTypeOK /\ DownOK /\ TruthOK /\ OrderOK

\* It holds when the store is created.
LEMMA CacheInit_Inv == CacheInit => CacheInv
<1> SUFFICES ASSUME CacheInit PROVE CacheInv
  OBVIOUS
<1>1. CacheTypeOK
  BY CacheInitType
<1>2. DownOK
  BY DEF CacheInit, DownOK
<1>3. TruthOK
  <2> SUFFICES ASSUME NEW k \in Kind, NEW i \in Slots(k)
               PROVE  FileTrue(k, i) /\ (tab[k][i].key # NoKey => SlotTrue(k, i))
    BY DEF TruthOK
  <2>1. tab[k][i].key = NoKey /\ disk[k][i] = [hdr |-> NoKey, rows |-> NoKey]
    BY DEF CacheInit, EmptyTab
  <2>2. writer.ph = "idle"
    BY DEF CacheInit, Idle
  <2> QED BY <2>1, <2>2 DEF FileTrue
<1>4. OrderOK
  BY EmptyIsSettled DEF CacheInit, OrderOK, NoPublish, NoIndex
<1> QED BY <1>1, <1>2, <1>3, <1>4 DEF CacheInv

\* It is about the variables alone.
LEMMA CacheInv_Stutter == ASSUME CacheInv, UNCHANGED vars PROVE CacheInv'
<1>1. /\ UNCHANGED <<tab, lru, index, up, pub, stage, jobs, writer, disk, left>>
      /\ CacheTypeOK /\ DownOK /\ TruthOK /\ OrderOK
  BY DEF CacheInv, vars
<1>2. CacheTypeOK'
  BY <1>1, TypeUnchanged
<1>3. DownOK'
  BY <1>1 DEF DownOK
<1>4. TruthOK'
  BY <1>1, TruthKept
<1>5. OrderOK'
  BY <1>1, OrderKept
<1> QED BY <1>2, <1>3, <1>4, <1>5 DEF CacheInv

\* No step of engine, writer or process breaks it.
LEMMA CacheInv_Next == ASSUME CacheInv, CacheNext PROVE CacheInv'
BY TypeStep, TruthStep, OrderStep DEF CacheInv

\* Types, what is under way while the store is closed, slots and files, eviction order:
\* the invariant holds in every reachable state, for any prompts, slots and buffers.
THEOREM CacheInvariance == CacheSpec => []CacheInv
<1>1. CacheInv /\ [CacheNext]_vars => CacheInv'
  BY CacheInv_Stutter, CacheInv_Next
<1> QED BY CacheInit_Inv, <1>1, PTL DEF CacheSpec

\* While no write has failed and the process has not died, the slot a key names in the
\* index holds that key's header and rows, or will once the writer has drained its queue.
THEOREM CacheTellsTheTruth == CacheSpec => []IndexTellsTheTruth
<1>1. CacheInv => IndexTellsTheTruth
  BY TruthTold DEF CacheInv
<1> QED BY <1>1, CacheInvariance, PTL

\* Unless the device refused a transfer, a held block is evicted before the blocks it
\* extends: publish and restore touch a prompt deepest block first.
THEOREM CacheAgesFromTheDeepEnd == CacheSpec => []DeepEndGoesFirst
<1>1. CacheInv => DeepEndGoesFirst
  BY OrderTold DEF CacheInv
<1> QED BY <1>1, CacheInvariance, PTL

\* What was served is right as long as no write, or only one, came up short.
LEMMA ServedInductive ==
  ASSUME NEW fails \in {0, 1}, fails = 0 \/ TokensTellPrefixes
  PROVE  /\ CacheInit => ServedOK(fails)
         /\ CacheInv /\ CacheInv' /\ ServedOK(fails) /\ [CacheNext]_vars => ServedOK(fails)'
<1>1. CacheInit => ServedOK(fails)
  BY DEF CacheInit, ServedOK, ServedIsThePrefix, Nothing
<1>2. ASSUME CacheInv, CacheInv', ServedOK(fails), CacheNext PROVE ServedOK(fails)'
  BY <1>2, ServedStep DEF CacheInv
<1>3. ASSUME ServedOK(fails), UNCHANGED vars PROVE ServedOK(fails)'
  BY <1>3 DEF ServedOK, ServedIsThePrefix, vars
<1> QED BY <1>1, <1>2, <1>3

\* A process that was not killed, and of whose writes one at most came up short, restores
\* only the rows of the prefix asked for; with a short write, if no two keys differ only
\* in the blocks below, which no header records.
THEOREM CacheServesThePrefix ==
  ASSUME TokensTellPrefixes PROVE CacheSpec => []ServedUnlessKilled
<1>1. ServedOK(1) <=> ServedUnlessKilled
  BY DEF ServedOK, ServedUnlessKilled
<1>2. /\ CacheInit => ServedOK(1)
      /\ CacheInv /\ CacheInv' /\ ServedOK(1) /\ [CacheNext]_vars => ServedOK(1)'
  BY ServedInductive
<1> QED BY <1>1, <1>2, CacheInvariance, PTL DEF CacheSpec

\* Before a write has come up short that needs no such condition on the prompts: the
\* index alone leads to the right slot.
THEOREM CacheServesUntilAWriteFails ==
  CacheSpec => [](left["crash"] = MaxCrash /\ left["fail"] = MaxFail => ServedIsThePrefix)
<1>1. ServedOK(0) => (left["crash"] = MaxCrash /\ left["fail"] = MaxFail => ServedIsThePrefix)
  BY CacheAssumption DEF ServedOK
<1>2. /\ CacheInit => ServedOK(0)
      /\ CacheInv /\ CacheInv' /\ ServedOK(0) /\ [CacheNext]_vars => ServedOK(0)'
  BY ServedInductive
<1> QED BY <1>1, <1>2, CacheInvariance, PTL DEF CacheSpec
=============================================================================
