---------------------------- MODULE Library_proofs ----------------------------
(***************************************************************************)
(* Theorems about the C libraries: what their functions answer is right for*)
(* every argument (Library), and what the kernel's malloc and free keep true*)
(* (KernelAllocator, whose Init, Next and Spec are the ones meant by these *)
(* names here).                                                            *)
(*                                                                         *)
(* What a loop or a recursive definition gives is a function that CHOOSE   *)
(* picks; that there is one to pick, and what it gives, is proved by       *)
(* well-founded induction on a measure, in the first part.  The provers    *)
(* cannot instantiate a theorem whose parameter is an operator, so each is *)
(* stated of sets and of functions.                                        *)
(***************************************************************************)
EXTENDS Library, KernelAllocator, ChunkList_proofs, WellFoundedInduction, SequenceTheorems

(***************************************************************************)
(* Induction and recursion.                                                *)
(***************************************************************************)

(* A set of naturals that is not empty has a least element.                 *)
LEMMA LeastNatural ==
  ASSUME NEW T, T \subseteq Nat, T # {}
  PROVE  \E m \in T : \A k \in T : m <= k
<1>1. \E m \in T : \A k \in T : ~ (<<k, m>> \in OpToRel(<, Nat))
  BY NatLessThanWellFounded, WFMin
<1>2. PICK m \in T : \A k \in T : ~ (<<k, m>> \in OpToRel(<, Nat))
  BY <1>1
<1>3. ASSUME NEW k \in T PROVE m <= k
  <2>1. ~ (<<k, m>> \in OpToRel(<, Nat))
    BY <1>2
  <2>2. ~ (k < m)
    BY <2>1 DEF OpToRel
  <2> QED
    BY <2>2
<1> QED
  BY <1>3

(* A set that contains each natural all smaller ones of which it contains   *)
(* holds all naturals.                                                      *)
LEMMA Induction ==
  ASSUME NEW T, \A n \in Nat : (\A m \in Nat : m < n => m \in T) => n \in T
  PROVE  \A n \in Nat : n \in T
<1> DEFINE U == {n \in Nat : n \notin T}
<1>1. SUFFICES ASSUME U # {} PROVE FALSE
  OBVIOUS
<1>2. PICK n \in U : \A k \in U : n <= k
  BY <1>1, LeastNatural
<1>3. \A m \in Nat : m < n => m \in T
  BY <1>2
<1> QED
  BY <1>3


(* D is the body of a recursive definition of a function from A to S: what  *)
(* the body gives at a depends only on where the measure mu is smaller.     *)
Grows(D, A, S, mu) ==
  /\ mu \in [A -> Nat] /\ D \in [[A -> S] -> [A -> S]]
  /\ \A f, g \in [A -> S], a \in A :
       (\A b \in A : mu[b] < mu[a] => f[b] = g[b]) => D[f][a] = D[g][a]

(* f does what the body says wherever the measure is less than n.           *)
Follows(f, D, A, mu, n) == \A a \in A : mu[a] < n => f[a] = D[f][a]

(* The same for any set, by a measure of its elements.                      *)
LEMMA MeasureInduction ==
  ASSUME NEW A, NEW mu \in [A -> Nat], NEW T,
         \A a \in A : (\A b \in A : mu[b] < mu[a] => b \in T) => a \in T
  PROVE  \A a \in A : a \in T
<1> DEFINE U == {n \in Nat : \A a \in A : mu[a] = n => a \in T}
<1>1. ASSUME NEW n \in Nat, \A m \in Nat : m < n => m \in U PROVE n \in U
  <2>1. ASSUME NEW a \in A, mu[a] = n PROVE a \in T
    <3>1. \A b \in A : mu[b] < mu[a] => b \in T
      BY <1>1, <2>1
    <3> QED
      BY <3>1
  <2> QED
    BY <2>1
<1>2. \A n \in Nat : n \in U
  BY <1>1, Induction
<1> QED
  BY <1>2

(* Two functions that follow the body up to n are the same there.           *)
LEMMA FollowersAgree ==
  ASSUME NEW A, NEW S, NEW mu, NEW D, Grows(D, A, S, mu), NEW f \in [A -> S], NEW g \in [A -> S],
         NEW n \in Nat, Follows(f, D, A, mu, n), Follows(g, D, A, mu, n)
  PROVE  \A a \in A : mu[a] < n => f[a] = g[a]
<1> DEFINE T == {a \in A : mu[a] < n => f[a] = g[a]}
<1>1. mu \in [A -> Nat]
  BY DEF Grows
<1>2. ASSUME NEW a \in A, \A b \in A : mu[b] < mu[a] => b \in T PROVE a \in T
  <2>1. SUFFICES ASSUME mu[a] < n PROVE f[a] = g[a]
    OBVIOUS
  <2>2. \A b \in A : mu[b] < mu[a] => f[b] = g[b]
    BY <1>1, <1>2, <2>1
  <2>3. D[f][a] = D[g][a]
    BY <2>2 DEF Grows
  <2> QED
    BY <2>1, <2>3 DEF Follows
<1>3. \A a \in A : a \in T
  <2> HIDE DEF T
  <2> QED
    BY <1>1, <1>2, MeasureInduction
<1> QED
  BY <1>3

(* There is a function that follows the body up to any n.                   *)
LEMMA FollowersExist ==
  ASSUME NEW A, NEW S, S # {}, NEW mu, NEW D, Grows(D, A, S, mu)
  PROVE  \A n \in Nat : \E f \in [A -> S] : Follows(f, D, A, mu, n)
<1> DEFINE T == {n \in Nat : \E f \in [A -> S] : Follows(f, D, A, mu, n)}
<1>0. mu \in [A -> Nat]
  BY DEF Grows
<1>1. ASSUME NEW n \in Nat, \A m \in Nat : m < n => m \in T PROVE n \in T
  <2>1. CASE n = 0
    <3>1. PICK s \in S : TRUE
      OBVIOUS
    <3>2. [a \in A |-> s] \in [A -> S]
      BY <3>1
    <3>3. Follows([a \in A |-> s], D, A, mu, n)
      BY <1>0, <2>1 DEF Follows
    <3> QED
      BY <3>2, <3>3
  <2>2. CASE n > 0
    <3>1. n - 1 \in Nat /\ n - 1 < n
      BY <2>2
    <3>2. PICK f \in [A -> S] : Follows(f, D, A, mu, n - 1)
      BY <1>1, <3>1
    <3>3. D[f] \in [A -> S]
      BY DEF Grows
    <3>4. \A a \in A : mu[a] < n - 1 => f[a] = D[f][a]
      BY <3>2 DEF Follows
    <3>5. ASSUME NEW a \in A, mu[a] < n PROVE D[f][a] = D[D[f]][a]
      <4>1. \A b \in A : mu[b] < mu[a] => f[b] = D[f][b]
        BY <1>0, <3>1, <3>4, <3>5
      <4> QED
        BY <3>3, <4>1 DEF Grows
    <3>6. Follows(D[f], D, A, mu, n)
      BY <3>5 DEF Follows
    <3> QED
      BY <3>3, <3>6
  <2> QED
    BY <2>1, <2>2
<1>2. \A n \in Nat : n \in T
  BY <1>1, Induction
<1> QED
  BY <1>2

(* A recursive definition whose measure decreases defines a function.       *)
LEMMA Recursion ==
  \A A, S, mu, D : S # {} /\ Grows(D, A, S, mu) => \E f \in [A -> S] : f = D[f]
<1> SUFFICES ASSUME NEW A, NEW S, S # {}, NEW mu, NEW D, Grows(D, A, S, mu)
             PROVE  \E f \in [A -> S] : f = D[f]
  OBVIOUS
<1> DEFINE G(a) == CHOOSE g \in [A -> S] : Follows(g, D, A, mu, mu[a] + 1)
           f == [a \in A |-> G(a)[a]]
<1>0. \A a \in A : mu[a] \in Nat /\ mu[a] + 1 \in Nat /\ mu[a] < mu[a] + 1
  BY DEF Grows
<1>1. ASSUME NEW a \in A PROVE G(a) \in [A -> S] /\ Follows(G(a), D, A, mu, mu[a] + 1)
  <2>1. \E g \in [A -> S] : Follows(g, D, A, mu, mu[a] + 1)
    BY <1>0, FollowersExist
  <2> QED
    BY <2>1
<1> HIDE DEF G
<1>2. f \in [A -> S]
  BY <1>1
<1>3. ASSUME NEW a \in A PROVE f[a] = D[f][a]
  <2>1. ASSUME NEW b \in A, mu[b] < mu[a] PROVE f[b] = G(a)[b]
    <3>1. Follows(G(a), D, A, mu, mu[b] + 1)
      BY <1>0, <1>1, <2>1 DEF Follows
    <3>2. G(b) \in [A -> S] /\ G(a) \in [A -> S] /\ Follows(G(b), D, A, mu, mu[b] + 1)
      BY <1>1
    <3>3. \A c \in A : mu[c] < mu[b] + 1 => G(b)[c] = G(a)[c]
      BY <1>0, <3>1, <3>2, FollowersAgree
    <3> QED
      BY <1>0, <3>3
  <2>2. D[f][a] = D[G(a)][a]
    <3> HIDE DEF f
    <3> QED
      BY <1>1, <1>2, <2>1 DEF Grows
  <2>3. G(a)[a] = D[G(a)][a]
    BY <1>0, <1>1 DEF Follows
  <2> QED
    BY <2>2, <2>3
<1>4. D[f] \in [A -> S]
  BY <1>2 DEF Grows
<1> HIDE DEF f
<1>5. f = D[f]
  BY <1>2, <1>3, <1>4
<1> QED
  BY <1>2, <1>5

(* Induction over an initial part of the naturals.                          *)
LEMMA CountingUp ==
  ASSUME NEW N \in Nat, NEW T, 0 \in T, \A n \in 1 .. N : n - 1 \in T => n \in T
  PROVE  \A n \in 0 .. N : n \in T
<1> DEFINE U == {n \in Nat : n <= N => n \in T}
<1>1. ASSUME NEW n \in Nat, \A m \in Nat : m < n => m \in U PROVE n \in U
  <2>1. CASE n = 0
    BY <2>1
  <2>2. CASE n \in 1 .. N
    <3>1. n - 1 \in Nat /\ n - 1 < n /\ n - 1 <= N
      BY <2>2
    <3>2. n - 1 \in T
      BY <1>1, <3>1
    <3> QED
      BY <2>2, <3>2
  <2>3. CASE n > N
    BY <2>3
  <2> QED
    BY <2>1, <2>2, <2>3
<1>2. \A n \in Nat : n \in U
  <2> HIDE DEF U
  <2> QED
    BY <1>1, Induction
<1> QED
  BY <1>2

(* What f says of a loop of N steps from b on, step[n] being the n-th: the  *)
(* value after each.                                                        *)
Iterates(f, N, b, step) == f = [n \in 0 .. N |-> IF n = 0 THEN b ELSE step[n][f[n - 1]]]

(* Every loop of N steps over values of a set has such values.              *)
LEMMA Iteration ==
  \A S, N, b, step : b \in S /\ N \in Nat /\ step \in [1 .. N -> [S -> S]] =>
    \E f \in [0 .. N -> S] : Iterates(f, N, b, step)
<1> TAKE S, N, b, step
<1> HAVE b \in S /\ N \in Nat /\ step \in [1 .. N -> [S -> S]]
<1> DEFINE A == 0 .. N
           mu == [n \in A |-> n]
           Body(f) == [n \in A |-> IF n = 0 THEN b ELSE step[n][f[n - 1]]]
           D == [f \in [A -> S] |-> Body(f)]
<1>1. S # {}
  OBVIOUS
<1>2. Grows(D, A, S, mu)
  <2>1. ASSUME NEW f \in [A -> S] PROVE Body(f) \in [A -> S]
    <3>1. ASSUME NEW n \in A PROVE (IF n = 0 THEN b ELSE step[n][f[n - 1]]) \in S
      <4>1. CASE n # 0
        <5>1. n \in 1 .. N /\ n - 1 \in A
          BY <4>1
        <5> QED
          BY <4>1, <5>1
      <4> QED
        BY <4>1
    <3> QED
      BY <3>1
  <2>2. ASSUME NEW f \in [A -> S], NEW g \in [A -> S], NEW n \in A,
               \A m \in A : mu[m] < mu[n] => f[m] = g[m]
        PROVE  Body(f)[n] = Body(g)[n]
    <3>1. CASE n # 0
      <4>1. n - 1 \in A /\ mu[n - 1] < mu[n]
        BY <3>1
      <4> QED
        BY <2>2, <4>1
    <3> QED
      BY <3>1
  <2>3. mu \in [A -> Nat]
    OBVIOUS
  <2>4. D \in [[A -> S] -> [A -> S]] /\ \A f \in [A -> S] : D[f] = Body(f)
    BY <2>1
  <2>5. ASSUME NEW f \in [A -> S], NEW g \in [A -> S], NEW n \in A,
               \A m \in A : mu[m] < mu[n] => f[m] = g[m]
        PROVE  D[f][n] = D[g][n]
    <3> HIDE DEF Body, D, A, mu
    <3>1. D[f] = Body(f) /\ D[g] = Body(g)
      BY <2>4
    <3> QED
      BY <2>2, <2>5, <3>1
  <2> HIDE DEF Body, D, A, mu
  <2> QED
    BY <2>3, <2>4, <2>5 DEF Grows
<1>3. \E f \in [A -> S] : f = D[f]
  <2> HIDE DEF D, A, mu
  <2> QED
    BY <1>1, <1>2, Recursion
<1> QED
  BY <1>3 DEF Iterates

(* The least of a set of naturals is the one CHOOSE takes.                  *)
LEMMA LeastIsChosen ==
  ASSUME NEW T, T \subseteq Nat, T # {}, NEW m, m = CHOOSE i \in T : \A j \in T : i <= j
  PROVE  m \in T /\ \A j \in T : m <= j
<1>1. \E i \in T : \A j \in T : i <= j
  BY LeastNatural
<1> QED
  BY <1>1

(***************************************************************************)
(* vsprintf and number (Printf).                                           *)
(***************************************************************************)

(* The measure of a natural.                                                *)
Itself == [n \in Nat |-> n]

(* Quotient and remainder, in the sense of TLA+.                            *)
LEMMA Division ==
  ASSUME NEW a \in Int, NEW b \in Nat, b > 0
  PROVE  a = b * (a \div b) + (a % b) /\ a \div b \in Int /\ a % b \in Nat /\ a % b < b
OBVIOUS

(* A natural divided by more than 1 shrinks.                                *)
LEMMA Quotients ==
  ASSUME NEW a \in Nat, NEW b \in Nat, b > 1
  PROVE  a \div b \in Nat /\ (a > 0 => a \div b < a) /\ (a >= b => a \div b > 0)
OBVIOUS

(* The remainder of a multiple and a rest is the rest.                      *)
LEMMA Remainders ==
  ASSUME NEW q \in Int, NEW b \in Nat, NEW r \in Nat, r < b
  PROVE  (b * q + r) % b = r
OBVIOUS

(* Of the signs only the minus is the minus.                                *)
LEMMA SignsDiffer == "" # "-" /\ " " # "-" /\ "+" # "-"
OBVIOUS

(* A number has a minus if and only if it is converted with its sign and    *)
(* negative.                                                                *)
LEMMA SignMeans ==
  ASSUME NEW num \in Int, NEW type
  PROVE  SignOf(num, type) = "-" <=> "SIGN" \in type /\ num < 0
<1>1. CASE "SIGN" \notin type
  BY <1>1, SignsDiffer DEF SignOf
<1>2. CASE "SIGN" \in type /\ num < 0
  BY <1>2 DEF SignOf
<1>3. CASE "SIGN" \in type /\ ~(num < 0)
  <2>1. num >= 0
    BY <1>3
  <2> QED
    BY <1>3, <2>1, SignsDiffer, Zenon DEF SignOf
<1> QED
  BY <1>1, <1>2, <1>3

(* The recursive function ValueOf is made of.                               *)
OfLast(digits, base) ==
  CHOOSE f : f = [k \in Nat |->
    IF k \in 1 .. Len(digits) THEN digits[Len(digits) - k + 1] + base * f[k - 1] ELSE 0]

(* It exists, and goes from the last digit on.                              *)
LEMMA OfLastFollows ==
  ASSUME NEW digits \in Seq(Nat), NEW base \in Nat
  PROVE  /\ ValueOf(digits, base) = OfLast(digits, base)[Len(digits)]
         /\ \A k \in Nat : OfLast(digits, base)[k] \in Int
         /\ OfLast(digits, base)[0] = 0
         /\ \A k \in 1 .. Len(digits) :
              OfLast(digits, base)[k] = digits[Len(digits) - k + 1] + base * OfLast(digits, base)[k - 1]
<1> DEFINE Body(f) == [k \in Nat |->
             IF k \in 1 .. Len(digits) THEN digits[Len(digits) - k + 1] + base * f[k - 1] ELSE 0]
           D == [f \in [Nat -> Int] |-> Body(f)]
<1>1. Grows(D, Nat, Int, Itself)
  <2>1. ASSUME NEW f \in [Nat -> Int] PROVE Body(f) \in [Nat -> Int]
    <3> DEFINE v(k) == digits[Len(digits) - k + 1] + base * f[k - 1]
    <3>1. ASSUME NEW k \in 1 .. Len(digits) PROVE v(k) \in Int
      <4>1. Len(digits) - k + 1 \in 1 .. Len(digits) /\ k - 1 \in Nat
        OBVIOUS
      <4> DEFINE d == digits[Len(digits) - k + 1]
                 rest == f[k - 1]
      <4>2. d \in Int
        <5>1. \A i \in 1 .. Len(digits) : digits[i] \in Nat
          OBVIOUS
        <5> QED
          BY <4>1, <5>1
      <4>3. rest \in Int
        BY <4>1
      <4> HIDE DEF d, rest
      <4>4. d + base * rest \in Int
        BY <4>2, <4>3
      <4> QED
        BY <4>4 DEF d, rest
    <3>2. Body(f) = [k \in Nat |-> IF k \in 1 .. Len(digits) THEN v(k) ELSE 0]
      BY Zenon
    <3> HIDE DEF v, Body
    <3> QED
      BY <3>1, <3>2
  <2>2. ASSUME NEW f \in [Nat -> Int], NEW g \in [Nat -> Int], NEW n \in Nat,
               \A m \in Nat : m < n => f[m] = g[m]
        PROVE  Body(f)[n] = Body(g)[n]
    BY <2>2
  <2> HIDE DEF Body
  <2> QED
    BY <2>1, <2>2 DEF Grows, Itself
<1>2. \E f \in [Nat -> Int] : f = D[f]
  <2> HIDE DEF D
  <2>1. Int # {}
    <3>1. 0 \in Int
      OBVIOUS
    <3> QED
      BY <3>1, Zenon
  <2> QED
    BY <1>1, <2>1, Recursion
<1>3. PICK f \in [Nat -> Int] : f = Body(f)
  BY <1>2
<1> DEFINE it == OfLast(digits, base)
<1>4. it = Body(it)
  BY <1>3 DEF OfLast
<1>5. ValueOf(digits, base) = it[Len(digits)]
  BY DEF ValueOf, OfLast
<1> HIDE DEF it
<1>6. ASSUME NEW k \in Nat
      PROVE  it[k] = IF k \in 1 .. Len(digits) THEN digits[Len(digits) - k + 1] + base * it[k - 1] ELSE 0
  BY <1>4, Zenon
<1>7. \A k \in Nat : it[k] \in Int
  <2> DEFINE T == {k \in Nat : it[k] \in Int}
  <2>1. ASSUME NEW n \in Nat, \A m \in Nat : m < n => m \in T PROVE n \in T
    <3>1. CASE n \in 1 .. Len(digits)
      <4>1. n - 1 \in Nat /\ n - 1 < n /\ digits[Len(digits) - n + 1] \in Nat
        BY <3>1
      <4>2. it[n - 1] \in Int
        BY <2>1, <4>1
      <4>3. it[n] = digits[Len(digits) - n + 1] + base * it[n - 1]
        BY <1>6, <3>1
      <4> DEFINE a == it[n - 1]
                 c == digits[Len(digits) - n + 1]
      <4>4. a \in Int /\ c \in Nat /\ it[n] = c + base * a
        BY <4>1, <4>2, <4>3
      <4> HIDE DEF a, c
      <4>5. it[n] \in Int
        BY <4>4
      <4> QED
        BY <4>5
    <3>2. CASE n \notin 1 .. Len(digits)
      BY <1>6, <3>2
    <3> QED
      BY <3>1, <3>2
  <2> QED
    BY <2>1, Induction
<1>8. it[0] = 0
  BY <1>6
<1>9. ASSUME NEW k \in 1 .. Len(digits) PROVE it[k] = digits[Len(digits) - k + 1] + base * it[k - 1]
  BY <1>6
<1> QED
  BY <1>5, <1>7, <1>8, <1>9 DEF it

(* The value of digits with one more, least, before them.                   *)
LEMMA ValueOfDigit ==
  ASSUME NEW s \in Seq(Nat), NEW d \in Nat, NEW base \in Nat
  PROVE  /\ ValueOf(<<d>>, base) = d
         /\ ValueOf(s, base) \in Int
         /\ ValueOf(<<d>> \o s, base) = d + base * ValueOf(s, base)
<1>1. ValueOf(<<d>>, base) = d
  <2> DEFINE u == <<d>>
  <2>1. u \in Seq(Nat) /\ Len(u) = 1 /\ u[1] = d
    OBVIOUS
  <2> HIDE DEF u
  <2>2. ValueOf(u, base) = OfLast(u, base)[1]
    BY <2>1, OfLastFollows
  <2>3. OfLast(u, base)[1] = u[1 - 1 + 1] + base * OfLast(u, base)[1 - 1]
    BY <2>1, OfLastFollows, 1 \in 1 .. Len(u)
  <2>4. OfLast(u, base)[0] = 0
    BY <2>1, OfLastFollows
  <2>5. ValueOf(u, base) = d
    BY <2>1, <2>2, <2>3, <2>4
  <2> QED
    BY <2>5 DEF u
<1>2. ValueOf(s, base) \in Int
  BY OfLastFollows
<1> DEFINE t == <<d>> \o s
<1>3. /\ t \in Seq(Nat) /\ Len(t) = Len(s) + 1 /\ t[1] = d
      /\ \A i \in 1 .. Len(s) : t[i + 1] = s[i]
  OBVIOUS
<1> HIDE DEF t
<1> DEFINE T == {k \in Nat : k <= Len(s) => OfLast(t, base)[k] = OfLast(s, base)[k]}
<1>4. ASSUME NEW n \in Nat, \A m \in Nat : m < n => m \in T PROVE n \in T
  <2>1. CASE n = 0
    BY <1>3, <2>1, OfLastFollows
  <2>2. CASE n \in 1 .. Len(s)
    <3>1. OfLast(t, base)[n - 1] = OfLast(s, base)[n - 1]
      BY <1>4, <2>2
    <3>2. t[Len(t) - n + 1] = s[Len(s) - n + 1]
      <4> DEFINE i == Len(s) - n + 1
      <4>1. Len(t) - n + 1 = i + 1 /\ i \in 1 .. Len(s)
        BY <1>3, <2>2
      <4>2. t[i + 1] = s[i]
        BY <1>3, <4>1
      <4> HIDE DEF i
      <4>3. t[Len(t) - n + 1] = s[i]
        BY <4>1, <4>2
      <4> QED
        BY <4>3 DEF i
    <3>3. OfLast(t, base)[n] = t[Len(t) - n + 1] + base * OfLast(t, base)[n - 1]
      BY <1>3, <2>2, OfLastFollows, n \in 1 .. Len(t)
    <3>4. OfLast(s, base)[n] = s[Len(s) - n + 1] + base * OfLast(s, base)[n - 1]
      BY <2>2, OfLastFollows
    <3> QED
      BY <3>1, <3>2, <3>3, <3>4
  <2>3. CASE n > Len(s)
    BY <2>3
  <2> QED
    BY <2>1, <2>2, <2>3
<1>5. \A k \in Nat : k \in T
  BY <1>4, Induction
<1>6. OfLast(t, base)[Len(s)] = ValueOf(s, base)
  BY <1>5, OfLastFollows
<1>7. ValueOf(t, base) = t[1] + base * OfLast(t, base)[Len(s)]
  <2>1. ValueOf(t, base) = OfLast(t, base)[Len(t)]
    BY <1>3, OfLastFollows
  <2>2. OfLast(t, base)[Len(t)] = t[Len(t) - Len(t) + 1] + base * OfLast(t, base)[Len(t) - 1]
    BY <1>3, OfLastFollows, Len(t) \in 1 .. Len(t)
  <2> QED
    BY <1>3, <2>1, <2>2
<1> QED
  BY <1>1, <1>2, <1>3, <1>6, <1>7 DEF t

(* The recursive function Digits is made of.                                *)
RestOf(base) ==
  CHOOSE f : f = [m \in Nat |-> IF m < base THEN <<m>> ELSE <<m % base>> \o f[m \div base]]

(* It exists: each division leaves less to write.                           *)
LEMMA RestFollows ==
  ASSUME NEW base \in Nat, base > 1
  PROVE  \A m \in Nat :
           RestOf(base)[m] = IF m < base THEN <<m>> ELSE <<m % base>> \o RestOf(base)[m \div base]
<1> DEFINE Body(f) == [m \in Nat |-> IF m < base THEN <<m>> ELSE <<m % base>> \o f[m \div base]]
           D == [f \in [Nat -> Seq(Nat)] |-> Body(f)]
<1>1. Grows(D, Nat, Seq(Nat), Itself)
  <2>1. ASSUME NEW f \in [Nat -> Seq(Nat)] PROVE Body(f) \in [Nat -> Seq(Nat)]
    <3>1. ASSUME NEW m \in Nat
          PROVE (IF m < base THEN <<m>> ELSE <<m % base>> \o f[m \div base]) \in Seq(Nat)
      <4>1. m \div base \in Nat /\ m % base \in Nat
        BY Quotients, Division
      <4> QED
        BY <4>1
    <3> QED
      BY <3>1
  <2>2. ASSUME NEW f \in [Nat -> Seq(Nat)], NEW g \in [Nat -> Seq(Nat)], NEW n \in Nat,
               \A m \in Nat : m < n => f[m] = g[m]
        PROVE  Body(f)[n] = Body(g)[n]
    <3>1. CASE n < base
      BY <3>1
    <3>2. CASE n >= base
      <4>1. n \div base \in Nat /\ n \div base < n
        BY <3>2, n > 0, Quotients
      <4>2. f[n \div base] = g[n \div base]
        BY <2>2, <4>1
      <4> QED
        BY <3>2, <4>2
    <3> QED
      BY <3>1, <3>2
  <2> HIDE DEF Body
  <2> QED
    BY <2>1, <2>2 DEF Grows, Itself
<1>2. \E f \in [Nat -> Seq(Nat)] : f = D[f]
  <2> HIDE DEF D
  <2> DEFINE S == Seq(Nat)
  <2>1. S # {}
    BY <<>> \in S
  <2>2. Grows(D, Nat, S, Itself)
    BY <1>1
  <2> HIDE DEF S
  <2>3. \E f \in [Nat -> S] : f = D[f]
    BY <2>1, <2>2, Recursion
  <2> QED
    BY <2>3 DEF S
<1>3. PICK f \in [Nat -> Seq(Nat)] : f = Body(f)
  BY <1>2
<1> DEFINE it == RestOf(base)
<1>4. it = Body(it)
  BY <1>3 DEF RestOf
<1> HIDE DEF it
<1>5. ASSUME NEW m \in Nat
      PROVE  it[m] = IF m < base THEN <<m>> ELSE <<m % base>> \o it[m \div base]
  BY <1>4, Zenon
<1> QED
  BY <1>5 DEF it

(* Digits writes every number in every base with the digits whose value it  *)
(* is, at least one, and no leading 0.                                      *)
LEMMA DigitsAreRight ==
  ASSUME NEW base \in Nat, base > 1, NEW n \in Int
  PROVE  /\ Digits(n, base) \in Seq(Nat)
         /\ Len(Digits(n, base)) >= 1
         /\ ValueOf(Digits(n, base), base) = n % WORD
         /\ Len(Digits(n, base)) = 1 \/ Digits(n, base)[Len(Digits(n, base))] # 0
<1> DEFINE IsRight(s, m) == /\ s \in Seq(Nat) /\ Len(s) >= 1 /\ ValueOf(s, base) = m
                            /\ m > 0 => s[Len(s)] # 0
                            /\ m = 0 => Len(s) = 1
           it == RestOf(base)
           T == {m \in Nat : IsRight(it[m], m)}
<1>1. Digits(n, base) = it[n % WORD]
  BY DEF Digits, RestOf
<1> HIDE DEF it
<1>2. ASSUME NEW m \in Nat, \A k \in Nat : k < m => k \in T PROVE m \in T
  <2>1. CASE m < base
    <3> DEFINE u == <<m>>
    <3>1. it[m] = u
      BY <2>1, RestFollows DEF it
    <3>2. u \in Seq(Nat) /\ Len(u) = 1 /\ u[1] = m
      OBVIOUS
    <3>3. ValueOf(u, base) = m
      BY ValueOfDigit, <<>> \in Seq(Nat)
    <3> HIDE DEF u
    <3>4. IsRight(u, m)
      BY <3>2, <3>3
    <3> HIDE DEF IsRight
    <3> QED
      BY <3>1, <3>4
  <2>2. CASE m >= base
    <3> DEFINE s == it[m \div base]
    <3>1. it[m] = <<m % base>> \o s
      <4>1. ~(m < base)
        BY <2>2
      <4> QED
        BY <4>1, RestFollows, Zenon DEF it
    <3>2. m \div base \in Nat /\ m \div base < m /\ m \div base > 0
      BY <2>2, Quotients
    <3>3. m % base \in Nat /\ m = base * (m \div base) + (m % base)
      BY Division
    <3>4. IsRight(s, m \div base)
      BY <1>2, <3>2
    <3> HIDE DEF s
    <3>5. ValueOf(<<m % base>> \o s, base) = m
      <4>1. ValueOf(<<m % base>> \o s, base) = (m % base) + base * ValueOf(s, base)
        BY <3>3, <3>4, ValueOfDigit
      <4>2. ValueOf(s, base) = m \div base
        BY <3>4
      <4> QED
        BY <3>3, <4>1, <4>2
    <3>6. /\ <<m % base>> \o s \in Seq(Nat) /\ Len(<<m % base>> \o s) = Len(s) + 1
          /\ (<<m % base>> \o s)[Len(s) + 1] = s[Len(s)]
      BY <3>3, <3>4
    <3> DEFINE u == <<m % base>> \o s
    <3>7. it[m] = u /\ u \in Seq(Nat) /\ Len(u) = Len(s) + 1 /\ u[Len(u)] = s[Len(s)]
          /\ ValueOf(u, base) = m
      BY <3>1, <3>5, <3>6
    <3>8. s \in Seq(Nat) /\ Len(s) >= 1 /\ s[Len(s)] # 0
      BY <3>2, <3>4
    <3> HIDE DEF u
    <3> QED
      BY <2>2, <3>2, <3>7, <3>8
  <2> QED
    BY <2>1, <2>2
<1>3. n % WORD \in Nat
  BY WidthAssumption, Division
<1>4. n % WORD \in T
  BY <1>2, <1>3, Induction
<1> QED
  BY <1>1, <1>4, <1>3

(* A field is as wide as was asked, or as what is in it.                    *)
LEMMA Fills ==
  ASSUME NEW size \in Int, NEW body \in Int, NEW rest, rest = Larger(size - body, 0)
  PROVE  rest \in Int /\ rest + body = Larger(size, body)
BY DEF Larger

(* A sign has a size.                                                       *)
LEMMA SignSizes ==
  ASSUME NEW sign
  PROVE  SignSize(sign) \in Int
<1>1. SignSize(sign) = 0 \/ SignSize(sign) = 1
  BY Zenon DEF SignSize
<1> QED
  BY <1>1

(* The record number answers: its parts together are as wide as the field,  *)
(* and one side only is padded.                                             *)
LEMMA NumbersAreWritten ==
  ASSUME NEW num \in Int, NEW base \in Nat, base > 1, NEW size \in Int, NEW prec \in Int, NEW type,
         NEW o, o = number(num, base, size, prec, type)
  PROVE  LET body == SignSize(o.sign) + o.prefix + o.zeros + Len(o.digits)
         IN /\ o.digits = Digits(IF o.sign = "-" THEN Negated(num) ELSE num, base)
            /\ o.sign = SignOf(num, type)
            /\ Len(o.digits) \in Nat
            /\ o.zeros + Len(o.digits) = Larger(prec, Len(o.digits))
            /\ o.lead + o.fill + o.trail + body = Larger(size, body)
            /\ IF "LEFT" \in type THEN o.lead + o.fill = 0 ELSE o.trail = 0
<1> DEFINE sign == SignOf(num, type)
           digits == Digits(IF sign = "-" THEN Negated(num) ELSE num, base)
           prefix == PrefixSize(base, type)
           signs == SignSize(sign)
           shown == Larger(prec, Len(digits))
           rest == Larger(size - signs - prefix - shown, 0)
           left == "LEFT" \in type
           zeros == "ZEROPAD" \in type /\ ~left
           body == SignSize(o.sign) + o.prefix + o.zeros + Len(o.digits)
<1>1. Len(digits) \in Nat
  <2>1. Negated(num) \in Int
    BY WidthAssumption DEF Negated, Signed
  <2>2. (IF sign = "-" THEN Negated(num) ELSE num) \in Int
    BY <2>1
  <2> QED
    BY <2>2, DigitsAreRight
<1>2. prefix \in Int
  BY DEF PrefixSize
<1>3. o = [lead |-> IF left \/ zeros THEN 0 ELSE rest, sign |-> sign,
           prefix |-> prefix, fill |-> IF zeros THEN rest ELSE 0,
           zeros |-> shown - Len(digits), digits |-> digits, trail |-> IF left THEN rest ELSE 0]
  BY DEF number
<1> HIDE DEF sign, digits, prefix
<1>4. /\ o.sign = sign /\ o.prefix = prefix /\ o.digits = digits /\ o.zeros = shown - Len(digits)
      /\ o.lead = (IF left \/ zeros THEN 0 ELSE rest) /\ o.fill = (IF zeros THEN rest ELSE 0)
      /\ o.trail = (IF left THEN rest ELSE 0)
  <2> DEFINE lead == IF left \/ zeros THEN 0 ELSE rest
             fill == IF zeros THEN rest ELSE 0
             trail == IF left THEN rest ELSE 0
             some == shown - Len(digits)
  <2>1. o = [lead |-> lead, sign |-> sign, prefix |-> prefix, fill |-> fill,
             zeros |-> some, digits |-> digits, trail |-> trail]
    BY <1>3
  <2> HIDE DEF lead, fill, trail, some
  <2>2. /\ o.sign = sign /\ o.prefix = prefix /\ o.digits = digits /\ o.zeros = some
        /\ o.lead = lead /\ o.fill = fill /\ o.trail = trail
    BY <2>1
  <2> QED
    BY <2>2 DEF lead, fill, trail, some
<1>5. shown \in Int /\ signs \in Int
  <2>1. signs \in Int
    BY SignSizes
  <2> QED
    BY <1>1, <2>1 DEF Larger
<1> HIDE DEF signs, shown
<1>6. body = signs + prefix + shown
  <2>1. SignSize(o.sign) = signs
    BY <1>4 DEF signs
  <2>2. o.zeros + Len(o.digits) = shown
    BY <1>1, <1>4, <1>5
  <2>3. o.zeros \in Int /\ Len(o.digits) \in Int
    BY <1>1, <1>4, <1>5
  <2> QED
    BY <1>2, <1>4, <1>5, <2>1, <2>2, <2>3
<1> HIDE DEF body
<1>7. rest \in Int /\ rest + body = Larger(size, body)
  <2>1. body \in Int /\ size - signs - prefix - shown = size - body
    BY <1>2, <1>5, <1>6
  <2> QED
    BY <2>1, Fills
<1> HIDE DEF rest
<1>8. o.lead + o.fill + o.trail = rest
  BY <1>4, <1>7
<1>9. o.zeros + Len(o.digits) = Larger(prec, Len(o.digits))
  BY <1>1, <1>4, <1>5 DEF shown
<1>10. IF left THEN o.lead + o.fill = 0 ELSE o.trail = 0
  BY <1>4
<1>11. o.digits = Digits(IF o.sign = "-" THEN Negated(num) ELSE num, base)
  BY <1>4 DEF digits
<1>12. o.lead + o.fill + o.trail + body = Larger(size, body)
  BY <1>7, <1>8
<1> QED
  BY <1>1, <1>4, <1>9, <1>10, <1>11, <1>12, Zenon DEF body, sign

(* A number and its signed reading are the same word.                       *)
LEMMA SignedIsSame ==
  ASSUME NEW n \in Int
  PROVE  Signed(n) % WORD = n % WORD /\ Signed(n) \in Int
<1> DEFINE r == n % WORD
<1>1. r \in Nat /\ r < WORD /\ WORD \in Nat /\ WORD > 0
  BY WidthAssumption, Division
<1> HIDE DEF r
<1>2. r % WORD = r
  BY <1>1, Remainders, WORD * 0 + r = r
<1>3. (r - WORD) % WORD = r
  BY <1>1, Remainders, WORD * (-1) + r = r - WORD
<1> QED
  BY <1>1, <1>2, <1>3 DEF Signed, r

(* A negative number is written as its opposite, which is a word even for   *)
(* the least one.                                                           *)
LEMMA MagnitudeIsWritten ==
  ASSUME NEW num \in -(WORD \div 2) .. (WORD \div 2) - 1, num < 0
  PROVE  Negated(num) % WORD = -num /\ Negated(num) \in Int
<1>1. -num \in Nat /\ -num < WORD /\ WORD \in Nat /\ WORD > 0
  BY WidthAssumption
<1>2. (-num) % WORD = -num
  BY <1>1, Remainders, WORD * 0 + (-num) = -num
<1> QED
  BY <1>1, <1>2, SignedIsSame DEF Negated

(* What the qualifier h leaves of an argument is in the range of a word.    *)
LEMMA HalvesFit ==
  ASSUME NEW a \in Int
  PROVE  /\ SignedHalf(a) \in -(WORD \div 2) .. (WORD \div 2) - 1
         /\ a % HALF \in Nat /\ a % HALF < WORD
<1>1. a % HALF \in Nat /\ a % HALF < HALF
  BY WidthAssumption, Division
<1> QED
  BY <1>1, WidthAssumption DEF SignedHalf

(* The flags a format can set.                                              *)
FlagNames == {"LEFT", "PLUS", "SPACE", "SPECIAL", "ZEROPAD"}

(* What holds between the steps of vsprintf: the options have their types,  *)
(* and a conversion that has been written was not that of the NUL.          *)
PrintfInv ==
  /\ flags \subseteq FlagNames
  /\ field_width \in Int /\ precision \in Int
  /\ place = "written" => fmt # NUL
  /\ FieldsAreRight

(* A conversion of a number writes what NumberIsRight says, whatever its    *)
(* base, width and flags.                                                   *)
LEMMA NumberFits ==
  ASSUME precision \in Int,
         NEW arg, NEW num \in Int, NEW base \in {8, 10, 16}, NEW size \in Int, NEW type,
         Write(Number(arg, num, base, size, type)),
         "LEFT" \in type <=> "LEFT" \in flags,
         "SIGN" \in type => Meant' = num /\ num \in -(WORD \div 2) .. (WORD \div 2) - 1,
         "SIGN" \notin type => Meant' = num % WORD
  PROVE  NumberIsRight'
<1>0. PICK o : o = number(num, base, size, precision, type)
  OBVIOUS
<1> DEFINE body == SignSize(o.sign) + o.prefix + o.zeros + Len(o.digits)
           value == IF o.sign = "-" THEN Negated(num) ELSE num
           meant == Meant'
<1>1. /\ field'.out = o /\ field'.arg = arg /\ field'.base = base /\ field'.type = type
      /\ field'.width = size
      /\ precision' = precision /\ flags' = flags
  BY <1>0 DEF Write, Number, options
<1> HIDE DEF meant
<1>2. base \in Nat /\ base > 1
  OBVIOUS
<1>3. /\ o.digits = Digits(value, base) /\ o.sign = SignOf(num, type)
      /\ o.zeros + Len(o.digits) = Larger(precision, Len(o.digits))
      /\ o.lead + o.fill + o.trail + body = Larger(size, body)
      /\ IF "LEFT" \in type THEN o.lead + o.fill = 0 ELSE o.trail = 0
  BY <1>0, <1>2, NumbersAreWritten
<1>4. o.sign = "-" <=> "SIGN" \in type /\ num < 0
  BY <1>3, SignMeans
<1>5. o.sign = "-" <=> "SIGN" \in type /\ meant < 0
  BY <1>4 DEF meant
<1>6. value \in Int /\ value % WORD = Magnitude(meant)
  <2>1. CASE "SIGN" \in type /\ num < 0
    <3>1. value = Negated(num) /\ meant = num
      BY <1>4, <2>1 DEF meant
    <3> QED
      BY <2>1, <3>1, MagnitudeIsWritten DEF Magnitude
  <2>2. CASE "SIGN" \in type /\ ~(num < 0)
    <3>1. value = num /\ meant = num
      BY <1>4, <2>2 DEF meant
    <3>2. num \in Nat /\ num < WORD /\ WORD \in Nat
      BY <2>2, WidthAssumption
    <3>3. num % WORD = num
      BY <3>2, Remainders, WORD * 0 + num = num
    <3> QED
      BY <2>2, <3>1, <3>3 DEF Magnitude
  <2>3. CASE "SIGN" \notin type
    <3>1. value = num /\ meant = num % WORD
      BY <1>4, <2>3 DEF meant
    <3>2. num % WORD \in Nat
      BY WidthAssumption, Division
    <3> QED
      BY <3>1, <3>2 DEF Magnitude
  <2> QED
    BY <2>1, <2>2, <2>3
<1> HIDE DEF value
<1>7. /\ ValueOf(o.digits, base) = Magnitude(meant)
      /\ Len(o.digits) = 1 \/ o.digits[Len(o.digits)] # 0
  BY <1>2, <1>3, <1>6, DigitsAreRight
<1>8. NumberIsRight' =
        LET oo == field'.out
            bb == SignSize(oo.sign) + oo.prefix + oo.zeros + Len(oo.digits)
        IN /\ ValueOf(oo.digits, field'.base) = Magnitude(meant)
           /\ oo.sign = "-" <=> "SIGN" \in field'.type /\ meant < 0
           /\ Len(oo.digits) = 1 \/ oo.digits[Len(oo.digits)] # 0
           /\ oo.zeros + Len(oo.digits) = Larger(precision', Len(oo.digits))
           /\ oo.lead + oo.fill + oo.trail + bb = Larger(field'.width, bb)
           /\ IF "LEFT" \in flags' THEN oo.lead + oo.fill = 0 ELSE oo.trail = 0
  BY DEF NumberIsRight, Left, meant
<1> QED
  BY <1>1, <1>3, <1>5, <1>7, <1>8, Zenon DEF body

(* A conversion of a text writes what TextIsRight says.                     *)
LEMMA TextFits ==
  ASSUME field_width \in Int, NEW size \in Int, Write(Text(size)),
         fmt = "c" \/ precision < 0 \/ size <= precision
  PROVE  TextIsRight'
<1>1. Text(size).size = size
  BY DEF Text
<1>2. /\ field' = Text(size) /\ flags' = flags /\ field_width' = field_width
      /\ precision' = precision /\ fmt' = fmt
  BY DEF Write, Stay, options
<1>3. Larger(field_width - size, 0) \in Int
      /\ Larger(field_width - size, 0) + size = Larger(field_width, size)
  BY DEF Larger
<1>4. /\ Text(size).lead + size + Text(size).trail = Larger(field_width, size)
      /\ IF Left THEN Text(size).lead = 0 ELSE Text(size).trail = 0
  BY <1>3 DEF Text, Left
<1>5. size <= IF fmt = "c" \/ precision < 0 THEN size ELSE precision
  OBVIOUS
<1> QED
  BY <1>1, <1>2, <1>4, <1>5 DEF TextIsRight, Left

(* The conversions of integers pass number the value they mean.             *)
LEMMA IntegersFit ==
  ASSUME PrintfInv, NEW a \in ARGUMENTS, Converts({"o", "x", "X", "d", "i", "u"}),
         Write(Number(a, AsLong(a), IntegerBase, field_width, IntegerFlags))
  PROVE  NumberIsRight'
<1>1. a \in Int /\ a \in -(WORD \div 2) .. (WORD \div 2) - 1
  BY ArgumentAssumption, WidthAssumption
<1>2. IntegerBase \in {8, 10, 16}
  BY DEF IntegerBase
<1>3. "LEFT" \in IntegerFlags <=> "LEFT" \in flags
  BY DEF IntegerFlags
<1>4. /\ Meant' = (IF "SIGN" \in IntegerFlags
                   THEN IF qualifier = "h" THEN SignedHalf(a) ELSE a
                   ELSE IF qualifier = "h" THEN a % HALF ELSE a % WORD)
  <2>1. /\ field'.type = IntegerFlags /\ field'.arg = a /\ qualifier' = qualifier /\ fmt' = fmt
    BY DEF Write, Number, Stay, options
  <2>2. fmt # "p"
    BY DEF Converts
  <2> QED
    BY <2>1, <2>2 DEF Meant
<1>5. SignedHalf(a) \in -(WORD \div 2) .. (WORD \div 2) - 1 /\ a % HALF \in Nat /\ a % HALF < WORD
  BY <1>1, HalvesFit
<1>6. (a % HALF) % WORD = a % HALF
  BY <1>5, WidthAssumption, Remainders, WORD * 0 + (a % HALF) = a % HALF
<1>7. CASE "SIGN" \in IntegerFlags
  <2>1. Meant' = AsLong(a) /\ AsLong(a) \in -(WORD \div 2) .. (WORD \div 2) - 1
    BY <1>1, <1>4, <1>5, <1>7 DEF AsLong
  <2>2. AsLong(a) \in Int
    BY <2>1, WidthAssumption
  <2> QED
    BY <1>2, <1>3, <1>7, <2>1, <2>2, NumberFits DEF PrintfInv
<1>8. CASE "SIGN" \notin IntegerFlags
  <2>1. Meant' = AsLong(a) % WORD /\ AsLong(a) \in Int
    BY <1>1, <1>4, <1>5, <1>6, <1>8 DEF AsLong
  <2> QED
    BY <1>2, <1>3, <1>8, <2>1, NumberFits DEF PrintfInv
<1> QED
  BY <1>7, <1>8

(* So does the conversion of pointers.                                      *)
LEMMA PointersFit ==
  ASSUME PrintfInv, NEW a \in ARGUMENTS, Converts({"p"}),
         NEW size \in Int, NEW type \in {flags, flags \cup {"ZEROPAD"}},
         Write(Number(a, a, 16, size, type))
  PROVE  NumberIsRight'
<1>1. a \in Int
  BY ArgumentAssumption, WidthAssumption
<1>2. "LEFT" \in type <=> "LEFT" \in flags
  OBVIOUS
<1>3. "SIGN" \notin type
  BY DEF PrintfInv, FlagNames
<1>4. Meant' = a % WORD
  <2>1. field'.type = type /\ field'.arg = a /\ fmt' = "p"
    BY DEF Write, Number, Stay, Converts
  <2> QED
    BY <1>3, <2>1 DEF Meant
<1> QED
  BY <1>1, <1>2, <1>3, <1>4, NumberFits DEF PrintfInv

(* The characters of flags set flags.                                       *)
LEMMA FlagsAreNames == \A c \in DOMAIN Flag : Flag[c] \in FlagNames
BY Zenon DEF Flag, FlagNames

(* The NUL is not one of them.                                              *)
LEMMA NulIsNoFlag == NUL \notin DOMAIN Flag
BY Zenon DEF Flag, NUL

(* Every step of vsprintf keeps the invariant.                              *)
LEMMA PrintfStep ==
  ASSUME PrintfInv, [CallVsprintf \/ vsprintf]_printfVars
  PROVE  PrintfInv'
<1> USE DEF PrintfInv
<1>1. CASE UNCHANGED printfVars
  BY <1>1 DEF printfVars, options, FieldsAreRight, NumberIsRight, TextIsRight, Left, Meant
<1>2. ASSUME place' # "written", flags' \subseteq FlagNames, field_width' \in Int, precision' \in Int
      PROVE  PrintfInv'
  BY <1>2 DEF FieldsAreRight
<1>3. CASE CallVsprintf \/ Return \/ CopyChar \/ Percent \/ NoWidth \/ WidthEnds \/ NoPrecision \/ Point
             \/ PrecisionEnds \/ ReadQualifier \/ NoQualifier \/ ConvertEnd \/ Continue
  BY <1>2, <1>3 DEF CallVsprintf, Return, CopyChar, Percent, NoWidth, WidthEnds, NoPrecision, Point,
    PrecisionEnds, ReadQualifier, NoQualifier, ConvertEnd, Continue, GoTo, ClearOptions, options
<1>4. CASE ReadFlag
  BY <1>2, <1>4, FlagsAreNames DEF ReadFlag, GoTo
<1>5. CASE ReadWidth \/ ReadPrecision
  <2>1. fmt \in DOMAIN Digit => Digit[fmt] \in Int
    BY DEF Digit
  <2> QED
    BY <1>2, <1>5, <2>1 DEF ReadWidth, ReadPrecision, SkipAtoi, GoTo
<1>6. CASE WidthArgument
  BY <1>2, <1>6, ArgumentAssumption, WidthAssumption DEF WidthArgument, GoTo, FlagNames
<1>7. CASE PrecisionArgument
  BY <1>2, <1>7, ArgumentAssumption, WidthAssumption DEF PrecisionArgument, GoTo, Larger
<1>8. ASSUME NEW f, Write(f), fmt # NUL,
             f.kind = "number" => NumberIsRight', f.kind = "text" => TextIsRight'
      PROVE  PrintfInv'
  BY <1>8 DEF Write, Stay, options, FieldsAreRight
<1>9. CASE ConvertChar
  BY <1>8, <1>9, TextFits DEF ConvertChar, Converts, Text, NUL
<1>10. CASE ConvertString
  BY <1>8, <1>10, TextFits, ArgumentAssumption DEF ConvertString, Converts, strnlen, Text, NUL
<1>11. CASE ConvertNothing \/ ConvertUnknown
  BY <1>8, <1>11 DEF ConvertNothing, ConvertUnknown, Converts, NoField, NUL
<1>12. CASE ConvertPointer
  <2>1. PICK a \in ARGUMENTS :
               IF field_width = -1 THEN Write(Number(a, a, 16, PointerDigits, flags \cup {"ZEROPAD"}))
                                   ELSE Write(Number(a, a, 16, field_width, flags))
    BY <1>12 DEF ConvertPointer
  <2>2. PICK size \in Int, type \in {flags, flags \cup {"ZEROPAD"}} :
               Write(Number(a, a, 16, size, type))
    <3>1. PointerDigits \in Int
      BY WidthAssumption, DigitsAreRight DEF PointerDigits
    <3> QED
      BY <2>1, <3>1
  <2>3. NumberIsRight'
    BY <1>12, <2>2, PointersFit DEF ConvertPointer
  <2>4. fmt # NUL
    BY <1>12 DEF ConvertPointer, Converts, NUL
  <2> QED
    BY <1>8, <2>2, <2>3, <2>4 DEF Number
<1>13. CASE ConvertInteger
  BY <1>8, <1>13, IntegersFit DEF ConvertInteger, Number, Converts, NUL
<1> QED
  BY <1>1, <1>3, <1>4, <1>5, <1>6, <1>7, <1>9, <1>10, <1>11, <1>12, <1>13
    DEF vsprintf, FlagsAndWidth, PrecisionAndQualifier, Conversion

(* No step reads on from the NUL.                                           *)
LEMMA StopsAtNul ==
  ASSUME PrintfInv, CallVsprintf \/ vsprintf, place # "idle", fmt = NUL
  PROVE  fmt' = NUL
<1>1. place # "written" /\ NUL \notin DOMAIN Digit /\ NUL \notin Qualifiers
  BY DEF PrintfInv, Digit, Qualifiers, NUL
<1>2. CASE FlagsAndWidth
  BY <1>1, <1>2, NulIsNoFlag DEF FlagsAndWidth, Percent, ReadFlag, NoWidth, ReadWidth, WidthEnds,
    WidthArgument, Stay, NUL
<1>3. CASE PrecisionAndQualifier
  BY <1>1, <1>3 DEF PrecisionAndQualifier, NoPrecision, Point, ReadPrecision, PrecisionArgument,
    PrecisionEnds, ReadQualifier, NoQualifier, Stay, NUL
<1>4. CASE Conversion
  BY <1>1, <1>4 DEF Conversion, ConvertChar, ConvertString, ConvertNothing, ConvertPointer,
    ConvertInteger, ConvertUnknown, ConvertEnd, Continue, Converts, Write, Stay, NUL
<1>5. CASE CallVsprintf \/ Return \/ CopyChar
  BY <1>5 DEF CallVsprintf, Return, CopyChar, Stay
<1> QED
  BY <1>2, <1>3, <1>4, <1>5 DEF vsprintf

(* The calls of the other functions leave vsprintf alone.                   *)
LEMMA OnlyFormatsChangePrintf ==
  ASSUME [LibraryNext]_libraryVars
  PROVE  [CallVsprintf \/ vsprintf]_printfVars
<1>1. CASE UNCHANGED libraryVars
  BY <1>1 DEF libraryVars
<1>2. CASE Format
  BY <1>2 DEF Format
<1>3. CASE CallEnds
  BY <1>3 DEF CallEnds
<1>4. CASE CallStrcmp \/ CallMemcpy \/ CallItoa \/ CallLookup \/ CallDirOpen
  BY <1>4 DEF CallStrcmp, CallMemcpy, CallItoa, CallLookup, CallDirOpen, Call
<1>5. CASE CallDrawBitmap \/ CallDrawRect \/ CallPuts \/ CallPciRead \/ CallService \/ CallUpdate
  BY <1>5 DEF CallDrawBitmap, CallDrawRect, CallPuts, CallPciRead, CallService, CallUpdate, Call
<1> QED
  BY <1>1, <1>2, <1>3, <1>4, <1>5 DEF LibraryNext

(* So the invariant always holds.                                           *)
LEMMA PrintfInvariance == LibrarySpec => []PrintfInv
<1>1. LibraryInit => PrintfInv
  BY DEF LibraryInit, PrintfInit, PrintfInv, FieldsAreRight
<1>2. PrintfInv /\ [LibraryNext]_libraryVars => PrintfInv'
  BY OnlyFormatsChangePrintf, PrintfStep
<1> QED
  BY <1>1, <1>2, PTL DEF LibrarySpec

(* Every number is written with its own digits, its sign, its precision and *)
(* its width, and every text is cut and padded, for every width of a word,  *)
(* every argument and every format.                                         *)
THEOREM NumbersAreRight == LibrarySpec => []FieldsAreRight
<1>1. PrintfInv => FieldsAreRight
  BY DEF PrintfInv
<1> QED
  BY <1>1, PrintfInvariance, PTL

(* vsprintf never reads behind the NUL of its format, wherever in a         *)
(* conversion the format ends.                                              *)
THEOREM FormatsEnd == LibrarySpec => StopsAtTerminator
<1>1. PrintfInv /\ [LibraryNext]_libraryVars => [place # "idle" /\ fmt = NUL => fmt' = NUL]_printfVars
  BY OnlyFormatsChangePrintf, StopsAtNul DEF printfVars
<1> QED
  BY <1>1, PrintfInvariance, PTL DEF LibrarySpec, StopsAtTerminator

(***************************************************************************)
(* The string functions (CLibrary).                                        *)
(***************************************************************************)

(* Where s1 is not s2.                                                      *)
Differ(s1, s2) == {i \in DOMAIN s1 : s1[i] # At(s2, i)}

(* What a C string can hold: anything but its NUL.                          *)
String == Seq(Int \ {END_OF_STRING})

(* The NUL is what is found at the end, and only there.                     *)
LEMMA CharactersOf ==
  ASSUME NEW s \in String, NEW i \in Nat \ {0}
  PROVE  At(s, i) \in Int /\ (At(s, i) = END_OF_STRING <=> i > Len(s))
BY DEF At, String, END_OF_STRING

(* Where there is no difference, s1 is the beginning of s2.                 *)
LEMMA NoDifference ==
  ASSUME NEW s1 \in String, NEW s2 \in String
  PROVE  /\ Differ(s1, s2) \subseteq Nat \ {0}
         /\ Differ(s1, s2) = {} => Len(s1) <= Len(s2) /\ \A i \in 1 .. Len(s1) : s1[i] = s2[i]
<1>1. DOMAIN s1 = 1 .. Len(s1) /\ Len(s1) \in Nat /\ Len(s2) \in Nat
  BY DEF String
<1>2. ASSUME Differ(s1, s2) = {}, NEW i \in 1 .. Len(s1) PROVE s1[i] = s2[i] /\ i <= Len(s2)
  <2>1. s1[i] = At(s2, i) /\ s1[i] # END_OF_STRING
    BY <1>1, <1>2 DEF Differ, String
  <2>2. i \in Nat \ {0}
    OBVIOUS
  <2>3. ~(i > Len(s2))
    BY <2>1, <2>2, CharactersOf
  <2> QED
    BY <1>1, <2>1, <2>2, <2>3 DEF At
<1>3. ASSUME Differ(s1, s2) = {} PROVE Len(s1) <= Len(s2)
  <2>1. CASE Len(s1) > 0
    <3>1. Len(s1) \in 1 .. Len(s1)
      BY <1>1, <2>1
    <3> QED
      BY <1>2, <1>3, <3>1
  <2> QED
    BY <1>1, <2>1
<1> QED
  BY <1>1, <1>2, <1>3 DEF Differ

(* Strings are equal where they do not differ and end together.             *)
LEMMA EqualStrings ==
  ASSUME NEW s1 \in String, NEW s2 \in String
  PROVE  s1 = s2 <=> Differ(s1, s2) = {} /\ Len(s1) = Len(s2)
<1>1. ASSUME s1 = s2 PROVE Differ(s1, s2) = {} /\ Len(s1) = Len(s2)
  BY <1>1 DEF Differ, At, String
<1>2. ASSUME Differ(s1, s2) = {}, Len(s1) = Len(s2) PROVE s1 = s2
  <2>1. \A i \in 1 .. Len(s1) : s1[i] = s2[i]
    BY <1>2, NoDifference
  <2> QED
    BY <1>2, <2>1 DEF String
<1> QED
  BY <1>1, <1>2

(* Where the first difference is, if the first string does not end before.  *)
LEMMA FirstDifference ==
  ASSUME NEW s1 \in String, NEW s2 \in String, Differ(s1, s2) # {}
  PROVE  \E i \in Differ(s1, s2) :
           /\ \A j \in Differ(s1, s2) : i <= j
           /\ strcmp(s1, s2) = IF s1[i] < At(s2, i) THEN -1 ELSE 1
<1> DEFINE T == Differ(s1, s2)
           m == CHOOSE i \in T : \A j \in T : i <= j
<1>1. strcmp(s1, s2) = IF s1[m] < At(s2, m) THEN -1 ELSE 1
  BY Zenon DEF strcmp, Differ
<1>2. T \subseteq Nat /\ T # {}
  BY NoDifference
<1> HIDE DEF T
<1>3. m \in T /\ \A j \in T : m <= j
  BY <1>2, LeastIsChosen
<1> HIDE DEF m
<1> QED
  BY <1>1, <1>3 DEF T

(* What strcmp answers if s1 ends before any difference.                    *)
LEMMA NoFirstDifference ==
  ASSUME NEW s1 \in String, NEW s2 \in String, Differ(s1, s2) = {}
  PROVE  strcmp(s1, s2) = IF Len(s2) = Len(s1) THEN 0 ELSE -1
BY Zenon DEF strcmp, Differ

(* strcmp answers 0 for equal strings and for no others.                    *)
LEMMA StrcmpTells ==
  ASSUME NEW s1 \in String, NEW s2 \in String
  PROVE  strcmp(s1, s2) = 0 <=> s1 = s2
<1>1. CASE Differ(s1, s2) # {}
  BY <1>1, FirstDifference, EqualStrings
<1>2. CASE Differ(s1, s2) = {}
  BY <1>2, NoFirstDifference, EqualStrings
<1> QED
  BY <1>1, <1>2

(* 7-bit characters are more than the NUL.                                  *)
LEMMA CharactersAre ==
  ASSUME NEW s \in String, SevenBit(s), NEW i \in Nat \ {0}
  PROVE  /\ At(s, i) \in Int /\ At(s, i) >= END_OF_STRING
         /\ i \in DOMAIN s => s[i] = At(s, i) /\ i <= Len(s) /\ At(s, i) > END_OF_STRING
         /\ i \notin DOMAIN s => i > Len(s) /\ At(s, i) = END_OF_STRING
<1>1. DOMAIN s = 1 .. Len(s) /\ Len(s) \in Nat
  BY DEF String
<1>2. CASE i \in DOMAIN s
  <2>1. s[i] > END_OF_STRING /\ s[i] \in Int
    BY <1>2 DEF SevenBit, String
  <2>2. At(s, i) = s[i]
    BY <1>1, <1>2 DEF At
  <2> QED
    BY <1>1, <1>2, <2>1, <2>2 DEF END_OF_STRING
<1>3. CASE i \notin DOMAIN s
  <2>1. i > Len(s)
    BY <1>1, <1>3
  <2>2. At(s, i) = END_OF_STRING
    BY <1>1, <2>1 DEF At
  <2> QED
    BY <1>1, <1>3, <2>1, <2>2 DEF END_OF_STRING
<1> QED
  BY <1>2, <1>3

(* If the one string differs first at i and i is in the other too, that is  *)
(* where the other differs first from it; if it is not, the other ends.     *)
LEMMA StrcmpTurns ==
  ASSUME NEW s1 \in String, NEW s2 \in String, SevenBit(s1), SevenBit(s2), Differ(s1, s2) # {}
  PROVE  strcmp(s1, s2) = -strcmp(s2, s1)
<1>1. PICK i \in Differ(s1, s2) :
             /\ \A j \in Differ(s1, s2) : i <= j
             /\ strcmp(s1, s2) = IF s1[i] < At(s2, i) THEN -1 ELSE 1
  BY FirstDifference
<1>2. i \in DOMAIN s1 /\ s1[i] # At(s2, i) /\ i \in Nat \ {0}
  BY NoDifference DEF Differ
<1>3. \A j \in Nat \ {0} : j < i => At(s1, j) = At(s2, j)
  <2>1. ASSUME NEW j \in Nat \ {0}, j < i PROVE At(s1, j) = At(s2, j)
    <3>1. j \notin Differ(s1, s2) /\ j \in DOMAIN s1
      <4>1. DOMAIN s1 = 1 .. Len(s1) /\ Len(s1) \in Nat
        BY DEF String
      <4> QED
        BY <1>1, <1>2, <2>1, <4>1
    <3> QED
      BY <3>1, CharactersAre DEF Differ
  <2> QED
    BY <2>1
<1>4. \A j \in Differ(s2, s1) : j \in DOMAIN s2 /\ j \in Nat \ {0} /\ At(s2, j) # At(s1, j) /\ j >= i
  <2>1. ASSUME NEW j \in Differ(s2, s1)
        PROVE  j \in DOMAIN s2 /\ j \in Nat \ {0} /\ At(s2, j) # At(s1, j)
    BY NoDifference, CharactersAre DEF Differ
  <2> QED
    BY <1>2, <1>3, <2>1
<1>5. CASE i \in DOMAIN s2
  <2>1. i \in Differ(s2, s1)
    BY <1>2, <1>5, CharactersAre DEF Differ
  <2>2. PICK k \in Differ(s2, s1) :
               /\ \A j \in Differ(s2, s1) : k <= j
               /\ strcmp(s2, s1) = IF s2[k] < At(s1, k) THEN -1 ELSE 1
    BY <2>1, FirstDifference
  <2>3. k = i
    BY <1>2, <1>4, <2>1, <2>2
  <2>4. /\ s1[i] = At(s1, i) /\ s2[i] = At(s2, i)
        /\ At(s1, i) \in Int /\ At(s2, i) \in Int /\ At(s1, i) # At(s2, i)
    BY <1>2, <1>5, CharactersAre
  <2> DEFINE a == At(s1, i)
             b == At(s2, i)
  <2>5. /\ strcmp(s1, s2) = IF a < b THEN -1 ELSE 1
        /\ strcmp(s2, s1) = IF b < a THEN -1 ELSE 1
        /\ a \in Int /\ b \in Int /\ a # b
    BY <1>1, <2>2, <2>3, <2>4
  <2> HIDE DEF a, b
  <2> QED
    BY <2>5
<1>6. CASE i \notin DOMAIN s2
  <2>1. /\ i > Len(s2) /\ At(s2, i) = END_OF_STRING /\ s1[i] > END_OF_STRING /\ s1[i] \in Int
        /\ i <= Len(s1)
    BY <1>2, <1>6, CharactersAre DEF String
  <2>2. strcmp(s1, s2) = 1
    BY <1>1, <2>1 DEF END_OF_STRING
  <2>3. Differ(s2, s1) = {}
    <3>1. ASSUME NEW j \in Differ(s2, s1) PROVE FALSE
      <4>1. Len(s2) \in Nat /\ j \in 1 .. Len(s2) /\ j >= i
        BY <1>4 DEF String
      <4> QED
        BY <1>2, <2>1, <4>1
    <3> QED
      BY <3>1
  <2>4. Len(s2) # Len(s1)
    BY <1>2, <2>1 DEF String
  <2>5. strcmp(s2, s1) = -1
    BY <2>3, <2>4, NoFirstDifference
  <2> DEFINE a == strcmp(s1, s2)
             b == strcmp(s2, s1)
  <2>6. a \in Int /\ b \in Int /\ a = 1 /\ b = -1
    BY <2>2, <2>5
  <2> HIDE DEF a, b
  <2>7. a \in Int /\ b \in Int /\ a + b = 0
    BY <2>6
  <2>8. a = -b
    BY <2>7
  <2> QED
    BY <2>8 DEF a, b
<1> QED
  BY <1>5, <1>6

(* strcmp is right for any two strings.                                     *)
LEMMA StrcmpAlwaysRight ==
  ASSUME NEW s1 \in String, NEW s2 \in String
  PROVE  StrcmpIsRight(s1, s2, strcmp(s1, s2))
<1>1. ASSUME SevenBit(s1), SevenBit(s2) PROVE strcmp(s1, s2) = -strcmp(s2, s1)
  <2>1. CASE Differ(s1, s2) # {}
    BY <1>1, <2>1, StrcmpTurns
  <2>2. CASE Differ(s1, s2) = {} /\ Differ(s2, s1) # {}
    <3>1. strcmp(s2, s1) = -strcmp(s1, s2)
      BY <1>1, <2>2, StrcmpTurns
    <3>2. strcmp(s1, s2) \in Int
      BY <2>2, NoFirstDifference
    <3> QED
      BY <3>1, <3>2
  <2>3. CASE Differ(s1, s2) = {} /\ Differ(s2, s1) = {}
    <3>1. Len(s1) = Len(s2)
      BY <2>3, NoDifference
    <3> QED
      BY <2>3, <3>1, NoFirstDifference
  <2> QED
    BY <2>1, <2>2, <2>3
<1> QED
  BY <1>1, StrcmpTells DEF StrcmpIsRight

(* The memory after each byte that memcpy copies.                           *)
Copies(after, memory, dest, src, count) ==
  /\ memcpy(memory, dest, src, count) = after[count]
  /\ after[0] = memory
  /\ \A n \in 1 .. count :
       after[n] = [after[n - 1] EXCEPT ![dest + n - 1] = after[n - 1][src + n - 1]]

(* There is such a sequence of memories.                                    *)
LEMMA MemcpySteps ==
  ASSUME NEW A, NEW V, NEW memory \in [A -> V], NEW dest \in Int, NEW src \in Int, NEW count \in Nat,
         \A n \in 1 .. count : dest + n - 1 \in A /\ src + n - 1 \in A
  PROVE  \E after \in [0 .. count -> [A -> V]] : Copies(after, memory, dest, src, count)
<1> DEFINE S == [A -> V]
           E(n, m) == [m EXCEPT ![dest + n - 1] = m[src + n - 1]]
           step == [n \in 1 .. count |-> [m \in S |-> E(n, m)]]
           it == CHOOSE f : f = [n \in 0 .. count |-> IF n = 0 THEN memory ELSE E(n, f[n - 1])]
<1>1. memory \in S /\ step \in [1 .. count -> [S -> S]]
  <2>1. ASSUME NEW n \in 1 .. count, NEW m \in S PROVE E(n, m) \in S
    BY <2>1
  <2> HIDE DEF E, S
  <2> QED
    BY <2>1 DEF S
<1>2. \E f \in [0 .. count -> S] : Iterates(f, count, memory, step)
  <2> HIDE DEF S, step
  <2> QED
    BY <1>1, Iteration
<1>3. PICK f \in [0 .. count -> S] :
             f = [n \in 0 .. count |-> IF n = 0 THEN memory ELSE step[n][f[n - 1]]]
  BY <1>2 DEF Iterates
<1>4. f = [n \in 0 .. count |-> IF n = 0 THEN memory ELSE E(n, f[n - 1])]
  <2>1. ASSUME NEW n \in 0 .. count, n # 0 PROVE step[n][f[n - 1]] = E(n, f[n - 1])
    <3>1. n \in 1 .. count /\ f[n - 1] \in S
      BY <2>1
    <3> HIDE DEF E, S
    <3> QED
      BY <3>1
  <2> HIDE DEF E, S, step
  <2> QED
    BY <1>3, <2>1
<1> HIDE DEF E
<1>5. it = [n \in 0 .. count |-> IF n = 0 THEN memory ELSE E(n, it[n - 1])]
  BY <1>4, Zenon
<1>6. memcpy(memory, dest, src, count) = it[count]
  BY Zenon DEF memcpy, E
<1> HIDE DEF it
<1>7. \A n \in 0 .. count : it[n] = IF n = 0 THEN memory ELSE E(n, it[n - 1])
  BY <1>5, Zenon
<1>8. it[0] = memory /\ \A n \in 1 .. count : it[n] = E(n, it[n - 1])
  BY <1>7
<1>9. \A n \in 0 .. count : it[n] \in S
  <2> DEFINE T == {n \in 0 .. count : it[n] \in S}
  <2>1. 0 \in T
    BY <1>1, <1>8
  <2>2. ASSUME NEW n \in 1 .. count, n - 1 \in T PROVE n \in T
    <3>1. E(n, it[n - 1]) \in S
      BY <2>2 DEF E
    <3> QED
      BY <1>8, <3>1
  <2> HIDE DEF T
  <2>3. \A n \in 0 .. count : n \in T
    BY <2>1, <2>2, CountingUp
  <2> QED
    BY <2>3 DEF T
<1>10. it \in [0 .. count -> S]
  <2> HIDE DEF S
  <2> QED
    BY <1>5, <1>9
<1> QED
  BY <1>6, <1>8, <1>10 DEF E, Copies

(* memcpy leaves in the destination what the source held, and the rest of   *)
(* the memory alone, by induction on the bytes copied.                      *)
LEMMA MemcpyAlwaysRight ==
  ASSUME NEW A, NEW V, NEW memory \in [A -> V], NEW dest \in Int, NEW src \in Int, NEW count \in Nat,
         \A n \in 1 .. count : dest + n - 1 \in A /\ src + n - 1 \in A, A \subseteq Int
  PROVE  MemcpyIsRight(memory, dest, src, count, memcpy(memory, dest, src, count))
<1> SUFFICES ASSUME dest <= src \/ src + count <= dest, NEW b \in A
             PROVE  memcpy(memory, dest, src, count)[b] =
                      IF b \in dest .. dest + count - 1 THEN memory[b - dest + src] ELSE memory[b]
  BY DEF MemcpyIsRight
<1>0. PICK after \in [0 .. count -> [A -> V]] : Copies(after, memory, dest, src, count)
  BY MemcpySteps
<1>1. /\ memcpy(memory, dest, src, count) = after[count]
      /\ after[0] = memory
      /\ \A n \in 1 .. count :
           after[n] = [after[n - 1] EXCEPT ![dest + n - 1] = after[n - 1][src + n - 1]]
  BY <1>0 DEF Copies
<1> DEFINE Holds(n) == \A a \in A : after[n][a] = IF dest <= a /\ a < dest + n
                                                  THEN memory[a - dest + src] ELSE memory[a]
           T == {n \in 0 .. count : Holds(n)}
<1>2. 0 \in T
  BY <1>1
<1>3. ASSUME NEW n \in 1 .. count, n - 1 \in T PROVE n \in T
  <2>1. src + n - 1 \in A /\ dest + n - 1 \in A
    OBVIOUS
  <2>2. after[n - 1][src + n - 1] = memory[src + n - 1]
    BY <1>3, <2>1
  <2>3. after[n - 1] \in [A -> V]
    BY <1>3
  <2>4. ASSUME NEW a \in A
        PROVE  after[n][a] = IF dest <= a /\ a < dest + n THEN memory[a - dest + src] ELSE memory[a]
    <3>1. after[n][a] = IF a = dest + n - 1 THEN memory[src + n - 1] ELSE after[n - 1][a]
      BY <1>1, <2>1, <2>2, <2>3
    <3>2. after[n - 1][a] = IF dest <= a /\ a < dest + (n - 1) THEN memory[a - dest + src] ELSE memory[a]
      BY <1>3
    <3>3. CASE a = dest + n - 1
      <4>1. a - dest + src = src + n - 1 /\ dest <= a /\ a < dest + n
        BY <3>3
      <4> QED
        BY <3>1, <3>3, <4>1
    <3>4. CASE a # dest + n - 1
      <4>1. a < dest + n <=> a < dest + (n - 1)
        BY <3>4
      <4> QED
        BY <3>1, <3>2, <3>4, <4>1
    <3> QED
      BY <3>3, <3>4
  <2> QED
    BY <2>4
<1>4. \A n \in 0 .. count : n \in T
  <2> HIDE DEF T
  <2> QED
    BY <1>2, <1>3, CountingUp
<1>5. Holds(count)
  BY <1>4
<1> QED
  BY <1>1, <1>5

(***************************************************************************)
(* itoa                                                                    *)
(***************************************************************************)
(* The recursive function NumberOf is made of.                              *)
NumberOfPrefix(digits, base) ==
  CHOOSE res : res = [n \in 0 .. Len(digits) |-> IF n = 0 THEN 0 ELSE res[n - 1] * base + digits[n]]

(* It exists, and goes from the first digit on.                             *)
LEMMA NumberOfSteps ==
  ASSUME NEW digits \in Seq(Int), NEW base \in Int
  PROVE  /\ NumberOf(digits, base) = NumberOfPrefix(digits, base)[Len(digits)]
         /\ NumberOfPrefix(digits, base)[0] = 0
         /\ \A n \in 0 .. Len(digits) : NumberOfPrefix(digits, base)[n] \in Int
         /\ \A n \in 1 .. Len(digits) :
              NumberOfPrefix(digits, base)[n] = NumberOfPrefix(digits, base)[n - 1] * base + digits[n]
<1> DEFINE N == Len(digits)
           E(n, m) == m * base + digits[n]
           step == [n \in 1 .. N |-> [m \in Int |-> E(n, m)]]
           it == NumberOfPrefix(digits, base)
<1>1. N \in Nat /\ 0 \in Int /\ step \in [1 .. N -> [Int -> Int]]
  OBVIOUS
<1>2. \E f \in [0 .. N -> Int] : Iterates(f, N, 0, step)
  <2> HIDE DEF N, step
  <2> QED
    BY <1>1, Iteration
<1>3. PICK f \in [0 .. N -> Int] : f = [n \in 0 .. N |-> IF n = 0 THEN 0 ELSE step[n][f[n - 1]]]
  BY <1>2 DEF Iterates
<1>4. f = [n \in 0 .. N |-> IF n = 0 THEN 0 ELSE E(n, f[n - 1])]
  <2>1. ASSUME NEW n \in 0 .. N, n # 0 PROVE step[n][f[n - 1]] = E(n, f[n - 1])
    <3>1. n \in 1 .. N /\ f[n - 1] \in Int
      BY <2>1
    <3> HIDE DEF E
    <3> QED
      BY <3>1
  <2> HIDE DEF E, step
  <2> QED
    BY <1>3, <2>1
<1>5. it = [n \in 0 .. N |-> IF n = 0 THEN 0 ELSE E(n, it[n - 1])]
  BY <1>4, Zenon DEF NumberOfPrefix
<1>6. NumberOf(digits, base) = it[N]
  BY Zenon DEF NumberOf, NumberOfPrefix
<1> HIDE DEF it
<1>7. \A n \in 0 .. N : it[n] = IF n = 0 THEN 0 ELSE E(n, it[n - 1])
  <2> HIDE DEF E
  <2> QED
    BY <1>5, Zenon
<1>8. it[0] = 0 /\ \A n \in 1 .. N : it[n] = E(n, it[n - 1])
  BY <1>7
<1>9. \A n \in 0 .. N : it[n] \in Int
  <2> DEFINE T == {n \in 0 .. N : it[n] \in Int}
  <2>1. 0 \in T
    BY <1>8
  <2>2. ASSUME NEW n \in 1 .. N, n - 1 \in T PROVE n \in T
    <3>1. E(n, it[n - 1]) \in Int
      BY <2>2
    <3> QED
      BY <1>8, <3>1
  <2> HIDE DEF T
  <2>3. \A n \in 0 .. N : n \in T
    BY <1>1, <2>1, <2>2, CountingUp
  <2> QED
    BY <2>3 DEF T
<1> QED
  BY <1>6, <1>8, <1>9 DEF it

(* It depends on the digits before only.                                    *)
LEMMA PrefixesAgree ==
  ASSUME NEW s \in Seq(Int), NEW t \in Seq(Int), NEW base \in Int, NEW N \in Nat,
         N <= Len(s), N <= Len(t), \A i \in 1 .. N : s[i] = t[i]
  PROVE  NumberOfPrefix(s, base)[N] = NumberOfPrefix(t, base)[N]
<1> DEFINE T == {n \in 0 .. N : NumberOfPrefix(s, base)[n] = NumberOfPrefix(t, base)[n]}
<1>1. 0 \in T
  BY NumberOfSteps
<1>2. ASSUME NEW n \in 1 .. N, n - 1 \in T PROVE n \in T
  <2>1. n \in 1 .. Len(s) /\ n \in 1 .. Len(t) /\ s[n] = t[n]
    OBVIOUS
  <2>2. /\ NumberOfPrefix(s, base)[n] = NumberOfPrefix(s, base)[n - 1] * base + s[n]
        /\ NumberOfPrefix(t, base)[n] = NumberOfPrefix(t, base)[n - 1] * base + t[n]
    BY <2>1, NumberOfSteps
  <2> QED
    BY <1>2, <2>1, <2>2
<1> HIDE DEF T
<1>3. \A n \in 0 .. N : n \in T
  BY <1>1, <1>2, CountingUp
<1> QED
  BY <1>3 DEF T

(* The value of digits with one more after them.                            *)
LEMMA NumberOfOneMore ==
  ASSUME NEW s \in Seq(Int), NEW d \in Int, NEW base \in Int
  PROVE  /\ NumberOf(s, base) \in Int
         /\ NumberOf(s \o <<d>>, base) = NumberOf(s, base) * base + d
<1> DEFINE t == s \o <<d>>
<1>1. /\ t \in Seq(Int) /\ Len(t) = Len(s) + 1 /\ t[Len(s) + 1] = d
      /\ \A i \in 1 .. Len(s) : t[i] = s[i]
  OBVIOUS
<1> HIDE DEF t
<1>2. NumberOf(t, base) = NumberOfPrefix(t, base)[Len(s) + 1]
  BY <1>1, NumberOfSteps
<1>3. Len(s) \in Nat /\ Len(s) + 1 \in 1 .. Len(t)
  BY <1>1
<1>4. NumberOfPrefix(t, base)[Len(s) + 1] = NumberOfPrefix(t, base)[Len(s)] * base + d
  <2> DEFINE n == Len(s) + 1
  <2>1. n \in 1 .. Len(t) /\ n - 1 = Len(s) /\ t[n] = d
    BY <1>1, <1>3
  <2> HIDE DEF n
  <2>2. NumberOfPrefix(t, base)[n] = NumberOfPrefix(t, base)[n - 1] * base + t[n]
    BY <1>1, <2>1, NumberOfSteps
  <2> QED
    BY <2>1, <2>2 DEF n
<1>5. NumberOfPrefix(t, base)[Len(s)] = NumberOfPrefix(s, base)[Len(s)]
  BY <1>1, <1>3, PrefixesAgree
<1>6. NumberOf(s, base) = NumberOfPrefix(s, base)[Len(s)] /\ NumberOf(s, base) \in Int
  BY <1>3, NumberOfSteps
<1> QED
  BY <1>2, <1>4, <1>5, <1>6 DEF t

(* The recursive function Written is made of.                               *)
From(base) ==
  CHOOSE from : from = [n \in Int |-> IF n = 0 THEN <<>>
                                      ELSE <<DigitOf(Remainder(n, base))>> \o from[Quotient(n, base)]]

(* A number divided by more than 1 comes nearer to 0.                       *)
LEMMA QuotientsShrink ==
  ASSUME NEW n \in Int, n # 0, NEW base \in Nat, base > 1
  PROVE  /\ Quotient(n, base) \in Int
         /\ Magnitude(Quotient(n, base)) \in Nat /\ Magnitude(n) \in Nat
         /\ Magnitude(Quotient(n, base)) < Magnitude(n)
<1>1. CASE n > 0
  <2>1. n \div base \in Nat /\ n \div base < n
    BY <1>1, Quotients
  <2> QED
    BY <1>1, <2>1 DEF Quotient, Magnitude
<1>2. CASE n < 0
  <2> DEFINE m == -n
             q == m \div base
  <2>1. m \in Nat /\ m > 0
    BY <1>2
  <2>2. q \in Nat /\ q < m
    BY <2>1, Quotients
  <2>3. Quotient(n, base) = -q
    BY <1>2 DEF Quotient
  <2>4. Magnitude(n) = m
    BY <1>2 DEF Magnitude
  <2> HIDE DEF m, q
  <2> QED
    BY <2>1, <2>2, <2>3, <2>4 DEF Magnitude
<1> QED
  BY <1>1, <1>2

(* It exists: each division leaves a number nearer to 0.                    *)
LEMMA WrittenFollows ==
  ASSUME NEW base \in Nat, base > 1
  PROVE  \A n \in Int :
           From(base)[n] = IF n = 0 THEN <<>>
                           ELSE <<DigitOf(Remainder(n, base))>> \o From(base)[Quotient(n, base)]
<1> DEFINE E(n, f) == IF n = 0 THEN <<>> ELSE <<DigitOf(Remainder(n, base))>> \o f[Quotient(n, base)]
           Body(f) == [n \in Int |-> E(n, f)]
           S == Seq(Int)
           D == [f \in [Int -> S] |-> Body(f)]
           mu == [n \in Int |-> Magnitude(n)]
<1>1. ASSUME NEW n \in Int, n # 0
      PROVE  DigitOf(Remainder(n, base)) \in Int
  <2>1. Quotient(n, base) \in Int
    BY <1>1, QuotientsShrink
  <2> DEFINE q == Quotient(n, base)
  <2>2. n - base * q \in Int
    <3> HIDE DEF q
    <3> QED
      BY <2>1 DEF q
  <2>3. Remainder(n, base) \in Int
    BY <2>2 DEF Remainder
  <2> QED
    BY <2>3 DEF DigitOf, UPPER_A
<1>2. mu \in [Int -> Nat]
  BY DEF Magnitude
<1>3. ASSUME NEW f \in [Int -> S] PROVE Body(f) \in [Int -> S]
  <2>1. ASSUME NEW n \in Int PROVE E(n, f) \in S
    <3>1. CASE n # 0
      <4>1. Quotient(n, base) \in Int
        BY <3>1, QuotientsShrink
      <4>2. DigitOf(Remainder(n, base)) \in Int
        BY <1>1, <3>1
      <4> DEFINE c == DigitOf(Remainder(n, base))
                 s == f[Quotient(n, base)]
      <4>3. c \in Int /\ s \in S
        BY <4>1, <4>2
      <4>4. E(n, f) = <<c>> \o s
        BY <3>1
      <4> HIDE DEF c, s
      <4>5. <<c>> \o s \in S
        BY <4>3
      <4> QED
        BY <4>4, <4>5
    <3>2. CASE n = 0
      BY <3>2
    <3> QED
      BY <3>1, <3>2
  <2> HIDE DEF E, S
  <2> QED
    BY <2>1
<1>4. ASSUME NEW f \in [Int -> S], NEW g \in [Int -> S], NEW n \in Int,
             \A m \in Int : mu[m] < mu[n] => f[m] = g[m]
      PROVE  D[f][n] = D[g][n]
  <2>1. D[f][n] = E(n, f) /\ D[g][n] = E(n, g)
    <3> HIDE DEF E, S
    <3> QED
      OBVIOUS
  <2>2. CASE n # 0
    <3>1. Quotient(n, base) \in Int /\ mu[Quotient(n, base)] < mu[n]
      BY <2>2, QuotientsShrink
    <3>2. f[Quotient(n, base)] = g[Quotient(n, base)]
      BY <1>4, <3>1
    <3> HIDE DEF D, S
    <3> QED
      BY <2>1, <2>2, <3>2
  <2>3. CASE n = 0
    <3> HIDE DEF D, S
    <3> QED
      BY <2>1, <2>3
  <2> QED
    BY <2>2, <2>3
<1>5. D \in [[Int -> S] -> [Int -> S]]
  <2> HIDE DEF Body, S
  <2> QED
    BY <1>3
<1>6. Grows(D, Int, S, mu)
  <2> HIDE DEF D, S, mu
  <2> QED
    BY <1>2, <1>4, <1>5 DEF Grows
<1>7. S # {}
  BY <<>> \in S
<1>8. \E f \in [Int -> S] : f = D[f]
  <2> HIDE DEF D, S, mu
  <2> QED
    BY <1>6, <1>7, Recursion
<1>9. PICK f \in [Int -> S] : f = Body(f)
  BY <1>8
<1> DEFINE it == From(base)
<1>10. it = Body(it)
  BY <1>9, Zenon DEF From
<1> HIDE DEF it, E
<1>11. \A n \in Int : it[n] = E(n, it)
  BY <1>10, Zenon
<1> QED
  BY <1>11, Zenon DEF it, E

(* The values of the digits, the last first.                                *)
Values(s) == [i \in 1 .. Len(s) |-> DigitValue(s[Len(s) - i + 1])]

(* The values of digits with one more before them.                          *)
LEMMA ValuesOfOneMore ==
  ASSUME NEW s \in Seq(Int), NEW c \in Int
  PROVE  /\ Values(s) \in Seq(Int)
         /\ Values(<<c>> \o s) = Values(s) \o <<DigitValue(c)>>
<1>1. ASSUME NEW k \in Int PROVE DigitValue(k) \in Int
  BY DEF DigitValue, UPPER_A
<1>2. ASSUME NEW u \in Seq(Int) PROVE Values(u) \in Seq(Int) /\ Len(Values(u)) = Len(u)
  <2>1. \A i \in 1 .. Len(u) : Len(u) - i + 1 \in 1 .. Len(u)
    OBVIOUS
  <2>2. ASSUME NEW i \in 1 .. Len(u) PROVE DigitValue(u[Len(u) - i + 1]) \in Int
    <3>1. u[Len(u) - i + 1] \in Int
      BY <2>1
    <3> QED
      BY <1>1, <3>1
  <2> QED
    BY <2>2 DEF Values
<1> DEFINE t == <<c>> \o s
           d == DigitValue(c)
           v == Values(s)
           r == v \o <<d>>
<1>3. /\ t \in Seq(Int) /\ Len(t) = Len(s) + 1 /\ t[1] = c
      /\ \A i \in 1 .. Len(s) : t[i + 1] = s[i]
  OBVIOUS
<1>4. d \in Int /\ v \in Seq(Int) /\ Len(v) = Len(s)
  BY <1>1, <1>2
<1> HIDE DEF t, d, v
<1>5. /\ r \in Seq(Int) /\ Len(r) = Len(s) + 1 /\ r[Len(s) + 1] = d
      /\ \A i \in 1 .. Len(s) : r[i] = v[i]
  BY <1>4
<1> HIDE DEF r
<1>6. ASSUME NEW i \in 1 .. Len(s) + 1 PROVE Values(t)[i] = r[i]
  <2>1. Values(t)[i] = DigitValue(t[Len(s) + 1 - i + 1])
    BY <1>3 DEF Values
  <2>2. CASE i = Len(s) + 1
    <3>1. Len(s) + 1 - i + 1 = 1
      BY <2>2
    <3> QED
      BY <1>3, <1>5, <2>1, <2>2, <3>1 DEF d
  <2>3. CASE i \in 1 .. Len(s)
    <3> DEFINE j == Len(s) - i + 1
    <3>1. Len(s) + 1 - i + 1 = j + 1 /\ j \in 1 .. Len(s)
      BY <2>3
    <3>2. Values(t)[i] = DigitValue(t[j + 1])
      BY <2>1, <3>1
    <3>3. t[j + 1] = s[j]
      BY <1>3, <3>1
    <3>4. r[i] = DigitValue(s[j])
      BY <1>5, <2>3 DEF Values, v
    <3> QED
      BY <3>2, <3>3, <3>4
  <2> QED
    BY <2>2, <2>3
<1>7. Values(t) = r
  BY <1>2, <1>3, <1>5, <1>6
<1> QED
  BY <1>2, <1>7 DEF t, r, d, v

(* A character has the value it was made of.                                *)
LEMMA DigitsKeepValue ==
  ASSUME NEW rem \in Nat
  PROVE  /\ DigitOf(rem) \in Int /\ DigitValue(DigitOf(rem)) = rem
         /\ DigitOf(rem) = 0 <=> rem = 0
         /\ rem <= 9 => DigitOf(rem) = rem
BY DEF DigitOf, DigitValue, UPPER_A

(* What the loop of itoa should have written of n.                          *)
WrittenRight(s, n, base) ==
  /\ s \in Seq(Int)
  /\ NumberOf(Values(s), base) = n
  /\ n > 0 => Len(s) >= 1 /\ s[Len(s)] # 0
  /\ \A i \in 1 .. Len(s) : /\ DigitValue(s[i]) \in 0 .. base - 1
                            /\ base = 10 => s[i] \in 0 .. 9

(* It has, by induction on the number.                                      *)
LEMMA NumbersAreWrittenRight ==
  ASSUME NEW base \in Nat, base > 1, NEW num \in Nat
  PROVE  WrittenRight(Written(num, base), num, base)
<1> DEFINE it == From(base)
           T == {n \in Nat : WrittenRight(it[n], n, base)}
<1>1. Written(num, base) = it[num]
  BY Zenon DEF Written, From
<1>2. \A n \in Nat :
        it[n] = IF n = 0 THEN <<>> ELSE <<DigitOf(Remainder(n, base))>> \o it[Quotient(n, base)]
  BY WrittenFollows
<1> HIDE DEF it
<1>3. ASSUME NEW n \in Nat, \A k \in Nat : k < n => k \in T PROVE n \in T
  <2>1. CASE n = 0
    <3> DEFINE u == <<>>
    <3>1. it[n] = u
      BY <1>2, <2>1
    <3>2. u \in Seq(Int) /\ Len(u) = 0 /\ Values(u) = u
      BY DEF Values
    <3> HIDE DEF u
    <3>3. NumberOf(u, base) = 0
      BY <3>2, NumberOfSteps, base \in Int
    <3>4. WrittenRight(u, n, base)
      BY <2>1, <3>2, <3>3 DEF WrittenRight
    <3> QED
      BY <3>1, <3>4
  <2>2. CASE n > 0
    <3> DEFINE q == n \div base
               r == n % base
               s == it[q]
               c == DigitOf(r)
               u == <<c>> \o s
    <3>1. /\ q \in Nat /\ q < n /\ r \in Nat /\ r < base /\ n = base * q + r
          /\ Quotient(n, base) = q
      BY <2>2, Division, Quotients DEF Quotient
    <3>2. Remainder(n, base) = r
      <4>1. Remainder(n, base) = n - base * q
        BY <3>1 DEF Remainder
      <4> DEFINE p == base * q
      <4>2. p \in Int
        <5> HIDE DEF q
        <5> QED
          BY <3>1
      <4> HIDE DEF p, q, r
      <4> QED
        BY <3>1, <4>1, <4>2 DEF p
    <3>3. it[n] = u
      <4>1. it[n] = <<DigitOf(Remainder(n, base))>> \o it[Quotient(n, base)]
        <5>1. n # 0
          BY <2>2
        <5> QED
          BY <1>2, <5>1, Zenon
      <4> HIDE DEF q, r
      <4> QED
        BY <3>1, <3>2, <4>1
    <3>4. WrittenRight(s, q, base)
      BY <1>3, <3>1
    <3>5. c \in Int /\ DigitValue(c) = r /\ (c = 0 <=> r = 0) /\ (r <= 9 => c = r)
      BY <3>1, DigitsKeepValue
    <3>6. q = 0 => n = r
      <4> HIDE DEF q, r
      <4> QED
        BY <3>1
    <3> HIDE DEF q, r, s, c
    <3>7. s \in Seq(Int)
      BY <3>4 DEF WrittenRight
    <3>8. /\ u \in Seq(Int) /\ Len(u) = Len(s) + 1 /\ u[1] = c
          /\ \A i \in 1 .. Len(s) : u[i + 1] = s[i]
      BY <3>5, <3>7
    <3>9. Values(s) \in Seq(Int) /\ Values(u) = Values(s) \o <<r>>
      BY <3>5, <3>7, ValuesOfOneMore
    <3>10. NumberOf(Values(u), base) = n
      <4> DEFINE v == Values(s)
      <4>1. v \in Seq(Int) /\ Values(u) = v \o <<r>> /\ NumberOf(v, base) = q
        BY <3>4, <3>9 DEF WrittenRight
      <4> HIDE DEF v
      <4>2. NumberOf(v \o <<r>>, base) = NumberOf(v, base) * base + r
        BY <3>1, <4>1, NumberOfOneMore
      <4>3. q * base = base * q
        BY <3>1
      <4> QED
        BY <3>1, <4>1, <4>2, <4>3
    <3> HIDE DEF u
    <3>11. Len(u) >= 1 /\ u[Len(u)] # 0
      <4>1. CASE q = 0
        <5>1. NumberOf(Values(s), base) = 0 /\ r # 0
          BY <2>2, <3>4, <3>6, <4>1 DEF WrittenRight
        <5>2. CASE Len(s) = 0
          BY <3>5, <3>8, <5>1, <5>2
        <5>3. CASE Len(s) > 0
          <6>1. it[q] = <<>>
            BY <1>2, <4>1
          <6> QED
            BY <5>3, <6>1 DEF s
        <5> QED
          BY <3>7, <5>2, <5>3
      <4>2. CASE q > 0
        <5>1. Len(s) >= 1 /\ s[Len(s)] # 0
          BY <3>4, <4>2 DEF WrittenRight
        <5>2. Len(s) \in 1 .. Len(s)
          BY <3>7, <5>1
        <5>3. u[Len(s) + 1] = s[Len(s)]
          BY <3>8, <5>2
        <5> QED
          BY <3>7, <3>8, <5>1, <5>3
      <4> QED
        BY <3>1, <4>1, <4>2
    <3>12. ASSUME NEW i \in 1 .. Len(u)
           PROVE  DigitValue(u[i]) \in 0 .. base - 1 /\ (base = 10 => u[i] \in 0 .. 9)
      <4>1. CASE i = 1
        <5>1. u[i] = c /\ r \in 0 .. base - 1
          BY <3>1, <3>8, <4>1
        <5>2. base = 10 => r <= 9
          BY <3>1
        <5> QED
          BY <3>1, <3>5, <5>1, <5>2
      <4>2. CASE i > 1
        <5>1. i - 1 \in 1 .. Len(s) /\ i = (i - 1) + 1
          BY <3>7, <3>8, <4>2
        <5>2. u[i] = s[i - 1]
          BY <3>8, <5>1
        <5> QED
          BY <3>4, <5>1, <5>2 DEF WrittenRight
      <4> QED
        BY <4>1, <4>2
    <3>13. WrittenRight(u, n, base)
      BY <3>8, <3>10, <3>11, <3>12 DEF WrittenRight
    <3> QED
      BY <3>3, <3>13
  <2> QED
    BY <2>1, <2>2
<1> HIDE DEF T
<1>4. num \in T
  BY <1>3, Induction
<1> QED
  BY <1>1, <1>4 DEF T

(* What reverse does.                                                       *)
LEMMA ReverseIs ==
  ASSUME NEW S, NEW s \in Seq(S)
  PROVE  /\ reverse(s) \in Seq(S) /\ Len(reverse(s)) = Len(s)
         /\ \A i \in 1 .. Len(s) : reverse(s)[i] = s[Len(s) - i + 1]
<1>1. ASSUME NEW i \in 1 .. Len(s) PROVE s[Len(s) - i + 1] \in S
  <2>1. Len(s) - i + 1 \in 1 .. Len(s)
    OBVIOUS
  <2> QED
    BY <2>1
<1>2. reverse(s) = [i \in 1 .. Len(s) |-> s[Len(s) - i + 1]]
  BY DEF reverse, Reverse
<1> QED
  BY <1>1, <1>2

(* No decimal digit is a blank.                                             *)
LEMMA DigitsAreNoSpace == ASSUME NEW c \in 0 .. 9 PROVE ~isspace(c)
BY DEF isspace, BLANK, TAB, CARRIAGE

(* Decimal digits are their own value.                                      *)
LEMMA SmallDigits == ASSUME NEW c \in 0 .. 9 PROVE DigitValue(c) = c
BY DEF DigitValue, UPPER_A

(* A blank is one.                                                          *)
LEMMA BlankIsSpace == isspace(BLANK)
BY DEF isspace

(* atoi reads the number behind the blanks.                                 *)
LEMMA AtoiSkipsBlanks ==
  ASSUME NEW s \in Seq(Int), Len(s) > 0, s[1] \in 0 .. 9
  PROVE  atoi(<<BLANK, BLANK>> \o s) = NumberOf(s, 10)
<1> DEFINE t == <<BLANK, BLANK>> \o s
           I == {i \in 1 .. Len(t) : ~isspace(t[i])}
           first == CHOOSE i \in I : \A j \in I : i <= j
<1>1. /\ t \in Seq(Int) /\ Len(t) = Len(s) + 2 /\ t[1] = BLANK /\ t[2] = BLANK
      /\ \A i \in 1 .. Len(s) : t[i + 2] = s[i]
  BY DEF BLANK
<1> HIDE DEF t
<1>2. t[3] = s[1]
  <2>1. 1 \in 1 .. Len(s) /\ 3 = 1 + 2
    OBVIOUS
  <2> QED
    BY <1>1, <2>1
<1>3. isspace(t[1]) /\ isspace(t[2]) /\ ~isspace(t[3])
  BY <1>1, <1>2, DigitsAreNoSpace, BlankIsSpace
<1>4. I \subseteq Nat /\ I # {} /\ 3 \in I /\ \A i \in I : i >= 3
  <2>1. 3 \in I
    BY <1>1, <1>3
  <2>2. ASSUME NEW i \in I PROVE i >= 3
    BY <1>3, <2>2
  <2> QED
    BY <2>1, <2>2
<1>5. atoi(t) = IF (IF I # {} THEN first ELSE 0) = 0 THEN 0
                ELSE NumberOf(SubSeq(t, IF I # {} THEN first ELSE 0, Len(t)), 10)
  BY Zenon DEF atoi, SelectInSeq, Min
<1> HIDE DEF I
<1>6. first \in I /\ \A j \in I : first <= j
  BY <1>4, LeastIsChosen
<1> HIDE DEF first
<1>7. first = 3
  BY <1>4, <1>6
<1>8. atoi(t) = NumberOf(SubSeq(t, 3, Len(t)), 10)
  BY <1>4, <1>5, <1>7
<1>9. SubSeq(t, 3, Len(t)) = s
  <2> DEFINE u == SubSeq(t, 3, Len(t))
  <2>1. u \in Seq(Int) /\ Len(u) = Len(s) /\ \A i \in 1 .. Len(s) : u[i] = t[i + 2]
    BY <1>1
  <2> HIDE DEF u
  <2>2. \A i \in 1 .. Len(s) : u[i] = s[i]
    BY <1>1, <2>1
  <2>3. u = s
    BY <2>1, <2>2
  <2> QED
    BY <2>3 DEF u
<1> QED
  BY <1>8, <1>9 DEF t

(* Digits of the right value are what ItoaIsRight asks for.                 *)
LEMMA WrittenNumbersAreRight ==
  ASSUME NEW base \in Nat, base > 1, NEW num \in Nat, NEW result \in Seq(Int),
         NumberOf([i \in DOMAIN result |-> DigitValue(result[i])], base) = num,
         \A i \in DOMAIN result : /\ DigitValue(result[i]) \in 0 .. base - 1
                                  /\ base = 10 => result[i] \in 0 .. 9,
         result[1] = 0 => num = 0, Len(result) > 0
  PROVE  ItoaIsRight(num, base, result)
<1>1. ASSUME base = 10 PROVE atoi(<<BLANK, BLANK>> \o result) = num
  <2>1. ASSUME NEW i \in DOMAIN result PROVE DigitValue(result[i]) = result[i]
    <3>1. result[i] \in 0 .. 9
      BY <1>1
    <3> QED
      BY <3>1, SmallDigits
  <2>2. [i \in DOMAIN result |-> DigitValue(result[i])] = result
    <3>1. result = [i \in DOMAIN result |-> result[i]]
      OBVIOUS
    <3> QED
      BY <2>1, <3>1
  <2>3. result[1] \in 0 .. 9
    BY <1>1, 1 \in DOMAIN result
  <2> QED
    BY <1>1, <2>2, <2>3, AtoiSkipsBlanks
<1>2. ~(num < 0)
  OBVIOUS
<1> QED
  BY <1>1, <1>2, Zenon DEF ItoaIsRight

(* itoa is right for numbers that are not negative.                         *)
LEMMA PositivesAreRight ==
  ASSUME NEW base \in Nat, base > 1, NEW num \in Nat
  PROVE  ItoaIsRight(num, base, itoa(num, base))
<1>1. CASE num = 0
  <2> DEFINE u == <<0>>
             v == [i \in DOMAIN u |-> DigitValue(u[i])]
  <2>1. itoa(num, base) = u
    BY <1>1, Zenon DEF itoa
  <2>2. u \in Seq(Int) /\ Len(u) = 1 /\ u[1] = 0 /\ DOMAIN u = {1}
    OBVIOUS
  <2> HIDE DEF u
  <2>3. DigitValue(0) = 0
    BY DEF DigitValue, UPPER_A
  <2>4. v = <<>> \o <<0>>
    BY <2>2, <2>3
  <2>5. NumberOf(v, base) = 0
    <3> DEFINE e == <<>>
    <3>2. e \in Seq(Int) /\ v = e \o <<0>>
      BY <2>4
    <3>3. Len(e) = 0
      OBVIOUS
    <3> HIDE DEF e, v
    <3>4. NumberOf(v, base) = NumberOf(e, base) * base + 0
      BY <3>2, NumberOfOneMore
    <3>5. NumberOf(e, base) = 0
      <4>1. e \in Seq(Int) /\ base \in Int
        BY <3>2
      <4> QED
        BY <3>3, <4>1, NumberOfSteps
    <3> QED
      BY <3>4, <3>5
  <2>6. ItoaIsRight(num, base, u)
    <3>1. \A i \in DOMAIN u : u[i] = 0
      BY <2>2
    <3>2. \A i \in DOMAIN u : DigitValue(u[i]) \in 0 .. base - 1 /\ u[i] \in 0 .. 9
      BY <2>3, <3>1
    <3> QED
      BY <1>1, <2>2, <2>5, <3>2, WrittenNumbersAreRight
  <2> QED
    BY <2>1, <2>6
<1>2. CASE num > 0
  <2> DEFINE s == Written(num, base)
             r == reverse(s)
  <2>1. WrittenRight(s, num, base)
    BY NumbersAreWrittenRight
  <2>2. itoa(num, base) = reverse(s \o <<>>)
    <3>1. ~(num < 0) /\ num # 0
      BY <1>2
    <3> QED
      BY <3>1, Zenon DEF itoa
  <2> HIDE DEF s
  <2>3. s \in Seq(Int) /\ s \o <<>> = s
    <3>1. s \in Seq(Int)
      BY <2>1 DEF WrittenRight
    <3> QED
      BY <3>1
  <2>4. r \in Seq(Int) /\ Len(r) = Len(s) /\ \A i \in 1 .. Len(s) : r[i] = s[Len(s) - i + 1]
    BY <2>3, ReverseIs
  <2> HIDE DEF r
  <2>5. [i \in DOMAIN r |-> DigitValue(r[i])] = Values(s)
    <3>1. DOMAIN r = 1 .. Len(s)
      BY <2>4
    <3> QED
      BY <2>4, <3>1 DEF Values
  <2>6. ASSUME NEW i \in DOMAIN r
        PROVE  DigitValue(r[i]) \in 0 .. base - 1 /\ (base = 10 => r[i] \in 0 .. 9)
    <3>1. i \in 1 .. Len(s)
      BY <2>4
    <3>2. r[i] = s[Len(s) - i + 1]
      BY <2>4, <3>1
    <3>3. Len(s) - i + 1 \in 1 .. Len(s)
      BY <3>1
    <3> QED
      BY <2>1, <3>2, <3>3 DEF WrittenRight
  <2>7. Len(r) > 0 /\ r[1] # 0
    <3>1. Len(s) >= 1 /\ s[Len(s)] # 0
      BY <1>2, <2>1 DEF WrittenRight
    <3>2. 1 \in 1 .. Len(s) /\ Len(s) - 1 + 1 = Len(s)
      BY <2>3, <3>1
    <3> QED
      BY <2>4, <3>1, <3>2
  <2>8. ItoaIsRight(num, base, r)
    <3>1. NumberOf([i \in DOMAIN r |-> DigitValue(r[i])], base) = num
      BY <2>1, <2>5 DEF WrittenRight
    <3> QED
      BY <2>4, <2>6, <2>7, <3>1, WrittenNumbersAreRight
  <2> QED
    BY <2>2, <2>3, <2>8 DEF r
<1> QED
  BY <1>1, <1>2

(* What is last comes first.                                                *)
LEMMA ReverseOfOneMore ==
  ASSUME NEW S, NEW s \in Seq(S), NEW c \in S
  PROVE  reverse(s \o <<c>>) = <<c>> \o reverse(s)
<1> DEFINE t == s \o <<c>>
           r == reverse(s)
           u == <<c>> \o r
<1>1. /\ t \in Seq(S) /\ Len(t) = Len(s) + 1 /\ t[Len(s) + 1] = c
      /\ \A i \in 1 .. Len(s) : t[i] = s[i]
  OBVIOUS
<1>2. r \in Seq(S) /\ Len(r) = Len(s) /\ \A i \in 1 .. Len(s) : r[i] = s[Len(s) - i + 1]
  BY ReverseIs
<1> HIDE DEF t, r
<1>3. /\ u \in Seq(S) /\ Len(u) = Len(s) + 1 /\ u[1] = c
      /\ \A i \in 1 .. Len(s) : u[i + 1] = r[i]
  BY <1>2
<1> HIDE DEF u
<1>4. /\ reverse(t) \in Seq(S) /\ Len(reverse(t)) = Len(s) + 1
      /\ \A i \in 1 .. Len(s) + 1 : reverse(t)[i] = t[Len(s) + 1 - i + 1]
  BY <1>1, ReverseIs
<1>5. ASSUME NEW i \in 1 .. Len(s) + 1 PROVE reverse(t)[i] = u[i]
  <2>1. CASE i = 1
    <3>1. Len(s) + 1 - i + 1 = Len(s) + 1
      BY <2>1
    <3> QED
      BY <1>1, <1>3, <1>4, <2>1, <3>1
  <2>2. CASE i > 1
    <3> DEFINE k == Len(s) + 1 - i + 1
               m == i - 1
    <3>1. k \in 1 .. Len(s) /\ m \in 1 .. Len(s) /\ i = m + 1 /\ Len(s) - m + 1 = k
      BY <2>2
    <3>2. reverse(t)[i] = t[k] /\ t[k] = s[k]
      BY <1>1, <1>4, <3>1
    <3>3. u[i] = r[m] /\ r[m] = s[k]
      BY <1>2, <1>3, <3>1
    <3> QED
      BY <3>2, <3>3
  <2> QED
    BY <2>1, <2>2
<1>6. reverse(t) = u
  BY <1>3, <1>4, <1>5
<1> QED
  BY <1>6 DEF t, u, r

(* itoa is right for every number in every base.                            *)
LEMMA ItoaAlwaysRight ==
  ASSUME NEW base \in Nat, base > 1, NEW num \in Int
  PROVE  ItoaIsRight(num, base, itoa(num, base))
<1>1. CASE num >= 0
  BY <1>1, PositivesAreRight
<1>2. CASE num < 0
  <2>1. ASSUME base = 10, num # INT_MIN PROVE itoa(num, 10) = <<MINUS>> \o itoa(-num, 10)
    <3> DEFINE s == Written(-num, 10)
    <3>1. -num \in Nat /\ -num > 0 /\ -num # 0 /\ num # 0 /\ ~(-num < 0)
      BY <1>2
    <3>2. itoa(num, 10) = reverse(s \o <<MINUS>>)
      BY <1>2, <2>1, <3>1, Zenon DEF itoa
    <3>3. itoa(-num, 10) = reverse(s \o <<>>)
      BY <3>1, Zenon DEF itoa
    <3>4. s \in Seq(Int)
      BY <2>1, <3>1, NumbersAreWrittenRight DEF WrittenRight
    <3>5. MINUS \in Int
      BY DEF MINUS
    <3> HIDE DEF s
    <3>6. s \o <<>> = s
      BY <3>4
    <3> QED
      BY <3>2, <3>3, <3>4, <3>5, <3>6, ReverseOfOneMore
  <2>2. ~(num >= 0)
    BY <1>2
  <2> QED
    BY <2>1, <2>2, Zenon DEF ItoaIsRight
<1> QED
  BY <1>1, <1>2

(***************************************************************************)
(* The console (Screen) and the keyboard (KernelServices).                 *)
(***************************************************************************)

(* Products, of which the provers know little.                              *)
LEMMA OneTimesMore ==
  ASSUME NEW x \in Int, NEW w \in Int
  PROVE  (x + 1) * w = x * w + w /\ x * w \in Int
OBVIOUS

(* And their order.                                                         *)
LEMMA MoreIsMore ==
  ASSUME NEW a \in Nat, NEW m \in Nat, NEW n \in Nat, m <= n
  PROVE  a * m <= a * n
<1>1. n - m \in Nat
  OBVIOUS
<1>2. a * n = a * m + a * (n - m)
  BY <1>1
<1>3. a * (n - m) \in Nat /\ a * m \in Nat /\ a * n \in Nat
  BY <1>1
<1> QED
  BY <1>2, <1>3

(* The c-th of n tables of a times b ends inside of all.                    *)
LEMMA TableArithmetic ==
  ASSUME NEW a \in Nat, NEW b \in Nat, NEW n \in Nat, NEW c \in Nat, c < n
  PROVE  a * b * c + a * b <= n * a * b
<1> DEFINE k == a * b
<1>1. k \in Nat /\ n * a * b = k * n
  OBVIOUS
<1> HIDE DEF k
<1>2. k * c + k = k * (c + 1)
  BY <1>1
<1>3. k * (c + 1) <= k * n
  BY <1>1, MoreIsMore
<1>4. k * c + k <= n * a * b
  BY <1>1, <1>2, <1>3
<1> QED
  BY <1>4 DEF k

(* The constants one by one.                                                *)
LEMMA SizesOfScreen ==
  /\ GLYPH_WIDTH \in Nat \ {0} /\ GLYPH_HEIGHT \in Nat \ {0} /\ GLYPH_BYTES \in Nat \ {0}
  /\ CHAR_COUNT \in Nat \ {0} /\ BITS \in Nat \ {0} /\ VGA_WIDTH \in Nat /\ VGA_HEIGHT \in Nat
  /\ VGA_WIDTH >= GLYPH_WIDTH /\ VGA_HEIGHT >= GLYPH_HEIGHT
BY FontAssumption

(* A character of seven bits is the int it becomes.                         *)
LEMMA CharsAreInts ==
  ASSUME NEW c \in Nat
  PROVE  Char(c) \in Int /\ (InFont(c) => Char(c) = c)
<1>1. BITS \in Nat /\ BITS - 1 \in Nat
  BY SizesOfScreen
<1> DEFINE half == 2 ^ (BITS - 1)
           whole == 2 ^ BITS
<1>2. half \in Int /\ whole \in Int
  BY <1>1
<1>3. Char(c) = IF c >= half THEN c - whole ELSE c
  BY Zenon DEF Char
<1>4. InFont(c) => c < half
  BY Zenon DEF InFont
<1> HIDE DEF half, whole
<1> QED
  BY <1>2, <1>3, <1>4

(* The glyph of a seven bit character that the font has is inside of its    *)
(* table.                                                                   *)
LEMMA GlyphsInTable ==
  ASSUME NEW c \in Nat
  PROVE  /\ font_get_char(font_6x8, Char(c)) \in Int
         /\ InFont(c) =>
              /\ 0 <= font_get_char(font_6x8, Char(c))
              /\ font_get_char(font_6x8, Char(c)) + GLYPH_BYTES * GLYPH_HEIGHT <= fontdata
<1> DEFINE f == font_6x8
           ch == Char(c)
<1>1. f.charCount = CHAR_COUNT /\ f.byteWidth = GLYPH_BYTES /\ f.height = GLYPH_HEIGHT
  BY DEF font_6x8
<1>2. ch \in Int /\ (InFont(c) => ch = c)
  BY CharsAreInts
<1> HIDE DEF f, ch
<1>3. font_get_char(f, ch) = IF ch > CHAR_COUNT THEN 0 ELSE GLYPH_BYTES * GLYPH_HEIGHT * ch
  BY <1>1 DEF font_get_char
<1>4. GLYPH_BYTES * GLYPH_HEIGHT * ch \in Int
  BY <1>2, SizesOfScreen
<1>5. ASSUME InFont(c)
      PROVE  0 <= font_get_char(f, ch)
             /\ font_get_char(f, ch) + GLYPH_BYTES * GLYPH_HEIGHT <= fontdata
  <2>1. c < CHAR_COUNT /\ ~(c > CHAR_COUNT)
    BY <1>5, SizesOfScreen DEF InFont
  <2>2. GLYPH_BYTES * GLYPH_HEIGHT * c + GLYPH_BYTES * GLYPH_HEIGHT
          <= CHAR_COUNT * GLYPH_BYTES * GLYPH_HEIGHT
    BY <2>1, SizesOfScreen, TableArithmetic
  <2>3. font_get_char(f, ch) = GLYPH_BYTES * GLYPH_HEIGHT * c
    BY <1>2, <1>3, <1>5, <2>1
  <2>4. 0 <= GLYPH_BYTES * GLYPH_HEIGHT * c
    BY SizesOfScreen
  <2> QED
    BY <2>2, <2>3, <2>4 DEF fontdata
<1>6. font_get_char(f, ch) \in Int
  BY <1>3, <1>4
<1> QED
  BY <1>5, <1>6 DEF f, ch

(* Where a glyph was drawn, the cursor is one character further.            *)
CursorIsRight(cursor) ==
  /\ cursor.x \in Nat /\ cursor.y \in Nat /\ cursor.glyph \in Seq(Int)
  /\ cursor.glyph # <<>> => \E x \in Nat : cursor.x = x + 1 /\ cursor.glyph[1] = x * GLYPH_WIDTH

(* What TextIsOnScreen says of one character.                               *)
FollowsRight(before, now, c) ==
  now.glyph # <<>> =>
    /\ now.glyph[1] + GLYPH_WIDTH <= VGA_WIDTH
    /\ now.glyph[2] + GLYPH_HEIGHT <= VGA_HEIGHT
    /\ InFont(c) => FromTable(now.glyph)
    /\ before.glyph # <<>> /\ VGA_WIDTH >= 2 * GLYPH_WIDTH =>
         SubSeq(now.glyph, 1, 2) # SubSeq(before.glyph, 1, 2)

(* Where putchar draws, whole glyphs are inside of the screen.              *)
LEMMA PutcharWraps ==
  ASSUME NEW x0 \in Nat, NEW y0 \in Nat,
         NEW x, x = (IF (x0 + 1) * GLYPH_WIDTH > VGA_WIDTH THEN 0 ELSE x0),
         NEW line, line = (IF (x0 + 1) * GLYPH_WIDTH > VGA_WIDTH THEN y0 + 1 ELSE y0),
         NEW y, y = (IF (line + 1) * GLYPH_HEIGHT > VGA_HEIGHT THEN 0 ELSE line)
  PROVE  /\ x \in Nat /\ x * GLYPH_WIDTH \in Int /\ x * GLYPH_WIDTH + GLYPH_WIDTH <= VGA_WIDTH
         /\ y \in Nat /\ y * GLYPH_HEIGHT \in Int /\ y * GLYPH_HEIGHT + GLYPH_HEIGHT <= VGA_HEIGHT
         /\ x = x0 \/ (x = 0 /\ (x0 + 1) * GLYPH_WIDTH > VGA_WIDTH)
<1>1. x \in Nat /\ line \in Nat /\ y \in Nat
  OBVIOUS
<1>2. x * GLYPH_WIDTH \in Int /\ y * GLYPH_HEIGHT \in Int
  BY <1>1, SizesOfScreen
<1>3. x * GLYPH_WIDTH + GLYPH_WIDTH <= VGA_WIDTH
  <2>1. CASE (x0 + 1) * GLYPH_WIDTH > VGA_WIDTH
    BY <2>1, SizesOfScreen
  <2>2. CASE ~((x0 + 1) * GLYPH_WIDTH > VGA_WIDTH)
    BY <2>2, SizesOfScreen, OneTimesMore
  <2> QED
    BY <2>1, <2>2
<1>4. y * GLYPH_HEIGHT + GLYPH_HEIGHT <= VGA_HEIGHT
  <2>1. CASE (line + 1) * GLYPH_HEIGHT > VGA_HEIGHT
    BY <2>1, SizesOfScreen
  <2>2. CASE ~((line + 1) * GLYPH_HEIGHT > VGA_HEIGHT)
    <3>1. y = line /\ (line + 1) * GLYPH_HEIGHT = line * GLYPH_HEIGHT + GLYPH_HEIGHT
      BY <1>1, <2>2, SizesOfScreen, OneTimesMore
    <3>2. (line + 1) * GLYPH_HEIGHT \in Int
      BY <1>1, SizesOfScreen
    <3> QED
      BY <2>2, <3>1, <3>2, SizesOfScreen
  <2> QED
    BY <2>1, <2>2
<1> QED
  BY <1>1, <1>2, <1>3, <1>4, Zenon

(* A line that is full does not end where it begins.                        *)
LEMMA FarPlace ==
  ASSUME NEW x \in Nat, (x + 1 + 1) * GLYPH_WIDTH > VGA_WIDTH, VGA_WIDTH >= 2 * GLYPH_WIDTH
  PROVE  x * GLYPH_WIDTH # 0
<1>1. x # 0
  BY SizesOfScreen
<1> QED
  BY <1>1, SizesOfScreen

(* putchar keeps the cursor right, and draws what FollowsRight says.        *)
LEMMA PutcharFollows ==
  ASSUME NEW cursor, CursorIsRight(cursor), NEW c \in Nat
  PROVE  /\ CursorIsRight(putchar(cursor, Char(c)))
         /\ FollowsRight(cursor, putchar(cursor, Char(c)), c)
         /\ putchar(cursor, Char(c)) \in [x : Nat, y : Nat, glyph : Seq(Int)]
<1> DEFINE ch == Char(c)
           x0 == cursor.x
           y0 == cursor.y
           line == IF (x0 + 1) * GLYPH_WIDTH > VGA_WIDTH THEN y0 + 1 ELSE y0
           x == IF (x0 + 1) * GLYPH_WIDTH > VGA_WIDTH THEN 0 ELSE x0
           y == IF (line + 1) * GLYPH_HEIGHT > VGA_HEIGHT THEN 0 ELSE line
           gx == x * GLYPH_WIDTH
           gy == y * GLYPH_HEIGHT
           gf == font_get_char(font_6x8, ch)
           now == putchar(cursor, ch)
<1>1. x0 \in Nat /\ y0 \in Nat
  BY DEF CursorIsRight
<1>2. now = [x |-> IF ch \in {LINE_FEED, CARRIAGE_RETURN} THEN 0 ELSE x + 1,
             y |-> IF ch = LINE_FEED THEN y + 1 ELSE y,
             glyph |-> IF ch \in {LINE_FEED, CARRIAGE_RETURN} THEN <<>> ELSE <<gx, gy, gf>>]
  BY Zenon DEF putchar
<1>3. /\ x \in Nat /\ gx \in Int /\ gx + GLYPH_WIDTH <= VGA_WIDTH
      /\ y \in Nat /\ gy \in Int /\ gy + GLYPH_HEIGHT <= VGA_HEIGHT
      /\ x = x0 \/ (x = 0 /\ (x0 + 1) * GLYPH_WIDTH > VGA_WIDTH)
  <2> HIDE DEF x0, y0
  <2> QED
    BY <1>1, PutcharWraps
<1>4. gf \in Int /\ (InFont(c) => 0 <= gf /\ gf + GLYPH_BYTES * GLYPH_HEIGHT <= fontdata)
  BY GlyphsInTable
<1> HIDE DEF ch, y, gy, gf, now
<1>5. CASE ch \in {LINE_FEED, CARRIAGE_RETURN}
  <2> DEFINE up == IF ch = LINE_FEED THEN y + 1 ELSE y
  <2>1. up \in Nat
    BY <1>3
  <2>2. now = [x |-> 0, y |-> up, glyph |-> <<>>]
    BY <1>2, <1>5
  <2> HIDE DEF up, x
  <2>3. now.x = 0 /\ now.y = up /\ now.glyph = <<>> /\ now \in [x : Nat, y : Nat, glyph : Seq(Int)]
    BY <2>1, <2>2
  <2>4. CursorIsRight(now) /\ FollowsRight(cursor, now, c)
    BY <2>1, <2>3 DEF CursorIsRight, FollowsRight
  <2> QED
    BY <2>3, <2>4 DEF now, ch
<1>6. CASE ch \notin {LINE_FEED, CARRIAGE_RETURN}
  <2> DEFINE g == <<gx, gy, gf>>
  <2>1. now = [x |-> x + 1, y |-> y, glyph |-> g]
    BY <1>2, <1>6
  <2>2. g \in Seq(Int) /\ Len(g) = 3 /\ g[1] = gx /\ g[2] = gy /\ g[3] = gf /\ g # <<>>
    <3> HIDE DEF gx
    <3> QED
      BY <1>3, <1>4
  <2> HIDE DEF g
  <2>3. now.x = x + 1 /\ now.y = y /\ now.glyph = g
    <3> HIDE DEF x
    <3> QED
      BY <2>1
  <2>4. CursorIsRight(now)
    <3> HIDE DEF x
    <3> QED
      BY <1>3, <2>2, <2>3 DEF CursorIsRight
  <2>5. ASSUME cursor.glyph # <<>>, VGA_WIDTH >= 2 * GLYPH_WIDTH
        PROVE  SubSeq(g, 1, 2) # SubSeq(cursor.glyph, 1, 2)
    <3> DEFINE b == cursor.glyph
    <3>1. PICK k \in Nat : x0 = k + 1 /\ b[1] = k * GLYPH_WIDTH
      BY <2>5 DEF CursorIsRight
    <3>2. b \in Seq(Int) /\ Len(b) >= 1
      <4>1. b \in Seq(Int)
        BY DEF CursorIsRight
      <4> QED
        BY <2>5, <4>1
    <3> HIDE DEF x0, b
    <3>3. gx # k * GLYPH_WIDTH
      <4>1. CASE x = x0
        <5>1. gx = k * GLYPH_WIDTH + GLYPH_WIDTH
          BY <3>1, <4>1, SizesOfScreen, OneTimesMore
        <5>2. k * GLYPH_WIDTH \in Int
          BY SizesOfScreen
        <5> QED
          BY <5>1, <5>2, SizesOfScreen
      <4>2. CASE x = 0 /\ (x0 + 1) * GLYPH_WIDTH > VGA_WIDTH
        <5>1. k * GLYPH_WIDTH # 0
          BY <2>5, <3>1, <4>2, FarPlace
        <5>2. gx = 0
          BY <4>2, SizesOfScreen
        <5> QED
          BY <5>1, <5>2
      <4> QED
        BY <1>3, <4>1, <4>2
    <3>4. SubSeq(g, 1, 2)[1] = g[1]
      BY <2>2
    <3>5. SubSeq(b, 1, 2)[1] = b[1]
      BY <3>2, SubSeqProperties
    <3> QED
      BY <2>2, <3>1, <3>3, <3>4, <3>5 DEF b
  <2>6. FollowsRight(cursor, now, c)
    BY <1>3, <1>4, <2>2, <2>3, <2>5, Zenon DEF FollowsRight, FromTable
  <2>7. now \in [x : Nat, y : Nat, glyph : Seq(Int)]
    <3> HIDE DEF x
    <3> QED
      BY <1>3, <2>1, <2>2
  <2> QED
    BY <2>4, <2>6, <2>7 DEF now, ch
<1> QED
  BY <1>5, <1>6

(* So does puts, by induction on the text.                                  *)
LEMMA PutsSteps ==
  ASSUME NEW s \in Seq(Nat), NEW cursor, CursorIsRight(cursor),
         cursor \in [x : Nat, y : Nat, glyph : Seq(Int)]
  PROVE  /\ Len(puts(cursor, s)) = Len(s) + 1
         /\ \A i \in 2 .. Len(s) + 1 :
              FollowsRight(puts(cursor, s)[i - 1], puts(cursor, s)[i], s[i - 1])
<1> DEFINE N == Len(s)
           S == {u \in [x : Nat, y : Nat, glyph : Seq(Int)] : CursorIsRight(u)}
           E(n, u) == putchar(u, Char(s[n]))
           step == [n \in 1 .. N |-> [u \in S |-> E(n, u)]]
           it == CHOOSE f : f = [n \in 0 .. N |-> IF n = 0 THEN cursor ELSE E(n, f[n - 1])]
<1>1. ASSUME NEW n \in 1 .. N, NEW u \in S PROVE E(n, u) \in S /\ FollowsRight(u, E(n, u), s[n])
  <2>1. s[n] \in Nat /\ CursorIsRight(u)
    OBVIOUS
  <2> QED
    BY <2>1, PutcharFollows
<1>2. N \in Nat /\ cursor \in S
  OBVIOUS
<1> HIDE DEF E, S
<1>3. step \in [1 .. N -> [S -> S]]
  BY <1>1
<1>4. \E f \in [0 .. N -> S] : Iterates(f, N, cursor, step)
  <2> HIDE DEF step, N
  <2> QED
    BY <1>2, <1>3, Iteration
<1>5. PICK f \in [0 .. N -> S] : f = [n \in 0 .. N |-> IF n = 0 THEN cursor ELSE step[n][f[n - 1]]]
  BY <1>4 DEF Iterates
<1>6. f = [n \in 0 .. N |-> IF n = 0 THEN cursor ELSE E(n, f[n - 1])]
  <2>1. ASSUME NEW n \in 0 .. N, n # 0 PROVE step[n][f[n - 1]] = E(n, f[n - 1])
    <3>1. n \in 1 .. N /\ f[n - 1] \in S
      BY <2>1
    <3> QED
      BY <3>1
  <2> HIDE DEF step
  <2> QED
    BY <1>5, <2>1
<1>7. it = [n \in 0 .. N |-> IF n = 0 THEN cursor ELSE E(n, it[n - 1])]
  BY <1>6, Zenon
<1>8. puts(cursor, s) = [i \in 1 .. N + 1 |-> it[i - 1]]
  BY Zenon DEF puts, E
<1> HIDE DEF it
<1>9. \A n \in 0 .. N : it[n] = IF n = 0 THEN cursor ELSE E(n, it[n - 1])
  BY <1>7, Zenon
<1>10. it[0] = cursor /\ \A n \in 1 .. N : it[n] = E(n, it[n - 1])
  BY <1>9
<1>11. \A n \in 0 .. N : it[n] \in S
  <2> DEFINE T == {n \in 0 .. N : it[n] \in S}
  <2>1. 0 \in T
    BY <1>2, <1>10
  <2>2. ASSUME NEW n \in 1 .. N, n - 1 \in T PROVE n \in T
    <3>1. it[n - 1] \in S
      BY <2>2
    <3>2. E(n, it[n - 1]) \in S
      BY <1>1, <3>1
    <3>3. it[n] \in S
      BY <1>10, <3>2
    <3> QED
      BY <3>3
  <2> HIDE DEF T
  <2>3. \A n \in 0 .. N : n \in T
    BY <1>2, <2>1, <2>2, CountingUp
  <2> QED
    BY <2>3 DEF T
<1>12. ASSUME NEW i \in 2 .. N + 1
       PROVE  FollowsRight(puts(cursor, s)[i - 1], puts(cursor, s)[i], s[i - 1])
  <2>1. i - 1 \in 1 .. N /\ i - 1 - 1 \in 0 .. N /\ i - 1 \in 1 .. N + 1 /\ i \in 1 .. N + 1
    OBVIOUS
  <2>2. puts(cursor, s)[i - 1] = it[i - 1 - 1] /\ puts(cursor, s)[i] = it[i - 1]
    BY <1>8, <2>1
  <2>3. it[i - 1] = E(i - 1, it[i - 1 - 1])
    BY <1>10, <2>1
  <2> QED
    BY <1>1, <1>11, <2>1, <2>2, <2>3
<1>13. Len(puts(cursor, s)) = N + 1
  <2> HIDE DEF N
  <2> QED
    BY <1>2, <1>8
<1> QED
  BY <1>12, <1>13

(* A text of any length is on the screen.                                   *)
LEMMA TextsAreOnScreen ==
  ASSUME NEW s \in Seq(Nat)
  PROVE  TextIsOnScreen(s, puts([x |-> 0, y |-> 0, glyph |-> <<>>], s))
<1> DEFINE cursor == [x |-> 0, y |-> 0, glyph |-> <<>>]
           done == puts(cursor, s)
<1>1. cursor \in [x : Nat, y : Nat, glyph : Seq(Int)] /\ CursorIsRight(cursor)
  BY DEF CursorIsRight
<1> HIDE DEF cursor
<1>2. Len(done) = Len(s) + 1
      /\ \A i \in 2 .. Len(s) + 1 : FollowsRight(done[i - 1], done[i], s[i - 1])
  BY <1>1, PutsSteps
<1> HIDE DEF done
<1>3. TextIsOnScreen(s, done)
  BY <1>2, Zenon DEF TextIsOnScreen, FollowsRight
<1> QED
  BY <1>3 DEF done, cursor

(***************************************************************************)
(* kb_update                                                               *)
(***************************************************************************)
(* The keys among the first n that change shift.                            *)
Shifts(keys, keycodes, n) == {i \in 1 .. n : keys[1][keycodes[i]] \in {SHI, NSHI}}

(* Shift is down after n keys: it went down last.                           *)
ShiftIsDown(keys, keycodes, n) ==
  LET shifts == Shifts(keys, keycodes, n)
      latest == CHOOSE i \in shifts : \A j \in shifts : j <= i
  IN shifts # {} /\ keys[1][keycodes[latest]] = SHI

(* The n-th key decides, or leaves it as it was.                            *)
LEMMA NewShift ==
  ASSUME NEW keys, NEW keycodes, NEW n \in Nat \ {0}
  PROVE  ShiftIsDown(keys, keycodes, n) <=>
           \/ keys[1][keycodes[n]] = SHI
           \/ keys[1][keycodes[n]] \notin {SHI, NSHI} /\ ShiftIsDown(keys, keycodes, n - 1)
<1> DEFINE T == Shifts(keys, keycodes, n)
           key == keys[1][keycodes[n]]
           latest == CHOOSE i \in T : \A j \in T : j <= i
<1>1. CASE key \in {SHI, NSHI}
  <2>1. n \in T /\ \A j \in T : j <= n /\ j \in Nat
    BY <1>1 DEF Shifts
  <2> HIDE DEF T
  <2>2. latest \in T /\ \A j \in T : j <= latest
    BY <2>1
  <2> HIDE DEF latest
  <2>3. latest = n
    BY <2>1, <2>2
  <2>4. ShiftIsDown(keys, keycodes, n) <=> key = SHI
    BY <2>1, <2>3, Zenon DEF ShiftIsDown, T, latest
  <2> QED
    BY <1>1, <2>4
<1>2. CASE key \notin {SHI, NSHI}
  <2>1. T = Shifts(keys, keycodes, n - 1)
    BY <1>2 DEF Shifts
  <2>2. ShiftIsDown(keys, keycodes, n) <=> ShiftIsDown(keys, keycodes, n - 1)
    BY <2>1, Zenon DEF ShiftIsDown, T
  <2> QED
    BY <1>2, <2>2
<1> QED
  BY <1>1, <1>2

(* After any keys each character is of the layout that held, by induction   *)
(* on the keys.                                                             *)
LEMMA KeysAreAlwaysRight ==
  ASSUME NEW keys, NEW K, NEW keycodes \in Seq(K)
  PROVE  KeysAreRight(keys, keycodes, kb_updates(keys, keycodes))
<1> DEFINE N == Len(keycodes)
           V == {0} \cup {keychr(keys[w], keycodes[n]) : w \in {1, 2}, n \in 1 .. N}
           none == [status |-> 0, char |-> 0]
           S == [status : {0, 1}, char : V]
           E(n, u) == kb_update(keys, u.status, keycodes[n])
           step == [n \in 1 .. N |-> [u \in S |-> E(n, u)]]
           it == CHOOSE f : f = [n \in 0 .. N |-> IF n = 0 THEN none ELSE E(n, f[n - 1])]
<1>1. N \in Nat /\ DOMAIN keycodes = 1 .. N
  OBVIOUS
<1>2. ASSUME NEW n \in 1 .. N, NEW status \in {0, 1}
      PROVE  LET key == keys[1][keycodes[n]]
                 u == kb_update(keys, status, keycodes[n])
             IN /\ u \in S
                /\ u.status = IF key = SHI THEN 1 ELSE IF key = NSHI THEN 0 ELSE status
                /\ u.char = keys[u.status + 1][keycodes[n]]
  <2> DEFINE key == keys[1][keycodes[n]]
             now == IF key = SHI THEN 1 ELSE IF key = NSHI THEN 0 ELSE status
             char == keys[now + 1][keycodes[n]]
             u == kb_update(keys, status, keycodes[n])
  <2>1. SHI # NSHI
    BY DEF SHI, NSHI
  <2>2. u = [status |-> now, char |-> char]
    BY <2>1 DEF kb_update, keychr
  <2>3. now \in {0, 1} /\ now + 1 \in {1, 2}
    OBVIOUS
  <2>4. char \in V
    <3> HIDE DEF now
    <3> QED
      BY <2>3 DEF keychr
  <2> HIDE DEF now, char, V
  <2>5. u \in S /\ u.status = now /\ u.char = char
    BY <2>2, <2>3, <2>4
  <2> HIDE DEF u, S
  <2> QED
    BY <2>5 DEF now, char, u
<1>3. none \in S
  OBVIOUS
<1>4. ASSUME NEW n \in 1 .. N, NEW u \in S PROVE E(n, u) \in S
  <2>1. u.status \in {0, 1}
    OBVIOUS
  <2> HIDE DEF S
  <2> QED
    BY <1>2, <2>1
<1>5. \A u \in S : u.status \in {0, 1}
  OBVIOUS
<1> HIDE DEF E, S, none
<1>6. step \in [1 .. N -> [S -> S]]
  BY <1>4
<1>7. \E f \in [0 .. N -> S] : Iterates(f, N, none, step)
  <2> HIDE DEF step, N
  <2> QED
    BY <1>1, <1>3, <1>6, Iteration
<1>8. PICK f \in [0 .. N -> S] : f = [n \in 0 .. N |-> IF n = 0 THEN none ELSE step[n][f[n - 1]]]
  BY <1>7 DEF Iterates
<1>9. f = [n \in 0 .. N |-> IF n = 0 THEN none ELSE E(n, f[n - 1])]
  <2>1. ASSUME NEW n \in 0 .. N, n # 0 PROVE step[n][f[n - 1]] = E(n, f[n - 1])
    <3>1. n \in 1 .. N /\ f[n - 1] \in S
      BY <2>1
    <3> QED
      BY <3>1
  <2> HIDE DEF step
  <2> QED
    BY <1>8, <2>1
<1>10. it = [n \in 0 .. N |-> IF n = 0 THEN none ELSE E(n, it[n - 1])]
  BY <1>9, Zenon
<1>11. kb_updates(keys, keycodes) = [n \in DOMAIN keycodes |-> it[n].char]
  BY Zenon DEF kb_updates, E, none
<1> HIDE DEF it
<1>12. \A n \in 0 .. N : it[n] = IF n = 0 THEN none ELSE E(n, it[n - 1])
  BY <1>10, Zenon
<1>13. it[0] = none /\ \A n \in 1 .. N : it[n] = E(n, it[n - 1])
  BY <1>12
<1> DEFINE Right(n) == /\ it[n] \in S
                       /\ it[n].status = IF ShiftIsDown(keys, keycodes, n) THEN 1 ELSE 0
                       /\ n > 0 => it[n].char = keys[it[n].status + 1][keycodes[n]]
           T == {n \in 0 .. N : Right(n)}
<1>14. 0 \in T
  <2>1. ~ShiftIsDown(keys, keycodes, 0)
    BY DEF ShiftIsDown, Shifts
  <2>2. none.status = 0
    BY DEF none
  <2> QED
    BY <1>3, <1>13, <2>1, <2>2
<1>15. ASSUME NEW n \in 1 .. N, n - 1 \in T PROVE n \in T
  <2> DEFINE key == keys[1][keycodes[n]]
             before == it[n - 1]
             now == it[n]
  <2>1. before.status \in {0, 1} /\ before.status = IF ShiftIsDown(keys, keycodes, n - 1) THEN 1 ELSE 0
    BY <1>5, <1>15
  <2>2. now = kb_update(keys, before.status, keycodes[n])
    BY <1>13 DEF E
  <2> HIDE DEF before, now
  <2>3. /\ now \in S
        /\ now.status = IF key = SHI THEN 1 ELSE IF key = NSHI THEN 0 ELSE before.status
        /\ now.char = keys[now.status + 1][keycodes[n]]
    BY <1>2, <2>1, <2>2
  <2>4. ShiftIsDown(keys, keycodes, n) <=>
          key = SHI \/ (key \notin {SHI, NSHI} /\ ShiftIsDown(keys, keycodes, n - 1))
    BY NewShift
  <2>5. SHI # NSHI
    BY DEF SHI, NSHI
  <2>6. now.status = IF ShiftIsDown(keys, keycodes, n) THEN 1 ELSE 0
    BY <2>1, <2>3, <2>4, <2>5
  <2> QED
    BY <2>3, <2>6 DEF now
<1>16. \A n \in 0 .. N : n \in T
  <2> HIDE DEF T, N
  <2> QED
    BY <1>1, <1>14, <1>15, CountingUp
<1>17. ASSUME NEW n \in 1 .. N
       PROVE  kb_updates(keys, keycodes)[n] =
                keys[IF ShiftIsDown(keys, keycodes, n) THEN 2 ELSE 1][keycodes[n]]
  <2>1. Right(n)
    BY <1>16
  <2>2. kb_updates(keys, keycodes)[n] = it[n].char
    BY <1>1, <1>11
  <2> QED
    BY <2>1, <2>2
<1> QED
  BY <1>1, <1>17, Zenon DEF KeysAreRight, ShiftIsDown, Shifts

(***************************************************************************)
(* The drawing of pixels (Screen).                                         *)
(***************************************************************************)

(* The element a fold takes next.                                           *)
AnyOf(s) == CHOOSE d \in s : TRUE

(* Places on and off the screen.                                            *)
Pixels == Int \X Int

(* Functions from some pixels to colours.                                   *)
Drawings(Colors) == UNION {[D -> Colors] : D \in SUBSET Pixels}

(* A fold that draws at the places P with the colours C, the elements of s. *)
DrawStep(f, s, P, C) ==
  IF s = {} THEN <<>>
  ELSE vga_draw_pixel(f[s \ {AnyOf(s)}], P[AnyOf(s)][1], P[AnyOf(s)][2], C[AnyOf(s)])

(* The empty drawing is one.                                                *)
LEMMA NothingDrawn ==
  ASSUME NEW Colors
  PROVE  <<>> \in [{} -> Colors] /\ <<>> \in Drawings(Colors)
<1>1. <<>> \in [{} -> Colors]
  OBVIOUS
<1>2. {} \in SUBSET Pixels
  OBVIOUS
<1> QED
  BY <1>1, <1>2 DEF Drawings

(* What one pixel changes.                                                  *)
PixelIsDrawn(now, screen, D, p, color, Colors) ==
  IF OnScreen(p[1], p[2])
  THEN now \in [D \cup {p} -> Colors] /\ now[p] = color /\ \A q \in D : q # p => now[q] = screen[q]
  ELSE now = screen

(* What vga_draw_pixel does.                                                *)
LEMMA PixelsAreDrawn ==
  ASSUME NEW Colors, NEW D \in SUBSET Pixels, NEW screen \in [D -> Colors], NEW p \in Pixels,
         NEW color \in Colors
  PROVE  /\ PixelIsDrawn(vga_draw_pixel(screen, p[1], p[2], color), screen, D, p, color, Colors)
         /\ vga_draw_pixel(screen, p[1], p[2], color) \in Drawings(Colors)
<1> DEFINE x == p[1]
           y == p[2]
           now == vga_draw_pixel(screen, x, y, color)
<1>1. <<x, y>> = p
  BY DEF Pixels
<1>2. ASSUME OnScreen(x, y)
      PROVE  /\ now \in [D \cup {p} -> Colors]
             /\ now[p] = color /\ \A q \in D : q # p => now[q] = screen[q]
  <2>1. now = [q \in D \cup {p} |-> IF q = p THEN color ELSE screen[q]]
    BY <1>1, <1>2 DEF vga_draw_pixel, PutPixel
  <2> HIDE DEF now
  <2> QED
    BY <2>1
<1>3. ASSUME ~OnScreen(x, y) PROVE now = screen
  BY <1>3 DEF vga_draw_pixel
<1>4. now \in Drawings(Colors)
  <2> HIDE DEF now
  <2>1. D \cup {p} \in SUBSET Pixels
    OBVIOUS
  <2> QED
    BY <1>2, <1>3, <2>1 DEF Drawings
<1> QED
  BY <1>2, <1>3, <1>4, Zenon DEF PixelIsDrawn

(* f is the recursive function such a fold is made of.                      *)
Draws(f, A, P, C) == f = [s \in SUBSET A |-> DrawStep(f, s, P, C)]

(* There is one: each step leaves a smaller set.                            *)
LEMMA DrawingExists ==
  ASSUME NEW A, IsFiniteSet(A), NEW Colors, NEW P \in [A -> Pixels], NEW C \in [A -> Colors]
  PROVE  \E f : Draws(f, A, P, C)
<1> DEFINE B == SUBSET A
           S == Drawings(Colors)
           mu == [s \in B |-> Cardinality(s)]
           Body(f) == [s \in B |-> DrawStep(f, s, P, C)]
           D == [f \in [B -> S] |-> Body(f)]
<1>1. ASSUME NEW s \in B PROVE IsFiniteSet(s) /\ Cardinality(s) \in Nat
  BY FS_Subset, FS_CardinalityType
<1>2. ASSUME NEW s \in B, s # {}
      PROVE  AnyOf(s) \in s /\ AnyOf(s) \in A /\ s \ {AnyOf(s)} \in B
             /\ Cardinality(s \ {AnyOf(s)}) < Cardinality(s)
  <2>1. AnyOf(s) \in s
    BY <1>2 DEF AnyOf
  <2>2. s \ {AnyOf(s)} \in B
    OBVIOUS
  <2>3. Cardinality(s \ {AnyOf(s)}) = Cardinality(s) - 1
    BY <1>1, <2>1, FS_RemoveElement
  <2> QED
    BY <1>1, <2>1, <2>2, <2>3
<1>3. ASSUME NEW f \in [B -> S], NEW s \in B PROVE DrawStep(f, s, P, C) \in S
  <2>1. CASE s = {}
    BY <2>1, NothingDrawn DEF DrawStep
  <2>2. CASE s # {}
    <3> DEFINE d == AnyOf(s)
               screen == f[s \ {d}]
               p == P[d]
               color == C[d]
    <3>1. screen \in Drawings(Colors) /\ p \in Pixels /\ color \in Colors
      BY <1>2, <2>2
    <3>2. DrawStep(f, s, P, C) = vga_draw_pixel(screen, p[1], p[2], color)
      BY <2>2 DEF DrawStep
    <3> HIDE DEF screen, p, color
    <3>3. PICK E \in SUBSET Pixels : screen \in [E -> Colors]
      BY <3>1 DEF Drawings
    <3> QED
      BY <3>1, <3>2, <3>3, PixelsAreDrawn
  <2> QED
    BY <2>1, <2>2
<1>4. ASSUME NEW f \in [B -> S], NEW g \in [B -> S], NEW s \in B,
             \A t \in B : mu[t] < mu[s] => f[t] = g[t]
      PROVE  DrawStep(f, s, P, C) = DrawStep(g, s, P, C)
  <2>1. CASE s # {}
    <3>1. f[s \ {AnyOf(s)}] = g[s \ {AnyOf(s)}]
      BY <1>2, <1>4, <2>1
    <3> QED
      BY <2>1, <3>1 DEF DrawStep
  <2> QED
    BY <2>1 DEF DrawStep
<1>5. mu \in [B -> Nat]
  BY <1>1
<1> HIDE DEF B, S, mu
<1>6. D \in [[B -> S] -> [B -> S]] /\ \A f \in [B -> S], s \in B : D[f][s] = DrawStep(f, s, P, C)
  BY <1>3
<1> HIDE DEF D
<1>7. Grows(D, B, S, mu)
  BY <1>4, <1>5, <1>6 DEF Grows
<1>8. S # {}
  BY NothingDrawn DEF S
<1>9. \E f \in [B -> S] : f = D[f]
  BY <1>7, <1>8, Recursion
<1>10. PICK f \in [B -> S] : f = D[f]
  BY <1>9
<1>11. f = Body(f)
  BY <1>6, <1>10
<1> QED
  BY <1>11 DEF B, Draws

(* What has been drawn at the places P with the colours C.                  *)
IsDrawn(screen, s, P, C, Colors) ==
  /\ screen \in [{p \in {P[d] : d \in s} : OnScreen(p[1], p[2])} -> Colors]
  /\ \A d \in s : OnScreen(P[d][1], P[d][2]) => screen[P[d]] = C[d]

(* One pixel more.                                                          *)
LEMMA OneMoreDrawn ==
  ASSUME NEW s, NEW Colors, NEW P, NEW C, NEW d \in s, NEW screen,
         \A e \in s : P[e] \in Pixels /\ C[e] \in Colors,
         \A e, f \in s : P[e] = P[f] => C[e] = C[f],
         IsDrawn(screen, s \ {d}, P, C, Colors)
  PROVE  IsDrawn(vga_draw_pixel(screen, P[d][1], P[d][2], C[d]), s, P, C, Colors)
<1> DEFINE D == {p \in {P[e] : e \in s \ {d}} : OnScreen(p[1], p[2])}
           E == {p \in {P[e] : e \in s} : OnScreen(p[1], p[2])}
           p == P[d]
           x == p[1]
           y == p[2]
           color == C[d]
           now == vga_draw_pixel(screen, x, y, color)
<1>1. D \in SUBSET Pixels /\ screen \in [D -> Colors] /\ p \in Pixels /\ color \in Colors
  BY DEF IsDrawn
<1>2. \A e \in s \ {d} : OnScreen(P[e][1], P[e][2]) => screen[P[e]] = C[e]
  BY DEF IsDrawn
<1>3. CASE OnScreen(x, y)
  <2>1. E = D \cup {p}
    BY <1>3
  <2> HIDE DEF D
  <2>2. now \in [D \cup {p} -> Colors] /\ now[p] = C[d] /\ \A q \in D : q # p => now[q] = screen[q]
    <3> HIDE DEF p, color
    <3>1. PixelIsDrawn(now, screen, D, p, color, Colors)
      BY <1>1, PixelsAreDrawn
    <3> QED
      BY <1>3, <3>1 DEF PixelIsDrawn, color
  <2> HIDE DEF now
  <2>3. ASSUME NEW e \in s, OnScreen(P[e][1], P[e][2]) PROVE now[P[e]] = C[e]
    <3>1. CASE P[e] = p
      BY <2>2, <3>1
    <3>2. CASE P[e] # p
      <4>1. e \in s \ {d} /\ P[e] \in D
        BY <2>3, <3>2 DEF D
      <4> QED
        BY <1>2, <2>2, <2>3, <3>2, <4>1
    <3> QED
      BY <3>1, <3>2
  <2> HIDE DEF E
  <2>4. IsDrawn(now, s, P, C, Colors)
    BY <2>1, <2>2, <2>3 DEF IsDrawn, E
  <2> QED
    BY <2>4 DEF now
<1>4. CASE ~OnScreen(x, y)
  <2>1. E = D
    BY <1>4
  <2>2. now = screen
    <3> HIDE DEF p, D, color
    <3>1. PixelIsDrawn(now, screen, D, p, color, Colors)
      BY <1>1, PixelsAreDrawn
    <3> QED
      BY <1>4, <3>1 DEF PixelIsDrawn
  <2>3. \A e \in s : OnScreen(P[e][1], P[e][2]) => screen[P[e]] = C[e]
    BY <1>2, <1>4
  <2>4. IsDrawn(screen, s, P, C, Colors)
    <3> HIDE DEF D
    <3> QED
      BY <1>1, <2>1, <2>3 DEF IsDrawn
  <2> QED
    BY <2>2, <2>4
<1> QED
  BY <1>3, <1>4

(* What a fold has drawn, whatever the order its elements were taken in, by *)
(* induction on the size of the set.                                        *)
LEMMA DrawingIs ==
  ASSUME NEW A, IsFiniteSet(A), NEW Colors, NEW P \in [A -> Pixels], NEW C \in [A -> Colors],
         \A d, e \in A : P[d] = P[e] => C[d] = C[e],
         NEW it, \A s \in SUBSET A : it[s] = DrawStep(it, s, P, C)
  PROVE  IsDrawn(it[A], A, P, C, Colors)
<1> DEFINE B == SUBSET A
           mu == [s \in B |-> Cardinality(s)]
           T == {s \in B : IsDrawn(it[s], s, P, C, Colors)}
<1>1. ASSUME NEW s \in B PROVE IsFiniteSet(s) /\ Cardinality(s) \in Nat
  BY FS_Subset, FS_CardinalityType
<1>2. ASSUME NEW s \in B, \A t \in B : mu[t] < mu[s] => t \in T PROVE s \in T
  <2>1. CASE s = {}
    <3>1. it[s] = <<>>
      BY <2>1 DEF DrawStep
    <3>2. IsDrawn(<<>>, s, P, C, Colors)
      BY <2>1, NothingDrawn DEF IsDrawn
    <3> QED
      BY <3>1, <3>2
  <2>2. CASE s # {}
    <3> DEFINE d == AnyOf(s)
               t == s \ {d}
    <3>1. d \in s
      BY <2>2 DEF AnyOf
    <3>2. Cardinality(t) = Cardinality(s) - 1
      BY <1>1, <3>1, FS_RemoveElement
    <3>3. t \in B /\ mu[t] < mu[s]
      BY <1>1, <3>2
    <3>4. IsDrawn(it[t], t, P, C, Colors)
      BY <1>2, <3>3
    <3>5. it[s] = vga_draw_pixel(it[t], P[d][1], P[d][2], C[d])
      BY <2>2 DEF DrawStep
    <3>6. \A e \in s : P[e] \in Pixels /\ C[e] \in Colors
      OBVIOUS
    <3>7. \A e, f \in s : P[e] = P[f] => C[e] = C[f]
      OBVIOUS
    <3> HIDE DEF d
    <3> QED
      BY <3>1, <3>4, <3>5, <3>6, <3>7, OneMoreDrawn
  <2> QED
    BY <2>1, <2>2
<1>3. mu \in [B -> Nat]
  BY <1>1
<1>4. \A s \in B : s \in T
  <2> HIDE DEF B, mu, T
  <2> QED
    BY <1>2, <1>3, MeasureInduction
<1> QED
  BY <1>4

(* A rectangle is filled, where it is on the screen.                        *)
LEMMA RectanglesAreRight ==
  ASSUME NEW x \in Int, NEW y \in Int, NEW w \in Int, NEW h \in Int, NEW color
  PROVE  RectIsRight(x, y, w, h, color, vga_draw_rect(x, y, w, h, color))
<1> DEFINE A == (0 .. w - 1) \X (0 .. h - 1)
           P == [d \in A |-> <<x + d[1], y + d[2]>>]
           C == [d \in A |-> color]
           E(f, s) == IF s = {} THEN <<>>
                      ELSE vga_draw_pixel(f[s \ {AnyOf(s)}], x + AnyOf(s)[1], y + AnyOf(s)[2], color)
           it == CHOOSE it : it = [s \in SUBSET A |-> E(it, s)]
           result == vga_draw_rect(x, y, w, h, color)
<1>1. result = it[A]
  BY Zenon DEF vga_draw_rect, FoldSet, MapThenFoldSet, AnyOf
<1>2. IsFiniteSet(A)
  <2>1. IsFiniteSet(0 .. w - 1) /\ IsFiniteSet(0 .. h - 1)
    BY FS_Interval
  <2> QED
    BY <2>1, FS_Product
<1>3. P \in [A -> Pixels] /\ C \in [A -> {color}]
  BY DEF Pixels
<1>4. ASSUME NEW f, NEW s \in SUBSET A PROVE E(f, s) = DrawStep(f, s, P, C)
  <2>1. CASE s # {}
    <3>1. AnyOf(s) \in A
      BY <2>1 DEF AnyOf
    <3> DEFINE d == AnyOf(s)
    <3>2. P[d] = <<x + d[1], y + d[2]>> /\ C[d] = color
      BY <3>1
    <3>3. P[d][1] = x + d[1] /\ P[d][2] = y + d[2]
      BY <3>2
    <3> HIDE DEF P, C
    <3> QED
      BY <2>1, <3>2, <3>3 DEF DrawStep
  <2> QED
    BY <2>1 DEF DrawStep
<1> HIDE DEF E, P, C
<1>5. PICK f : Draws(f, A, P, C)
  <2> HIDE DEF A
  <2> QED
    BY <1>2, <1>3, DrawingExists
<1>6. f = [s \in SUBSET A |-> E(f, s)]
  <2> HIDE DEF A
  <2> QED
    BY <1>4, <1>5 DEF Draws
<1>7. it = [s \in SUBSET A |-> E(it, s)]
  BY <1>6, Zenon
<1> HIDE DEF it, result
<1>8. \A s \in SUBSET A : it[s] = E(it, s)
  BY <1>7, Zenon
<1>9. IsDrawn(result, A, P, C, {color})
  <2>1. \A s \in SUBSET A : it[s] = DrawStep(it, s, P, C)
    <3> HIDE DEF A
    <3> QED
      BY <1>4, <1>8
  <2>2. \A d, e \in A : P[d] = P[e] => C[d] = C[e]
    <3> HIDE DEF A
    <3> QED
      BY DEF C
  <2> HIDE DEF A
  <2> QED
    BY <1>1, <1>2, <1>3, <2>1, <2>2, DrawingIs
<1>10. {P[d] : d \in A} = (x .. x + w - 1) \X (y .. y + h - 1)
  <2>1. ASSUME NEW p \in (x .. x + w - 1) \X (y .. y + h - 1) PROVE p \in {P[d] : d \in A}
    <3> DEFINE d == <<p[1] - x, p[2] - y>>
    <3>1. d \in A
      OBVIOUS
    <3>2. x + d[1] = p[1] /\ y + d[2] = p[2]
      OBVIOUS
    <3>3. P[d] = p
      BY <3>1, <3>2 DEF P
    <3> QED
      BY <3>1, <3>3
  <2>2. ASSUME NEW d \in A PROVE P[d] \in (x .. x + w - 1) \X (y .. y + h - 1)
    <3>1. d[1] \in 0 .. w - 1 /\ d[2] \in 0 .. h - 1
      OBVIOUS
    <3>2. x + d[1] \in x .. x + w - 1 /\ y + d[2] \in y .. y + h - 1
      BY <3>1
    <3> QED
      BY <3>2 DEF P
  <2> QED
    BY <2>1, <2>2
<1> DEFINE D == {q \in (x .. x + w - 1) \X (y .. y + h - 1) : OnScreen(q[1], q[2])}
<1>11. result \in [D -> {color}]
  <2>1. result \in [{p \in {P[d] : d \in A} : OnScreen(p[1], p[2])} -> {color}]
    BY <1>9 DEF IsDrawn
  <2> QED
    BY <1>10, <2>1
<1>12. result = [p \in D |-> color]
  <2> HIDE DEF D
  <2> QED
    BY <1>11
<1> QED
  BY <1>12, Zenon DEF RectIsRight, result

(* As many bytes as a line of w pixels needs.                               *)
LEMMA CeilingArithmetic ==
  ASSUME NEW w \in Nat, w > 0, NEW b \in Nat, b > 0,
         NEW n, n = w \div b + (IF w % b # 0 THEN 1 ELSE 0)
  PROVE  /\ n \in 1 .. w /\ b * (n - 1) < w /\ w <= b * n
<1> DEFINE q == w \div b
           r == w % b
<1>1. q \in Int /\ r \in Nat /\ r < b /\ w = b * q + r
  BY Division
<1> HIDE DEF q, r
<1>2. q >= 0
  <2>1. SUFFICES ASSUME q <= -1 PROVE FALSE
    BY <1>1
  <2>2. b * q <= -b
    <3>1. -q - 1 \in Nat
      BY <1>1, <2>1
    <3>2. b * (-q - 1) \in Nat
      BY <3>1
    <3>3. b * (-q - 1) = -(b * q) - b
      BY <1>1
    <3>4. b * q \in Int
      BY <1>1
    <3> QED
      BY <3>2, <3>3, <3>4
  <2> QED
    BY <1>1, <2>2
<1>3. b * q >= q
  <2>1. (b - 1) * q \in Nat
    BY <1>1, <1>2
  <2>2. b * q = (b - 1) * q + q
    BY <1>1
  <2> QED
    BY <1>1, <2>1, <2>2
<1>4. CASE r = 0
  <2>1. n = q
    BY <1>1, <1>4 DEF q, r
  <2>2. q > 0
    BY <1>1, <1>2, <1>4
  <2>3. b * (q - 1) = b * q - b /\ b * q \in Int
    BY <1>1
  <2> QED
    BY <1>1, <1>3, <1>4, <2>1, <2>2, <2>3
<1>5. CASE r # 0
  <2>1. n = q + 1 /\ n - 1 = q
    BY <1>1, <1>5 DEF q, r
  <2>2. b * (q + 1) = b * q + b /\ b * q \in Int
    BY <1>1
  <2> QED
    BY <1>1, <1>2, <1>3, <1>5, <2>1, <2>2
<1> QED
  BY <1>4, <1>5 DEF Draws

(* Only one number of bytes is enough and not too many.                     *)
LEMMA OneCeiling ==
  ASSUME NEW w \in Nat, NEW b \in Nat, b > 0, NEW m \in Nat, NEW n \in Nat,
         b * (m - 1) < w, w <= b * m, b * (n - 1) < w, w <= b * n
  PROVE  m = n
<1>1. ASSUME NEW i \in Nat, NEW j \in Nat, b * (j - 1) < w, w <= b * i PROVE ~(i < j)
  <2>1. SUFFICES ASSUME i < j PROVE FALSE
    OBVIOUS
  <2>2. b * i <= b * (j - 1)
    BY <2>1, MoreIsMore, j - 1 \in Nat
  <2>3. b * i \in Int /\ b * (j - 1) \in Int
    OBVIOUS
  <2> QED
    BY <1>1, <2>2, <2>3
<1> QED
  BY <1>1

(* A pixel of a line is one bit of one byte.                                *)
LEMMA OnePlace ==
  ASSUME NEW b \in Nat, b > 0, NEW q \in Int, NEW r \in 0 .. b - 1
  PROVE  (q * b + r) \div b = q /\ (q * b + r) % b = r
<1> DEFINE i == q * b + r
<1>1. i \in Int /\ i = b * q + r
  OBVIOUS
<1>2. i % b = r
  BY <1>1, Remainders
<1>3. i = b * (i \div b) + (i % b) /\ i \div b \in Int
  BY <1>1, Division
<1> DEFINE p == i \div b
<1> HIDE DEF i, p
<1>4. b * p = b * q /\ p \in Int
  <2>1. b * p \in Int /\ b * q \in Int
    BY <1>3 DEF p
  <2> QED
    BY <1>1, <1>2, <1>3, <2>1 DEF p
<1>5. p = q
  <2>1. b * (p - q) = 0
    BY <1>4
  <2>2. p - q = 0
    BY <1>4, <2>1
  <2> QED
    BY <1>4, <2>2
<1> QED
  BY <1>2, <1>5 DEF i, p

(* And every pixel of a line is in its bytes.                               *)
LEMMA BytesOfLine ==
  ASSUME NEW w \in Nat, NEW b \in Nat, b > 0, NEW n \in Nat, w <= b * n, NEW i \in 0 .. w - 1
  PROVE  i \div b \in 0 .. n - 1 /\ i % b \in 0 .. b - 1 /\ (i \div b) * b + (i % b) = i
<1> DEFINE q == i \div b
           r == i % b
<1>1. q \in Int /\ r \in Nat /\ r < b /\ i = b * q + r
  BY Division
<1>2. q \in Nat
  BY <1>1, b > 0
<1> HIDE DEF q, r
<1>3. q < n
  <2>1. SUFFICES ASSUME n <= q PROVE FALSE
    BY <1>2
  <2>2. b * n <= b * q
    BY <1>2, <2>1, MoreIsMore
  <2>3. b * n \in Int /\ b * q \in Int
    BY <1>2
  <2> QED
    BY <1>1, <2>2, <2>3
<1>4. q * b = b * q
  BY <1>2
<1>5. q \in 0 .. n - 1 /\ r \in 0 .. b - 1 /\ q * b + r = i
  BY <1>1, <1>2, <1>3, <1>4
<1> QED
  BY <1>5 DEF q, r

(* No two bits are drawn at the same place.                                 *)
LEMMA SamePlace ==
  ASSUME NEW x \in Int, NEW y \in Int, NEW b \in Nat, b > 0, NEW q \in Int, NEW p \in Int,
         NEW r \in 0 .. b - 1, NEW s \in 0 .. b - 1, NEW k \in Int, NEW l \in Int,
         x + q * b + r = x + p * b + s, y + k = y + l
  PROVE  q = p /\ r = s /\ k = l
<1> DEFINE m == q * b
           n == p * b
<1>1. m \in Int /\ n \in Int /\ x + m + r = x + n + s
  OBVIOUS
<1> HIDE DEF m, n
<1>2. m + r = n + s
  BY <1>1
<1>3. q = p /\ r = s
  BY <1>2, OnePlace DEF m, n
<1> QED
  BY <1>3

(* Each bit of a bitmap is the pixel at its place.                          *)
LEMMA BitmapsAreRight ==
  ASSUME NEW x \in Int, NEW y \in Int, NEW w \in Nat, w > 0, NEW h \in Int, NEW bitmap
  PROVE  BitmapIsRight(x, y, w, h, bitmap, vga_draw_bitmap(x, y, w, h, bitmap, "bg", "fg"))
<1> DEFINE n == w \div BITS + (IF w % BITS # 0 THEN 1 ELSE 0)
           A == {d \in (0 .. n - 1) \X (0 .. BITS - 1) \X (0 .. h - 1) : d[1] * BITS + d[2] < w}
           Color(d) == IF Bit(bitmap[d[3] * n + d[1] + 1], d[2]) = 1 THEN "fg" ELSE "bg"
           Colors == {"fg", "bg"}
           P == [d \in A |-> <<x + d[1] * BITS + d[2], y + d[3]>>]
           C == [d \in A |-> Color(d)]
           E(f, s) == IF s = {} THEN <<>>
                      ELSE vga_draw_pixel(f[s \ {AnyOf(s)}], x + AnyOf(s)[1] * BITS + AnyOf(s)[2],
                                          y + AnyOf(s)[3], Color(AnyOf(s)))
           it == CHOOSE it : it = [s \in SUBSET A |-> E(it, s)]
           result == vga_draw_bitmap(x, y, w, h, bitmap, "bg", "fg")
<1>1. result = it[A]
  BY Zenon DEF vga_draw_bitmap, FoldSet, MapThenFoldSet, AnyOf
<1> HIDE DEF Color, it, result
<1>2. BITS \in Nat /\ BITS > 0 /\ n \in Nat /\ BITS * (n - 1) < w /\ w <= BITS * n /\ n \in 1 .. w
  <2>1. BITS \in Nat /\ BITS > 0
    BY SizesOfScreen
  <2> DEFINE m == n
  <2>2. m = w \div BITS + (IF w % BITS # 0 THEN 1 ELSE 0)
    OBVIOUS
  <2> HIDE DEF m
  <2>3. m \in 1 .. w /\ BITS * (m - 1) < w /\ w <= BITS * m
    BY <2>1, <2>2, CeilingArithmetic
  <2>4. m \in Nat
    BY <2>3
  <2> QED
    BY <2>1, <2>3, <2>4 DEF m
<1> HIDE DEF n
<1>3. IsFiniteSet(A)
  <2> DEFINE R == (0 .. n - 1) \X (0 .. BITS - 1) \X (0 .. h - 1)
  <2>1. IsFiniteSet(0 .. n - 1) /\ IsFiniteSet(0 .. BITS - 1) /\ IsFiniteSet(0 .. h - 1)
    BY <1>2, FS_Interval
  <2> DEFINE Q == ((0 .. n - 1) \X (0 .. BITS - 1)) \X (0 .. h - 1)
  <2>2. IsFiniteSet(Q)
    BY <2>1, FS_Product
  <2> DEFINE g == [q \in Q |-> <<q[1][1], q[1][2], q[2]>>]
  <2>3. g \in [Q -> R] /\ \A d \in R : \E q \in Q : g[q] = d
    <3>1. g \in [Q -> R]
      OBVIOUS
    <3>2. ASSUME NEW d \in R PROVE \E q \in Q : g[q] = d
      <4> DEFINE q == <<<<d[1], d[2]>>, d[3]>>
      <4>1. q \in Q /\ d = <<d[1], d[2], d[3]>>
        OBVIOUS
      <4> QED
        BY <4>1
    <3> QED
      BY <3>1, <3>2
  <2>4. IsFiniteSet(R)
    <3>1. g \in Surjection(Q, R)
      <4> HIDE DEF Q, R, g
      <4> QED
        BY <2>3 DEF Surjection
    <3> HIDE DEF Q, R, g
    <3> QED
      BY <2>2, <3>1, FS_Surjection
  <2>5. A \in SUBSET R
    OBVIOUS
  <2> HIDE DEF A, R
  <2> QED
    BY <2>4, <2>5, FS_Subset
<1>4. ASSUME NEW d \in A
      PROVE  /\ d[1] \in 0 .. n - 1 /\ d[2] \in 0 .. BITS - 1 /\ d[3] \in 0 .. h - 1
             /\ d[1] * BITS + d[2] < w /\ d[1] * BITS + d[2] \in Nat
             /\ P[d] = <<x + d[1] * BITS + d[2], y + d[3]>>
             /\ P[d][1] = x + d[1] * BITS + d[2] /\ P[d][2] = y + d[3]
             /\ P[d] \in Pixels
  <2>1. d[1] \in 0 .. n - 1 /\ d[2] \in 0 .. BITS - 1 /\ d[3] \in 0 .. h - 1
        /\ d[1] * BITS + d[2] < w
    OBVIOUS
  <2>2. d[1] * BITS + d[2] \in Nat /\ d[1] * BITS \in Nat
    BY <1>2, <2>1
  <2>3. P[d] = <<x + d[1] * BITS + d[2], y + d[3]>>
    OBVIOUS
  <2> HIDE DEF P, A
  <2>4. P[d][1] = x + d[1] * BITS + d[2] /\ P[d][2] = y + d[3]
    BY <2>3
  <2>5. x + d[1] * BITS + d[2] \in Int /\ y + d[3] \in Int
    BY <2>1, <2>2, h \in Int
  <2>6. P[d] \in Pixels
    BY <2>3, <2>5 DEF Pixels
  <2> QED
    BY <2>1, <2>2, <2>3, <2>4, <2>6
<1>5. \A d \in A : C[d] = Color(d) /\ Color(d) \in Colors
  BY DEF Color
<1>6. P \in [A -> Pixels] /\ C \in [A -> Colors]
  <2>1. \A d \in A : P[d] \in Pixels
    BY <1>4
  <2> HIDE DEF A, Colors
  <2> QED
    BY <1>5, <2>1
<1>7. ASSUME NEW f, NEW s \in SUBSET A PROVE E(f, s) = DrawStep(f, s, P, C)
  <2>1. CASE s # {}
    <3>1. AnyOf(s) \in A
      BY <2>1 DEF AnyOf
    <3> HIDE DEF P, C, A
    <3> QED
      BY <1>4, <1>5, <2>1, <3>1 DEF DrawStep
  <2> QED
    BY <2>1 DEF DrawStep
<1> HIDE DEF E, P, C, Colors
<1>8. PICK f : Draws(f, A, P, C)
  <2> HIDE DEF A
  <2> QED
    BY <1>3, <1>6, DrawingExists
<1>9. f = [s \in SUBSET A |-> E(f, s)]
  <2> HIDE DEF A
  <2> QED
    BY <1>7, <1>8 DEF Draws
<1>10. it = [s \in SUBSET A |-> E(it, s)]
  BY <1>9, Zenon DEF it
<1>11. \A s \in SUBSET A : it[s] = E(it, s)
  BY <1>10, Zenon
<1>12. ASSUME NEW d \in A, NEW e \in A, P[d] = P[e] PROVE d = e
  <2> HIDE DEF A
  <2>1. /\ x + d[1] * BITS + d[2] = x + e[1] * BITS + e[2] /\ y + d[3] = y + e[3]
    BY <1>4, <1>12
  <2>2. /\ d[1] * BITS \in Int /\ e[1] * BITS \in Int /\ d[1] \in Int /\ e[1] \in Int
        /\ d[2] \in 0 .. BITS - 1 /\ e[2] \in 0 .. BITS - 1
        /\ d[3] \in Int /\ e[3] \in Int
    BY <1>2, <1>4, h \in Int
  <2>3. d[1] = e[1] /\ d[2] = e[2] /\ d[3] = e[3]
    <3> DEFINE q == d[1]  r == d[2]  k == d[3]  p == e[1]  t == e[2]  l == e[3]
    <3>1. /\ q \in Int /\ p \in Int /\ r \in 0 .. BITS - 1 /\ t \in 0 .. BITS - 1
          /\ k \in Int /\ l \in Int /\ x + q * BITS + r = x + p * BITS + t /\ y + k = y + l
      BY <2>1, <2>2
    <3> HIDE DEF q, r, k, p, t, l
    <3>2. q = p /\ r = t /\ k = l
      BY <1>2, <3>1, SamePlace
    <3> QED
      BY <3>2 DEF q, r, k, p, t, l
  <2>6. d = <<d[1], d[2], d[3]>> /\ e = <<e[1], e[2], e[3]>>
    BY DEF A
  <2> QED
    BY <2>3, <2>6
<1>13. IsDrawn(result, A, P, C, Colors)
  <2> HIDE DEF A
  <2>1. \A s \in SUBSET A : it[s] = DrawStep(it, s, P, C)
    BY <1>7, <1>11
  <2>2. \A d, e \in A : P[d] = P[e] => C[d] = C[e]
    BY <1>12
  <2> QED
    BY <1>1, <1>3, <1>6, <2>1, <2>2, DrawingIs
<1> DEFINE Q == (x .. x + w - 1) \X (y .. y + h - 1)
           Place(p) == <<(p[1] - x) \div BITS, (p[1] - x) % BITS, p[2] - y>>
<1>14. ASSUME NEW p \in Q PROVE Place(p) \in A /\ P[Place(p)] = p
  <2> DEFINE i == p[1] - x
             k == p[2] - y
             q == i \div BITS
             r == i % BITS
             d == <<q, r, k>>
  <2>1. i \in 0 .. w - 1 /\ k \in 0 .. h - 1 /\ p = <<x + i, y + k>>
    OBVIOUS
  <2>2. q \in 0 .. n - 1 /\ r \in 0 .. BITS - 1 /\ q * BITS + r = i
    <3> HIDE DEF i
    <3> QED
      BY <1>2, <2>1, BytesOfLine
  <2> HIDE DEF i, k, q, r
  <2>3. d \in A
    BY <2>1, <2>2
  <2>4. P[d] = <<x + q * BITS + r, y + k>>
    BY <1>4, <2>3
  <2>5. x + q * BITS + r = x + i
    <3>1. q * BITS \in Int /\ r \in Int /\ i \in Int
      BY <1>2, <2>1, <2>2
    <3> QED
      BY <2>2, <3>1
  <2> QED
    BY <2>1, <2>3, <2>4, <2>5 DEF i, k, q, r
<1>15. ASSUME NEW d \in A PROVE P[d] \in Q
  <2> DEFINE m == d[1] * BITS
             r == d[2]
             k == d[3]
  <2>1. m \in Int /\ r \in Int /\ m + r < w /\ m + r \in Nat /\ k \in 0 .. h - 1
    BY <1>2, <1>4
  <2>2. P[d] = <<x + m + r, y + k>>
    BY <1>4
  <2> HIDE DEF A, m, r, k
  <2>3. x + m + r \in x .. x + w - 1 /\ y + k \in y .. y + h - 1
    BY <2>1
  <2> QED
    BY <2>2, <2>3
<1> DEFINE D == {p \in Q : OnScreen(p[1], p[2])}
<1>16. {p \in {P[d] : d \in A} : OnScreen(p[1], p[2])} = D
  <2> HIDE DEF A, Q, Place
  <2> QED
    BY <1>14, <1>15
<1>17. DOMAIN result = D
  <2> HIDE DEF A, D
  <2> QED
    BY <1>13, <1>16 DEF IsDrawn
<1>18. ASSUME NEW p \in D PROVE result[p] = Color(Place(p))
  <2>1. p \in Q /\ OnScreen(p[1], p[2])
    OBVIOUS
  <2>2. Place(p) \in A /\ P[Place(p)] = p
    BY <1>14, <2>1
  <2> HIDE DEF A, Q, D, Place
  <2>3. result[p] = C[Place(p)]
    BY <1>13, <2>1, <2>2 DEF IsDrawn
  <2> QED
    BY <1>5, <2>2, <2>3
<1> DEFINE perLine == CHOOSE m \in 1 .. w : BITS * (m - 1) < w /\ w <= BITS * m
<1>19. perLine = n
  <2>1. perLine \in 1 .. w /\ BITS * (perLine - 1) < w /\ w <= BITS * perLine
    BY <1>2
  <2> HIDE DEF perLine
  <2>2. perLine \in Nat
    BY <2>1
  <2> QED
    BY <1>2, <2>1, <2>2, OneCeiling
<1> HIDE DEF perLine
<1>20. ASSUME NEW p \in DOMAIN result
       PROVE  result[p] = LET i == p[1] - x  byte == bitmap[(p[2] - y) * perLine + i \div BITS + 1]
                          IN IF Bit(byte, i % BITS) = 1 THEN "fg" ELSE "bg"
  <2> DEFINE d == Place(p)
  <2>1. result[p] = Color(d)
    BY <1>17, <1>18
  <2>2. d[1] = (p[1] - x) \div BITS /\ d[2] = (p[1] - x) % BITS /\ d[3] = p[2] - y
    OBVIOUS
  <2> HIDE DEF d
  <2> QED
    BY <1>19, <2>1, <2>2, Zenon DEF Color
<1> QED
  BY <1>17, <1>20, Zenon DEF BitmapIsRight, perLine, result

(***************************************************************************)
(* PCI and system calls (KernelServices).                                  *)
(***************************************************************************)

(* Fields are inside the configuration space and aligned to their size.     *)
LEMMA OffsetsAre ==
  ASSUME NEW name \in DOMAIN offsets
  PROVE  /\ offsets[name] \in 0 .. 60
         /\ SizeOf(name) \in {1, 2, 4}
         /\ offsets[name] % SizeOf(name) = 0
BY DEF offsets, SizeOf, Words, Doublewords

(* No two fields of different sizes share an offset.                        *)
LEMMA OffsetsDiffer ==
  ASSUME NEW a \in DOMAIN offsets, NEW b \in DOMAIN offsets, offsets[a] = offsets[b]
  PROVE  SizeOf(a) = SizeOf(b)
BY DEF offsets, SizeOf, Words, Doublewords

(* A system call of the table reaches its function with its argument.       *)
LEMMA SyscallsAreRight ==
  ASSUME NEW regs, regs.eax \in Nat
  PROVE  SyscallIsRight(regs, syscall(dispatch(regs)))
<1> DEFINE n == regs.eax % HALF_EAX
<1>1. Len(syscall_list) = 2 /\ syscall_list[1] = "_example1" /\ syscall_list[2] = "_example2"
  BY DEF syscall_list
<1>2. n \in Nat
  BY RegisterAssumption
<1>3. dispatch(regs) = [eip |-> IF n < 2 THEN syscall_list[n + 1] ELSE "wild",
                        ebx |-> regs.ebx, edx |-> 0]
  BY <1>1, Zenon DEF dispatch
<1> HIDE DEF n
<1>4. CASE n = 0
  BY <1>1, <1>3, <1>4 DEF SyscallIsRight, syscall, n
<1>5. CASE n = 1
  BY <1>1, <1>3, <1>5 DEF SyscallIsRight, syscall, n
<1> QED
  BY <1>1, <1>2, <1>4, <1>5 DEF SyscallIsRight, n

(* The size the map has at the offset of a field is its size.               *)
LEMMA SizeOfField ==
  ASSUME NEW name \in DOMAIN offsets
  PROVE  pci_size_map[offsets[name]] = SizeOf(name)
<1> DEFINE o == offsets[name]
           it == CHOOSE n \in DOMAIN offsets : offsets[n] = o
<1>1. o \in 0 .. offsets.PCI_INTERRUPT_LINE
  BY OffsetsAre DEF offsets
<1>2. it \in DOMAIN offsets /\ offsets[it] = o
  OBVIOUS
<1>3. pci_size_map[o] = IF \E n \in DOMAIN offsets : offsets[n] = o THEN SizeOf(it) ELSE 0
  BY <1>1, Zenon DEF pci_size_map
<1>4. SizeOf(it) = SizeOf(name)
  <2> HIDE DEF it
  <2> QED
    BY <1>2, OffsetsDiffer
<1> QED
  BY <1>3, <1>4

(* Bytes of a slice of a sequence. *)
LEMMA SliceOf ==
  ASSUME NEW S, NEW s \in Seq(S), NEW i \in Nat, NEW n \in Nat, i + n <= Len(s)
  PROVE  SubSeq(s, i + 1, i + n) = [k \in 1 .. n |-> s[i + k]]
<1>1. SubSeq(s, i + 1, i + n) = [k \in 1 .. n |-> s[i + 1 + k - 1]]
  BY SubSeqProperties
<1>2. ASSUME NEW k \in 1 .. n PROVE s[i + 1 + k - 1] = s[i + k]
  <2>1. i + 1 + k - 1 = i + k
    OBVIOUS
  <2> QED
    BY <2>1
<1> QED
  BY <1>1, <1>2

(* A field does not cross the doubleword it is read from.                   *)
LEMMA FieldArithmetic ==
  ASSUME NEW o \in Nat, NEW size \in {1, 2, 4}, o % size = 0
  PROVE  /\ size = 1 => (o % 4) \in Nat /\ (o % 4) + 1 <= 4
         /\ size = 2 => (o % 4) - (o % 2) = o % 4 /\ (o % 4) \in Nat /\ (o % 4) + 2 <= 4
         /\ size = 4 => o % 4 = 0
         /\ 4 * (o \div 4) + (o % 4) = o
OBVIOUS

(* pci_read answers with the bytes of the field, of any function.           *)
LEMMA FieldsAreRead ==
  ASSUME NEW space, NEW dev, NEW S, NEW name \in DOMAIN offsets,
         space[<<dev.bus, dev.slot, dev.function>>] \in Seq(S),
         Len(space[<<dev.bus, dev.slot, dev.function>>]) >= 64
  PROVE  FieldIsRight(space, dev, name, pci_read(space, dev, offsets[name]))
<1> DEFINE s == space[<<dev.bus, dev.slot, dev.function>>]
           o == offsets[name]
           size == SizeOf(name)
           base == 4 * (o \div 4)
           data == inl(space, pci_device_t(dev, o))
           one == SubSeq(data, (o % 4) + 1, (o % 4) + 1)
           two == SubSeq(data, (o % 4) - (o % 2) + 1, (o % 4) - (o % 2) + 2)
           slice == [k \in 1 .. size |-> s[o + k]]
<1>1. o \in 0 .. 60 /\ size \in {1, 2, 4} /\ pci_size_map[o] = size /\ o % size = 0
  BY OffsetsAre, SizeOfField
<1>2. data = [i \in 1 .. 4 |-> s[base + i]]
  BY DEF inl, pci_device_t
<1>3. s \in Seq(S) /\ Len(s) >= 64
  OBVIOUS
<1>4. FieldIsRight(space, dev, name, pci_read(space, dev, o)) <=>
        pci_read(space, dev, o) = SubSeq(s, o + 1, o + size)
  BY DEF FieldIsRight
<1>5. pci_read(space, dev, o) =
        CASE size = 1 -> one
          [] size = 2 -> two
          [] size = 4 -> data
          [] OTHER -> HALTED
  BY <1>1, Zenon DEF pci_read
<1> HIDE DEF s, o, size, data, one, two
<1>6. /\ o \in Nat
      /\ size = 1 => (o % 4) \in Nat /\ (o % 4) + 1 <= 4
      /\ size = 2 => (o % 4) - (o % 2) = o % 4 /\ (o % 4) \in Nat /\ (o % 4) + 2 <= 4
      /\ size = 4 => o % 4 = 0
      /\ base + (o % 4) = o
      /\ base \in Nat
  BY <1>1, FieldArithmetic
<1> HIDE DEF base
<1>7. SubSeq(s, o + 1, o + size) = slice
  <2>1. o \in Nat /\ size \in Nat /\ o + size <= Len(s)
    BY <1>1, <1>3
  <2> QED
    BY <1>3, <2>1, SliceOf
<1>8. data \in Seq(S) /\ Len(data) = 4 /\ \A i \in 1 .. 4 : data[i] = s[base + i]
  <2>1. \A i \in 1 .. 4 : s[base + i] \in S
    <3>1. \A i \in 1 .. 4 : base + i \in 1 .. Len(s)
      BY <1>1, <1>3, <1>6
    <3> QED
      BY <1>3, <3>1
  <2> QED
    BY <1>2, <2>1
<1>9. ASSUME NEW i \in Nat, i + size <= 4, base + i = o
      PROVE  SubSeq(data, i + 1, i + size) = slice
  <2>1. SubSeq(data, i + 1, i + size) = [k \in 1 .. size |-> data[i + k]]
    BY <1>1, <1>8, <1>9, SliceOf
  <2>2. ASSUME NEW k \in 1 .. size PROVE data[i + k] = s[o + k]
    <3>1. i + k \in 1 .. 4 /\ base + (i + k) = o + k
      BY <1>1, <1>6, <1>9
    <3> QED
      BY <1>8, <3>1
  <2> QED
    BY <2>1, <2>2
<1>10. CASE size = 1
  <2>1. SubSeq(data, (o % 4) + 1, (o % 4) + size) = slice
    BY <1>6, <1>9, <1>10
  <2>2. pci_read(space, dev, o) = one
    BY <1>5, <1>10
  <2>3. pci_read(space, dev, o) = slice
    BY <1>10, <2>1, <2>2 DEF one
  <2> QED
    BY <1>4, <1>7, <2>3 DEF o
<1>11. CASE size = 2
  <2>1. SubSeq(data, (o % 4) + 1, (o % 4) + size) = slice
    BY <1>6, <1>9, <1>11
  <2>2. pci_read(space, dev, o) = two
    BY <1>5, <1>11
  <2>3. pci_read(space, dev, o) = SubSeq(data, (o % 4) + 1, (o % 4) + size)
    BY <1>6, <1>11, <2>2 DEF two
  <2> QED
    BY <1>4, <1>7, <2>1, <2>3 DEF o
<1>12. CASE size = 4
  <2>1. o % 4 = 0 /\ base = o
    BY <1>6, <1>12
  <2>2. data = slice
    BY <1>2, <1>12, <2>1
  <2> QED
    BY <1>4, <1>5, <1>7, <1>12, <2>2 DEF o
<1> QED
  BY <1>1, <1>10, <1>11, <1>12

(***************************************************************************)
(* All calls (Library).                                                    *)
(***************************************************************************)

(* The calls, by what they are of.                                          *)
LEMMA StringCalls ==
  ASSUME CallStrcmp \/ CallMemcpy \/ CallItoa
  PROVE  CallsAreRight'
<1> USE DEF CallsAreRight, StringsAreRight, DrawingIsRight, ServicesAreRight
<1>1. CASE CallStrcmp
  <2>1. PICK s1 \in STRINGS, s2 \in STRINGS :
               call' = [fn |-> "strcmp", s1 |-> s1, s2 |-> s2, result |-> strcmp(s1, s2)]
    BY <1>1 DEF CallStrcmp, Call
  <2>2. s1 \in String /\ s2 \in String
    BY StringAssumption DEF String
  <2>3. StrcmpIsRight(s1, s2, strcmp(s1, s2))
    BY <2>2, StrcmpAlwaysRight
  <2> QED
    BY <2>1, <2>3
<1>2. CASE CallMemcpy
  <2>1. PICK dest \in DOMAIN MEMORY, src \in DOMAIN MEMORY, count \in DOMAIN MEMORY :
               /\ dest + count \in DOMAIN MEMORY /\ src + count \in DOMAIN MEMORY
               /\ call' = [fn |-> "memcpy", dest |-> dest, src |-> src, count |-> count,
                           result |-> memcpy(MEMORY, dest, src, count)]
    BY <1>2 DEF CallMemcpy, Call
  <2> DEFINE A == DOMAIN MEMORY
             V == {MEMORY[a] : a \in A}
  <2>2. MEMORY \in [A -> V] /\ A \subseteq Int /\ dest \in Nat /\ src \in Nat /\ count \in Nat
    BY StringAssumption
  <2>3. \A n \in 1 .. count : dest + n - 1 \in A /\ src + n - 1 \in A
    <3>1. 0 .. dest + count \subseteq A /\ 0 .. src + count \subseteq A
      BY <2>1, StringAssumption
    <3>2. \A n \in 1 .. count : dest + n - 1 \in 0 .. dest + count /\ src + n - 1 \in 0 .. src + count
      BY <2>2
    <3> QED
      BY <3>1, <3>2
  <2> HIDE DEF A, V
  <2>4. MemcpyIsRight(MEMORY, dest, src, count, memcpy(MEMORY, dest, src, count))
    BY <2>2, <2>3, MemcpyAlwaysRight
  <2> QED
    BY <2>1, <2>4
<1>3. CASE CallItoa
  <2>1. PICK num \in NUMBERS, base \in BASES :
               call' = [fn |-> "itoa", num |-> num, base |-> base, result |-> itoa(num, base)]
    BY <1>3 DEF CallItoa, Call
  <2>2. num \in Int /\ base \in Nat /\ base > 1
    BY StringAssumption
  <2>3. ItoaIsRight(num, base, itoa(num, base))
    BY <2>2, ItoaAlwaysRight
  <2> QED
    BY <2>1, <2>3
<1> QED
  BY <1>1, <1>2, <1>3

(* CallsAreRight says nothing of names: NamesAreRight does.                 *)
LEMMA NameCalls ==
  ASSUME CallLookup \/ CallDirOpen
  PROVE  CallsAreRight'
BY DEF CallsAreRight, StringsAreRight, DrawingIsRight, ServicesAreRight, CallLookup, CallDirOpen, Call

(* Calls that draw.                                                         *)
LEMMA DrawingCalls ==
  ASSUME CallDrawBitmap \/ CallDrawRect \/ CallPuts
  PROVE  CallsAreRight'
<1> USE DEF CallsAreRight, StringsAreRight, DrawingIsRight, ServicesAreRight
<1>1. CASE CallDrawBitmap
  <2>1. PICK p \in PLACES, w \in WIDTHS, bitmap \in BITMAPS :
               call' = [fn |-> "vga_draw_bitmap", x |-> p[1], y |-> p[2], w |-> w, bitmap |-> bitmap,
                        result |-> vga_draw_bitmap(p[1], p[2], w, HEIGHT, bitmap, "bg", "fg")]
    BY <1>1 DEF CallDrawBitmap, Call
  <2>2. p[1] \in Int /\ p[2] \in Int /\ w \in Nat /\ w > 0 /\ HEIGHT \in Int
    BY DrawingAssumption
  <2>3. BitmapIsRight(p[1], p[2], w, HEIGHT, bitmap,
                      vga_draw_bitmap(p[1], p[2], w, HEIGHT, bitmap, "bg", "fg"))
    BY <2>2, BitmapsAreRight
  <2> QED
    BY <2>1, <2>3
<1>2. CASE CallDrawRect
  <2>1. PICK p \in PLACES, w \in WIDTHS :
               call' = [fn |-> "vga_draw_rect", x |-> p[1], y |-> p[2], w |-> w,
                        result |-> vga_draw_rect(p[1], p[2], w, HEIGHT, "bg")]
    BY <1>2 DEF CallDrawRect, Call
  <2>2. p[1] \in Int /\ p[2] \in Int /\ w \in Int /\ HEIGHT \in Int
    BY DrawingAssumption
  <2>3. RectIsRight(p[1], p[2], w, HEIGHT, "bg", vga_draw_rect(p[1], p[2], w, HEIGHT, "bg"))
    BY <2>2, RectanglesAreRight
  <2> QED
    BY <2>1, <2>3
<1>3. CASE CallPuts
  <2>1. PICK s \in TEXTS :
               call' = [fn |-> "puts", s |-> s, result |-> puts([x |-> 0, y |-> 0, glyph |-> <<>>], s)]
    BY <1>3 DEF CallPuts, Call
  <2>2. TextIsOnScreen(s, puts([x |-> 0, y |-> 0, glyph |-> <<>>], s))
    BY DrawingAssumption, TextsAreOnScreen
  <2> QED
    BY <2>1, <2>2
<1> QED
  BY <1>1, <1>2, <1>3

(* Calls of the kernel's services.                                          *)
LEMMA ServiceCalls ==
  ASSUME CallPciRead \/ CallService \/ CallUpdate
  PROVE  CallsAreRight'
<1> USE DEF CallsAreRight, StringsAreRight, DrawingIsRight, ServicesAreRight
<1>1. CASE CallPciRead
  <2> DEFINE Functions == {0, 1} \X {0, 1} \X {0, 1}
             Registers(f) == [o \in 1 .. 64 |-> <<f, o - 1>>]
             space == [f \in Functions |-> Registers(f)]
             Dev(bus, slot, function) == [bus |-> bus, slot |-> slot, function |-> function]
  <2>1. PICK bus \in {0, 1}, slot \in {0, 1}, function \in {0, 1}, name \in DOMAIN offsets :
               call' = [fn |-> "pci_read", space |-> space, dev |-> Dev(bus, slot, function),
                        name |-> name,
                        result |-> pci_read(space, Dev(bus, slot, function), offsets[name])]
    BY <1>1, Zenon DEF CallPciRead, Call
  <2> DEFINE dev == Dev(bus, slot, function)
             f == <<bus, slot, function>>
             S == Functions \X (0 .. 63)
  <2>2. dev.bus = bus /\ dev.slot = slot /\ dev.function = function
    OBVIOUS
  <2>3. f \in Functions
    OBVIOUS
  <2>4. space[f] = Registers(f)
    BY <2>3
  <2>5. Registers(f) \in Seq(S) /\ Len(Registers(f)) = 64
    <3>1. \A o \in 1 .. 64 : <<f, o - 1>> \in S
      BY <2>3
    <3> HIDE DEF S, f
    <3>2. Registers(f) \in [1 .. 64 -> S]
      BY <3>1
    <3> QED
      BY <3>2
  <2> HIDE DEF space, dev, S
  <2>6. space[<<dev.bus, dev.slot, dev.function>>] \in Seq(S)
        /\ Len(space[<<dev.bus, dev.slot, dev.function>>]) >= 64
    BY <2>2, <2>4, <2>5
  <2>7. FieldIsRight(space, dev, name, pci_read(space, dev, offsets[name]))
    BY <2>6, FieldsAreRead
  <2>8. call' = [fn |-> "pci_read", space |-> space, dev |-> dev, name |-> name,
                 result |-> pci_read(space, dev, offsets[name])]
    BY <2>1 DEF space, dev
  <2> QED
    BY <2>7, <2>8
<1>2. CASE CallService
  <2>1. PICK regs \in REGISTERS :
               call' = [fn |-> "dispatch", regs |-> regs, result |-> syscall(dispatch(regs))]
    BY <1>2 DEF CallService, Call
  <2>2. SyscallIsRight(regs, syscall(dispatch(regs)))
    BY ServiceAssumption, SyscallsAreRight
  <2> QED
    BY <2>1, <2>2
<1>3. CASE CallUpdate
  <2>1. PICK keys \in LAYOUTS, n \in 1 .. MAX_KEYS : \E keycodes \in [1 .. n -> KEYS] :
               call' = [fn |-> "kb_update", keys |-> keys, keycodes |-> keycodes,
                        result |-> kb_updates(keys, keycodes)]
    BY <1>3 DEF CallUpdate, Call
  <2>2. PICK keycodes \in [1 .. n -> KEYS] :
               call' = [fn |-> "kb_update", keys |-> keys, keycodes |-> keycodes,
                        result |-> kb_updates(keys, keycodes)]
    BY <2>1
  <2>3. keycodes \in Seq(KEYS)
    BY n \in Nat
  <2>4. KeysAreRight(keys, keycodes, kb_updates(keys, keycodes))
    BY <2>3, KeysAreAlwaysRight
  <2> QED
    BY <2>2, <2>4
<1> QED
  BY <1>1, <1>2, <1>3

(* strcmp, memcpy, itoa and atoi, the drawing of bitmaps, rectangles and    *)
(* texts, the reading of PCI fields, the system calls and the keyboard      *)
(* answer what they are for: for strings, bitmaps, texts and sequences of   *)
(* keys of any length, and for every number and base.  Not spoken of are the *)
(* order strcmp gives characters of eight bits, memcpy upwards onto its own *)
(* source, negative numbers in a base other than 10 and the least int, the  *)
(* glyphs of characters of eight bits or behind the table of the font, and  *)
(* system calls whose number is behind the table.                           *)
THEOREM CallsAreAlwaysRight == LibrarySpec => []CallsAreRight
<1>1. LibraryInit => CallsAreRight
  BY DEF LibraryInit, NoCall, CallsAreRight, StringsAreRight, DrawingIsRight, ServicesAreRight
<1>2. CallsAreRight /\ [LibraryNext]_libraryVars => CallsAreRight'
  <2> SUFFICES ASSUME CallsAreRight, [LibraryNext]_libraryVars
               PROVE  CallsAreRight'
    OBVIOUS
  <2>1. CASE UNCHANGED libraryVars
    BY <2>1 DEF libraryVars, CallsAreRight, StringsAreRight, DrawingIsRight, ServicesAreRight
  <2>2. CASE CallEnds
    BY <2>2 DEF CallEnds, NoCall, CallsAreRight, StringsAreRight, DrawingIsRight, ServicesAreRight
  <2>3. CASE Format
    BY <2>3 DEF Format, CallsAreRight, StringsAreRight, DrawingIsRight, ServicesAreRight
  <2> QED
    BY <2>1, <2>2, <2>3, StringCalls, NameCalls, DrawingCalls, ServiceCalls DEF LibraryNext
<1> QED
  BY <1>1, <1>2, PTL DEF LibrarySpec

(***************************************************************************)
(* The names of the FAT12 driver (DirectoryNames): the search of a path    *)
(* that shrinks at each directory, against the chain of entries its names  *)
(* lead through, and the listing of a directory, entry by entry.           *)
(***************************************************************************)

(* Where c first is in a string, and what comes before it.                  *)
LEMMA StrchrFinds ==
  ASSUME NEW s \in String, NEW c \in Int \ {END_OF_STRING}
  PROVE  /\ (\A i \in 1 .. Len(s) : s[i] # c) => strchr(s, c) = NULL_POINTER
         /\ \A n \in 1 .. Len(s) : s[n] = c /\ (\A i \in 1 .. n - 1 : s[i] # c) => strchr(s, c) = n
<1> DEFINE places == {i \in 1 .. Len(s) + 1 : At(s, i) = c}
           m == CHOOSE i \in places : \A j \in places : i <= j
<1>1. strchr(s, c) = IF places = {} THEN NULL_POINTER ELSE m
  BY Zenon DEF strchr
<1>2. Len(s) \in Nat
  BY DEF String
<1>3. \A i \in places : i \in 1 .. Len(s) /\ s[i] = c
  <2>1. ASSUME NEW i \in places PROVE i \in 1 .. Len(s) /\ s[i] = c
    <3>1. i \in Nat \ {0} /\ At(s, i) # END_OF_STRING
      BY <1>2
    <3>2. ~(i > Len(s))
      BY <3>1, CharactersOf
    <3> QED
      BY <1>2, <3>1, <3>2 DEF At
  <2> QED
    BY <2>1
<1>4. ASSUME \A i \in 1 .. Len(s) : s[i] # c PROVE strchr(s, c) = NULL_POINTER
  BY <1>1, <1>3, <1>4
<1>5. ASSUME NEW n \in 1 .. Len(s), s[n] = c, \A i \in 1 .. n - 1 : s[i] # c
      PROVE  strchr(s, c) = n
  <2>1. n \in places
    BY <1>2, <1>5 DEF At
  <2>2. places \subseteq Nat /\ places # {}
    BY <2>1
  <2> HIDE DEF places
  <2>3. m \in places /\ \A j \in places : m <= j
    BY <2>2, LeastIsChosen
  <2> HIDE DEF m
  <2>4. m \in 1 .. Len(s) /\ s[m] = c /\ m <= n
    BY <1>3, <2>1, <2>3
  <2>5. m = n
    BY <1>5, <2>4
  <2> QED
    BY <1>1, <2>2, <2>5
<1> QED
  BY <1>4, <1>5

(* A string that is padded has a last place that is not a blank.            *)
LEMMA PaddingBegins ==
  ASSUME NEW s, IsPadded(s)
  PROVE  \E n \in 0 .. Len(s) : \A i \in 1 .. Len(s) : s[i] = BLANK <=> i > n
<1>1. s \in String /\ Len(s) \in Nat /\ DOMAIN s = 1 .. Len(s)
  BY DEF IsPadded, String
<1> DEFINE blanks == {i \in 1 .. Len(s) : s[i] = BLANK}
<1>2. CASE blanks = {}
  <2>1. \A i \in 1 .. Len(s) : s[i] = BLANK <=> i > Len(s)
    BY <1>1, <1>2
  <2>2. Len(s) \in 0 .. Len(s)
    BY <1>1
  <2> QED
    BY <2>1, <2>2
<1>3. CASE blanks # {}
  <2>0. blanks \subseteq Nat
    BY <1>1
  <2>1. PICK m \in blanks : \A k \in blanks : m <= k
    <3> HIDE DEF blanks
    <3> QED
      BY <1>3, <2>0, LeastNatural
  <2>2. \A i \in 1 .. Len(s) : s[i] = BLANK <=> i > m - 1
    <3>1. \A i \in 1 .. Len(s) : i >= m => s[i] = BLANK
      BY <1>1, <2>1 DEF IsPadded
    <3> QED
      BY <1>1, <2>1, <3>1
  <2>3. m - 1 \in 0 .. Len(s)
    BY <1>1
  <2> QED
    BY <2>2, <2>3
<1> QED
  BY <1>2, <1>3

(* What UpTo cuts off a padded string is its padding.                       *)
LEMMA PaddingIsCut ==
  ASSUME NEW s, IsPadded(s)
  PROVE  /\ UpTo(s, BLANK) = Unpadded(s) /\ UpTo(s, BLANK) \in String
         /\ s # <<>> => (Unpadded(s) = <<>> <=> s[1] = BLANK)
         /\ s # <<>> => Head(s) = s[1]
<1>0. Len(s) \in Nat
  BY DEF IsPadded
<1>1. s \in String /\ Len(s) \in Nat /\ DOMAIN s = 1 .. Len(s)
  BY DEF IsPadded, String
<1>2. PICK n \in 0 .. Len(s) : \A i \in 1 .. Len(s) : s[i] = BLANK <=> i > n
  BY PaddingBegins
<1> DEFINE u == SubSeq(s, 1, n)
<1>3. u \in String /\ Len(u) = n
  BY <1>1 DEF String
<1>4. BLANK \in Int \ {END_OF_STRING}
  BY DEF BLANK, END_OF_STRING
<1>5. UpTo(s, BLANK) = u
  <2>1. CASE n >= Len(s)
    <3>1. \A i \in 1 .. Len(s) : s[i] # BLANK
      BY <1>1, <1>2, <2>1
    <3>2. strchr(s, BLANK) = NULL_POINTER
      BY <1>1, <1>4, <3>1, StrchrFinds
    <3>3. Len(u) = Len(s)
      <4>1. n <= Len(s) /\ n \in Nat
        BY <1>1
      <4>2. n = Len(s)
        BY <1>0, <2>1, <4>1
      <4> HIDE DEF u
      <4> QED
        BY <1>3, <4>2
    <3>5. \A i \in 1 .. Len(s) : u[i] = s[i]
      BY <1>1, <2>1
    <3>4. u = s
      <4> HIDE DEF u
      <4> QED
        BY <1>1, <1>3, <3>3, <3>5 DEF String
    <3> QED
      BY <3>2, <3>4, Zenon DEF UpTo
  <2>2. CASE n < Len(s)
    <3>1. n + 1 \in 1 .. Len(s) /\ s[n + 1] = BLANK /\ \A i \in 1 .. n + 1 - 1 : s[i] # BLANK
      BY <1>1, <1>2, <2>2
    <3>2. strchr(s, BLANK) = n + 1
      BY <1>1, <1>4, <3>1, StrchrFinds
    <3>3. n + 1 - 1 = n /\ n + 1 # 0
      BY <1>1
    <3> QED
      BY <3>2, <3>3 DEF UpTo, NULL_POINTER
  <2>3. n >= Len(s) \/ n < Len(s)
    BY <1>1
  <2> QED
    BY <2>1, <2>2, <2>3
<1>6. Unpadded(s) = u
  <2> DEFINE I == {i \in 1 .. Len(s) : s[i] # BLANK}
             last == IF I # {} THEN CHOOSE x \in I : \A y \in I : x >= y ELSE 0
  <2>1. Unpadded(s) = SubSeq(s, 1, last)
    BY DEF Unpadded, SelectLastInSeq, Max
  <2>2. I = 1 .. n
    BY <1>1, <1>2
  <2>3. last = n
    <3>1. CASE n = 0
      BY <2>2, <3>1
    <3>2. CASE n > 0
      <4>1. n \in I /\ \A y \in I : n >= y
        BY <2>2, <3>2
      <4>2. ASSUME NEW x \in I, \A y \in I : x >= y PROVE x = n
        BY <2>2, <4>1, <4>2
      <4> HIDE DEF I
      <4> QED
        BY <4>1, <4>2
    <3> QED
      BY <1>1, <3>1, <3>2
  <2> QED
    BY <2>1, <2>3
<1>7. ASSUME s # <<>> PROVE u = <<>> <=> s[1] = BLANK
  <2>1. 1 \in 1 .. Len(s)
    BY <1>1, <1>7 DEF String
  <2>2. u = <<>> <=> n = 0
    BY <1>3 DEF String
  <2> QED
    BY <1>1, <1>2, <2>1, <2>2
<1>8. s # <<>> => Head(s) = s[1]
  BY <1>1 DEF String
<1> HIDE DEF u
<1> QED
  BY <1>3, <1>5, <1>6, <1>7, <1>8

(* What TreeAssumption says of the entries of a directory.                  *)
IsEntry(e) ==
  /\ IsPadded(e.name) /\ e.name # <<>> /\ Head(e.name) # BLANK
  /\ IsPadded(e.extension) /\ e.extension # <<>>
IsDirectory(entries) ==
  /\ entries \in Seq(ToSet(entries)) /\ \A e \in ToSet(entries) : IsEntry(e)

(* The name the driver makes of an entry is the one a user writes.          *)
LEMMA NameIsDosName ==
  ASSUME NEW e, IsEntry(e)
  PROVE  /\ clusterfilename_to_filename(e) = DosName(e)
         /\ DosName(e) \in String /\ DosName(e) # <<>>
<1> DEFINE u == UpTo(e.name, BLANK)
           x == UpTo(e.extension, BLANK)
           point == IF e.extension[1] # BLANK THEN <<DOT>> ELSE <<>>
<1>1. u = Unpadded(e.name) /\ u \in String /\ u # <<>>
  BY PaddingIsCut DEF IsEntry
<1>2. x = Unpadded(e.extension) /\ x \in String /\ (x = <<>> <=> e.extension[1] = BLANK)
  BY PaddingIsCut DEF IsEntry
<1>3. clusterfilename_to_filename(e) = u \o point \o x
  BY Zenon DEF clusterfilename_to_filename
<1>4. DosName(e) = IF x = <<>> THEN u ELSE u \o <<DOT>> \o x
  BY <1>1, <1>2, Zenon DEF DosName
<1>5. DOT \in Int \ {END_OF_STRING}
  BY DEF DOT, END_OF_STRING
<1> HIDE DEF u, x
<1>6. CASE x = <<>>
  <2>1. u \o point \o x = u
    BY <1>1, <1>2, <1>6 DEF String
  <2> QED
    BY <1>1, <1>3, <1>4, <1>6, <2>1
<1>7. CASE x # <<>>
  <2>1. point = <<DOT>>
    BY <1>2, <1>7
  <2>2. u \o <<DOT>> \o x \in String /\ u \o <<DOT>> \o x # <<>>
    BY <1>1, <1>2, <1>5 DEF String
  <2> QED
    BY <1>3, <1>4, <1>7, <2>1, <2>2
<1> QED
  BY <1>6, <1>7

(* The first entry of that name is found, if there is one.                  *)
LEMMA FindEntryFinds ==
  ASSUME NEW entries, IsDirectory(entries), NEW name \in String
  PROVE  \/ /\ find_entry(entries, name) = 0
            /\ \A j \in DOMAIN entries : DosName(entries[j]) # name
         \/ /\ find_entry(entries, name) \in DOMAIN entries /\ find_entry(entries, name) # 0
            /\ \A k \in 1 .. find_entry(entries, name) :
                 DosName(entries[k]) = name <=> k = find_entry(entries, name)
<1> DEFINE I == {i \in 1 .. Len(entries) : strcmp(clusterfilename_to_filename(entries[i]), name) = 0}
           m == CHOOSE i \in I : \A j \in I : i <= j
<1>1. find_entry(entries, name) = IF I # {} THEN m ELSE 0
  BY DEF find_entry, SelectInSeq, Min
<1>2. DOMAIN entries = 1 .. Len(entries) /\ Len(entries) \in Nat
  BY DEF IsDirectory
<1>3. \A i \in 1 .. Len(entries) : i \in I <=> DosName(entries[i]) = name
  <2>1. ASSUME NEW i \in 1 .. Len(entries) PROVE i \in I <=> DosName(entries[i]) = name
    <3>1. entries[i] \in ToSet(entries)
      BY <1>2 DEF ToSet
    <3>2. IsEntry(entries[i])
      BY <3>1 DEF IsDirectory
    <3>3. /\ clusterfilename_to_filename(entries[i]) = DosName(entries[i])
          /\ DosName(entries[i]) \in String
      BY <3>2, NameIsDosName
    <3>4. strcmp(DosName(entries[i]), name) = 0 <=> DosName(entries[i]) = name
      BY <3>3, StrcmpTells
    <3> QED
      BY <3>3, <3>4
  <2> QED
    BY <2>1
<1>4. I \subseteq 1 .. Len(entries) /\ I \subseteq Nat
  BY <1>2
<1> HIDE DEF I
<1>5. CASE I = {}
  BY <1>1, <1>2, <1>3, <1>5
<1>6. CASE I # {}
  <2>1. m \in I /\ \A j \in I : m <= j
    BY <1>4, <1>6, LeastIsChosen
  <2> HIDE DEF m
  <2>2. find_entry(entries, name) = m /\ m \in 1 .. Len(entries)
    BY <1>1, <1>4, <1>6, <2>1
  <2>3. ASSUME NEW k \in 1 .. m PROVE DosName(entries[k]) = name <=> k = m
    <3>1. k \in 1 .. Len(entries)
      BY <1>2, <2>2
    <3>2. k \in I <=> DosName(entries[k]) = name
      BY <1>3, <3>1
    <3>3. k \in I => m <= k
      BY <2>1
    <3> QED
      BY <2>1, <2>2, <3>1, <3>2, <3>3
  <2> QED
    BY <1>2, <2>2, <2>3
<1> QED
  BY <1>5, <1>6

(* Induction from the last place of a sequence to the first.                *)
LEMMA CountingDown ==
  ASSUME NEW N \in Nat, NEW T, N \in T, \A n \in 1 .. N - 1 : n + 1 \in T => n \in T
  PROVE  \A n \in 1 .. N : n \in T
<1> DEFINE U == {k \in 0 .. N - 1 : N - k \in T}
<1>1. CASE N = 0
  BY <1>1
<1>2. CASE N > 0
  <2>1. N - 1 \in Nat /\ 0 \in U
    BY <1>2
  <2>2. ASSUME NEW k \in 1 .. N - 1, k - 1 \in U PROVE k \in U
    <3>1. N - (k - 1) = N - k + 1 /\ N - k \in 1 .. N - 1
      OBVIOUS
    <3> QED
      BY <2>2, <3>1
  <2> HIDE DEF U
  <2>3. \A k \in 0 .. N - 1 : k \in U
    BY <2>1, <2>2, CountingUp
  <2>4. ASSUME NEW n \in 1 .. N PROVE n \in T
    <3>1. N - n \in 0 .. N - 1 /\ N - (N - n) = n
      OBVIOUS
    <3> QED
      BY <2>3, <3>1 DEF U
  <2> QED
    BY <2>4
<1> QED
  BY <1>1, <1>2

(* What can lie between two slashes of a path.                              *)
Name == Seq(Int \ {END_OF_STRING, SLASH})

(* The paths PathOf puts together, from each of the names on.               *)
PathsFrom(names) ==
  CHOOSE from : from = [k \in 1 .. Len(names) |->
                          IF k = Len(names) THEN names[k] ELSE names[k] \o <<SLASH>> \o from[k + 1]]

(* A name, or two with a slash in between, are strings.                     *)
LEMMA NamesJoin ==
  ASSUME NEW u \in Name, NEW s \in String
  PROVE  /\ u \in String /\ u \o <<SLASH>> \o s \in String
         /\ Len(u \o <<SLASH>> \o s) = Len(u) + 1 + Len(s)
         /\ \A i \in 1 .. Len(u) : (u \o <<SLASH>> \o s)[i] = u[i]
         /\ (u \o <<SLASH>> \o s)[Len(u) + 1] = SLASH
         /\ \A i \in 1 .. Len(s) : (u \o <<SLASH>> \o s)[Len(u) + 1 + i] = s[i]
<1>1. SLASH \in Int \ {END_OF_STRING}
  BY DEF SLASH, END_OF_STRING
<1> DEFINE C == Int \ {END_OF_STRING}
<1>2. u \in Seq(C) /\ s \in Seq(C) /\ SLASH \in C
  BY <1>1 DEF Name, String
<1> HIDE DEF C
<1>3. /\ u \o <<SLASH>> \o s \in Seq(C)
      /\ Len(u \o <<SLASH>> \o s) = Len(u) + 1 + Len(s)
      /\ \A i \in 1 .. Len(u) : (u \o <<SLASH>> \o s)[i] = u[i]
      /\ (u \o <<SLASH>> \o s)[Len(u) + 1] = SLASH
      /\ \A i \in 1 .. Len(s) : (u \o <<SLASH>> \o s)[Len(u) + 1 + i] = s[i]
  BY <1>2
<1> QED
  BY <1>2, <1>3 DEF C, String

(* They are the names, joined by slashes.                                   *)
LEMMA PathsFollow ==
  ASSUME NEW names \in Seq(Name), Len(names) > 0
  PROVE  /\ PathOf(names) = PathsFrom(names)[1]
         /\ \A k \in 1 .. Len(names) :
              /\ PathsFrom(names)[k] \in String
              /\ PathsFrom(names)[k] = IF k = Len(names) THEN names[k]
                                       ELSE names[k] \o <<SLASH>> \o PathsFrom(names)[k + 1]
<1> DEFINE N == Len(names)
           A == 1 .. N
           S == String
           E(k, f) == IF k = N THEN names[k] ELSE names[k] \o <<SLASH>> \o f[k + 1]
           Body(f) == [k \in A |-> E(k, f)]
           D == [f \in [A -> S] |-> Body(f)]
           mu == [k \in A |-> N - k]
<1>1. N \in Nat /\ \A k \in A : names[k] \in Name
  OBVIOUS
<1>2. ASSUME NEW f \in [A -> S], NEW k \in A PROVE E(k, f) \in S
  <2>1. names[k] \in Name /\ names[k] \in String
    BY <1>1, NamesJoin
  <2>2. CASE k # N
    <3>1. k + 1 \in A
      BY <1>1, <2>2
    <3>2. f[k + 1] \in S
      BY <3>1
    <3> QED
      BY <2>1, <2>2, <3>2, NamesJoin
  <2> QED
    BY <2>1, <2>2
<1>3. S # {}
  <2>1. <<0>> \in Seq(Int \ {END_OF_STRING})
    BY DEF END_OF_STRING
  <2> QED
    BY <2>1 DEF String
<1>4. Grows(D, A, S, mu)
  <2>1. mu \in [A -> Nat]
    BY <1>1
  <2>2. D \in [[A -> S] -> [A -> S]]
    <3> HIDE DEF E, A, S
    <3> QED
      BY <1>2
  <2>3. ASSUME NEW f \in [A -> S], NEW g \in [A -> S], NEW k \in A,
               \A b \in A : mu[b] < mu[k] => f[b] = g[b]
        PROVE  D[f][k] = D[g][k]
    <3>1. D[f][k] = E(k, f) /\ D[g][k] = E(k, g)
      <4> HIDE DEF E, A, S
      <4> QED
        OBVIOUS
    <3>2. CASE k # N
      <4>1. k + 1 \in A /\ mu[k + 1] < mu[k]
        BY <1>1, <3>2
      <4>2. f[k + 1] = g[k + 1]
        BY <2>3, <4>1
      <4> HIDE DEF D, A, S
      <4> QED
        BY <3>1, <3>2, <4>2
    <3>3. CASE k = N
      <4> HIDE DEF D, A, S
      <4> QED
        BY <3>1, <3>3
    <3> QED
      BY <3>2, <3>3
  <2> HIDE DEF D, A, S, mu
  <2> QED
    BY <2>1, <2>2, <2>3 DEF Grows
<1>5. \E f \in [A -> S] : f = D[f]
  <2> HIDE DEF D, A, S, mu
  <2> QED
    BY <1>3, <1>4, Recursion
<1>6. PICK f \in [A -> S] : f = D[f]
  BY <1>5
<1>7. f = Body(f)
  <2> HIDE DEF E, A, S
  <2> QED
    BY <1>6
<1> DEFINE it == PathsFrom(names)
<1>8. it = Body(it)
  BY <1>7, Zenon DEF PathsFrom
<1>9. PathOf(names) = it[1]
  BY Zenon DEF PathOf, PathsFrom
<1> HIDE DEF it
<1>10. \A k \in A : it[k] = E(k, it)
  <2> HIDE DEF E, A
  <2> QED
    BY <1>8
<1>11. \A k \in A : it[k] \in S
  <2> DEFINE T == {k \in A : it[k] \in S}
  <2>1. N \in T
    <3>1. N \in A
      BY <1>1
    <3>2. it[N] = names[N] /\ names[N] \in Name
      BY <1>1, <1>10, <3>1
    <3>3. names[N] \in String
      BY <1>3, <3>2, NamesJoin
    <3> QED
      BY <3>1, <3>2, <3>3
  <2>2. ASSUME NEW k \in 1 .. N - 1, k + 1 \in T PROVE k \in T
    <3>1. k \in A /\ k # N
      BY <1>1
    <3>2. it[k] = names[k] \o <<SLASH>> \o it[k + 1]
      BY <1>10, <3>1
    <3>3. names[k] \in Name /\ it[k + 1] \in String
      BY <1>1, <2>2, <3>1
    <3>4. it[k] \in String
      <4> HIDE DEF A
      <4> QED
        BY <3>2, <3>3, NamesJoin
    <3> QED
      BY <3>1, <3>4
  <2> HIDE DEF T
  <2>3. \A k \in 1 .. N : k \in T
    <3> HIDE DEF N
    <3> QED
      BY <1>1, <2>1, <2>2, CountingDown
  <2> QED
    BY <2>3 DEF T
<1> QED
  BY <1>9, <1>10, <1>11 DEF it

(* Sequences of the same length and characters are the same.                *)
LEMMA SameCharacters ==
  ASSUME NEW s \in Seq(Int), NEW t \in Seq(Int), Len(s) = Len(t), \A i \in 1 .. Len(s) : s[i] = t[i]
  PROVE  s = t
OBVIOUS

(* What a string has from its a-th character on.                            *)
LEMMA RestOfString ==
  ASSUME NEW q \in Seq(Int), NEW a \in Nat \ {0}, NEW len \in Nat, Len(q) - a + 1 = len
  PROVE  /\ SubSeq(q, a, Len(q)) \in Seq(Int) /\ Len(SubSeq(q, a, Len(q))) = len
         /\ \A i \in 1 .. len : SubSeq(q, a, Len(q))[i] = q[a + i - 1]
<1> DEFINE m == Len(q)
<1>1. m \in Nat /\ \A i \in 1 .. m : q[i] \in Int
  OBVIOUS
<1> HIDE DEF m
<1>2. m \in Int /\ a \in Int /\ \A i \in a .. m : q[i] \in Int
  BY <1>1
<1>3. /\ SubSeq(q, a, m) \in Seq(Int)
      /\ Len(SubSeq(q, a, m)) = IF a <= m THEN m - a + 1 ELSE 0
      /\ \A i \in 1 .. m - a + 1 : SubSeq(q, a, m)[i] = q[a + i - 1]
  BY <1>2, SubSeqProperties
<1>4. m - a + 1 = len /\ (IF a <= m THEN m - a + 1 ELSE 0) = len
  BY <1>1 DEF m
<1> QED
  BY <1>3, <1>4, Zenon DEF m

(* tokenize takes a path apart at its first slash.                          *)
LEMMA TokenizeCuts ==
  ASSUME NEW u \in Name
  PROVE  /\ tokenize(u).current = u /\ tokenize(u).isLast = TRUE
         /\ \A s \in String : /\ tokenize(u \o <<SLASH>> \o s).current = u
                              /\ tokenize(u \o <<SLASH>> \o s).isLast = FALSE
                              /\ tokenize(u \o <<SLASH>> \o s).next = s
<1>0. SLASH \in Int \ {END_OF_STRING}
  BY DEF SLASH, END_OF_STRING
<1>1. u \in String /\ Len(u) \in Nat /\ \A i \in 1 .. Len(u) : u[i] # SLASH
  <2>1. u \in Seq(Int \ {END_OF_STRING, SLASH})
    BY DEF Name
  <2>2. u \in Seq(Int \ {END_OF_STRING})
    BY <2>1
  <2>3. \A i \in 1 .. Len(u) : u[i] \in Int \ {END_OF_STRING, SLASH}
    BY <2>1
  <2> QED
    BY <2>2, <2>3 DEF String
<1>2. strchr(u, SLASH) = NULL_POINTER
  BY <1>0, <1>1, StrchrFinds
<1>3. UpTo(u, SLASH) = u
  BY <1>2, Zenon DEF UpTo
<1>4. tokenize(u).current = u /\ tokenize(u).isLast = TRUE
  BY <1>2, <1>3 DEF tokenize
<1>5. ASSUME NEW s \in String
      PROVE  /\ tokenize(u \o <<SLASH>> \o s).current = u
             /\ tokenize(u \o <<SLASH>> \o s).isLast = FALSE
             /\ tokenize(u \o <<SLASH>> \o s).next = s
  <2> DEFINE p == u \o <<SLASH>> \o s
             n == Len(u) + 1
  <2>1. /\ p \in String /\ Len(p) = Len(u) + 1 + Len(s) /\ p[n] = SLASH
        /\ \A i \in 1 .. Len(u) : p[i] = u[i]
        /\ \A i \in 1 .. Len(s) : p[Len(u) + 1 + i] = s[i]
    BY NamesJoin
  <2> HIDE DEF p
  <2>2. Len(s) \in Nat /\ Len(p) \in Nat
    BY <2>1 DEF String
  <2>3. n \in 1 .. Len(p) /\ \A i \in 1 .. n - 1 : p[i] # SLASH
    BY <1>1, <2>1, <2>2
  <2>4. strchr(p, SLASH) = n
    BY <1>0, <2>1, <2>3, StrchrFinds
  <2>5. n # NULL_POINTER /\ n - 1 = Len(u) /\ n + 1 = Len(u) + 2
    BY <1>1 DEF NULL_POINTER
  <2>6. SubSeq(p, 1, n - 1) = u
    <3> DEFINE v == SubSeq(p, 1, n - 1)
    <3>1. v \in Seq(Int) /\ Len(v) = Len(u) /\ \A i \in 1 .. Len(u) : v[i] = u[i]
      BY <1>1, <2>1, <2>2 DEF String
    <3> HIDE DEF v
    <3> QED
      BY <1>1, <3>1 DEF String, v
  <2>7. SubSeq(p, n + 1, Len(p)) = s
    <3> DEFINE v == SubSeq(p, n + 1, Len(p))
    <3>1. /\ Len(p) - (n + 1) + 1 = Len(s) /\ n + 1 \in Nat \ {0} /\ p \in Seq(Int)
          /\ \A i \in 1 .. Len(s) : n + 1 + i - 1 = Len(u) + 1 + i /\ n + 1 + i - 1 \in 1 .. Len(p)
      <4>1. p \in Seq(Int)
        BY <2>1 DEF String
      <4>2. Len(u) \in Nat /\ Len(p) = Len(u) + 1 + Len(s)
        BY <1>1, <2>1
      <4>3. /\ Len(p) - (n + 1) + 1 = Len(s) /\ n + 1 \in Nat \ {0}
            /\ \A i \in 1 .. Len(s) : n + 1 + i - 1 = Len(u) + 1 + i /\ n + 1 + i - 1 \in 1 .. Len(p)
        BY <2>2, <4>2
      <4> QED
        BY <4>1, <4>3
    <3> HIDE DEF n
    <3>2. v \in Seq(Int) /\ Len(v) = Len(s) /\ \A i \in 1 .. Len(s) : v[i] = p[n + 1 + i - 1]
      BY <2>2, <3>1, RestOfString, Zenon
    <3> HIDE DEF v
    <3>3. \A i \in 1 .. Len(s) : v[i] = s[i]
      BY <2>1, <3>1, <3>2, Zenon
    <3>4. s \in Seq(Int)
      BY DEF String
    <3>5. v = s
      BY <3>2, <3>3, <3>4, SameCharacters
    <3> QED
      BY <3>5 DEF v
  <2> HIDE DEF n
  <2>8. UpTo(p, SLASH) = u
    BY <2>4, <2>5, <2>6, Zenon DEF UpTo
  <2>9. /\ tokenize(p).current = u /\ tokenize(p).isLast = FALSE
        /\ tokenize(p).next = s
    BY <2>4, <2>5, <2>7, <2>8 DEF tokenize
  <2> QED
    BY <2>9 DEF p
<1> QED
  BY <1>4, <1>5

(* In capitals a slash is a slash, and nothing else is one or the NUL.      *)
LEMMA CapitalsOf ==
  ASSUME NEW c \in Int
  PROVE  /\ toupper(c) \in Int /\ (toupper(c) = SLASH <=> c = SLASH)
         /\ toupper(c) = END_OF_STRING <=> c = END_OF_STRING
BY DEF toupper, LOWER_A, LOWER_Z, SLASH, END_OF_STRING

(* Names and paths stay such in capitals, of the same length.               *)
LEMMA CapitalsKeep ==
  /\ \A u \in Name : /\ regularfilename_to_filename(u) \in Name
                     /\ Len(regularfilename_to_filename(u)) = Len(u)
  /\ \A s \in String : /\ regularfilename_to_filename(s) \in String
                       /\ Len(regularfilename_to_filename(s)) = Len(s)
                       /\ \A i \in 1 .. Len(s) : regularfilename_to_filename(s)[i] = toupper(s[i])
<1>1. ASSUME NEW s \in String
      PROVE  /\ regularfilename_to_filename(s) = [i \in 1 .. Len(s) |-> toupper(s[i])]
             /\ \A i \in 1 .. Len(s) : toupper(s[i]) \in Int \ {END_OF_STRING}
             /\ Len(s) \in Nat
  <2>1. \A i \in 1 .. Len(s) : s[i] \in Int /\ s[i] # END_OF_STRING
    BY DEF String
  <2>2. DOMAIN s = 1 .. Len(s) /\ Len(s) \in Nat
    BY DEF String
  <2> QED
    BY <2>1, <2>2, CapitalsOf DEF regularfilename_to_filename
<1>2. ASSUME NEW s \in String
      PROVE  /\ regularfilename_to_filename(s) \in String
             /\ Len(regularfilename_to_filename(s)) = Len(s)
             /\ \A i \in 1 .. Len(s) : regularfilename_to_filename(s)[i] = toupper(s[i])
  BY <1>1 DEF String
<1>3. ASSUME NEW u \in Name
      PROVE  /\ regularfilename_to_filename(u) \in Name
             /\ Len(regularfilename_to_filename(u)) = Len(u)
  <2>1. u \in String
    BY DEF Name, String
  <2>2. /\ regularfilename_to_filename(u) = [i \in 1 .. Len(u) |-> toupper(u[i])]
        /\ \A i \in 1 .. Len(u) : toupper(u[i]) \in Int \ {END_OF_STRING}
        /\ Len(u) \in Nat
    BY <1>1, <2>1
  <2>3. \A i \in 1 .. Len(u) : toupper(u[i]) \in Int \ {END_OF_STRING, SLASH}
    <3>1. \A i \in 1 .. Len(u) : u[i] \in Int /\ u[i] # SLASH
      BY DEF Name
    <3> QED
      BY <2>2, <3>1, CapitalsOf
  <2> QED
    BY <2>2, <2>3 DEF Name
<1> QED
  BY <1>2, <1>3

(* The names of a path in capitals.                                         *)
Upper(names) == [i \in DOMAIN names |-> regularfilename_to_filename(names[i])]

(* The capitals of a path are the path of the capitals.                     *)
LEMMA CapitalsOfPath ==
  ASSUME NEW names \in Seq(Name), Len(names) > 0
  PROVE  /\ Upper(names) \in Seq(Name) /\ Len(Upper(names)) = Len(names)
         /\ \A k \in 1 .. Len(names) : Upper(names)[k] = regularfilename_to_filename(names[k])
         /\ regularfilename_to_filename(PathOf(names)) = PathsFrom(Upper(names))[1]
<1> DEFINE N == Len(names)
           up == Upper(names)
           low == PathsFrom(names)
           high == PathsFrom(up)
           T == {k \in 1 .. N : regularfilename_to_filename(low[k]) = high[k]}
<1>1. N \in Nat /\ \A k \in 1 .. N : names[k] \in Name
  OBVIOUS
<1>2. /\ up \in Seq(Name) /\ Len(up) = N
      /\ \A k \in 1 .. N : up[k] = regularfilename_to_filename(names[k])
  <2>1. DOMAIN names = 1 .. N
    OBVIOUS
  <2>2. \A k \in 1 .. N : regularfilename_to_filename(names[k]) \in Name
    BY <1>1, CapitalsKeep
  <2> QED
    BY <1>1, <2>1, <2>2 DEF Upper
<1> HIDE DEF up
<1>3. \A k \in 1 .. N :
        /\ low[k] \in String /\ high[k] \in String
        /\ low[k] = IF k = N THEN names[k] ELSE names[k] \o <<SLASH>> \o low[k + 1]
        /\ high[k] = IF k = N THEN up[k] ELSE up[k] \o <<SLASH>> \o high[k + 1]
  BY <1>2, PathsFollow
<1>4. PathOf(names) = low[1]
  BY PathsFollow
<1> HIDE DEF low, high
<1>5. N \in T
  <2>1. N \in 1 .. N
    BY <1>1
  <2> QED
    BY <1>2, <1>3, <2>1
<1>6. ASSUME NEW k \in 1 .. N - 1, k + 1 \in T PROVE k \in T
  <2>1. k \in 1 .. N /\ k # N /\ k + 1 \in 1 .. N
    BY <1>1
  <2> DEFINE u == names[k]
             s == low[k + 1]
             v == up[k]
             r == high[k + 1]
  <2>2. /\ u \in Name /\ v \in Name /\ s \in String /\ r \in String
        /\ v = regularfilename_to_filename(u) /\ r = regularfilename_to_filename(s)
    BY <1>1, <1>2, <1>3, <1>6, <2>1
  <2>3. low[k] = u \o <<SLASH>> \o s /\ high[k] = v \o <<SLASH>> \o r
    BY <1>3, <2>1
  <2>4. low[k] \in String /\ high[k] \in String
    BY <1>3, <2>1
  <2> HIDE DEF u, s, v, r
  <2> DEFINE p == low[k]
             q == high[k]
  <2>5. /\ u \in String
        /\ Len(p) = Len(u) + 1 + Len(s) /\ p[Len(u) + 1] = SLASH
        /\ \A i \in 1 .. Len(u) : p[i] = u[i]
        /\ \A i \in 1 .. Len(s) : p[Len(u) + 1 + i] = s[i]
    <3> DEFINE w == u \o <<SLASH>> \o s
    <3>1. /\ u \in String /\ Len(w) = Len(u) + 1 + Len(s) /\ w[Len(u) + 1] = SLASH
          /\ \A i \in 1 .. Len(u) : w[i] = u[i]
          /\ \A i \in 1 .. Len(s) : w[Len(u) + 1 + i] = s[i]
      BY <2>2, NamesJoin
    <3>2. p = w
      BY <2>3
    <3> HIDE DEF w
    <3> QED
      BY <3>1, <3>2
  <2>6. /\ Len(q) = Len(v) + 1 + Len(r) /\ q[Len(v) + 1] = SLASH
        /\ \A i \in 1 .. Len(v) : q[i] = v[i]
        /\ \A i \in 1 .. Len(r) : q[Len(v) + 1 + i] = r[i]
    <3> DEFINE w == v \o <<SLASH>> \o r
    <3>1. /\ Len(w) = Len(v) + 1 + Len(r) /\ w[Len(v) + 1] = SLASH
          /\ \A i \in 1 .. Len(v) : w[i] = v[i]
          /\ \A i \in 1 .. Len(r) : w[Len(v) + 1 + i] = r[i]
      BY <2>2, NamesJoin
    <3>2. q = w
      BY <2>3
    <3> HIDE DEF w
    <3> QED
      BY <3>1, <3>2
  <2>7. /\ Len(v) = Len(u) /\ Len(r) = Len(s) /\ Len(u) \in Nat /\ Len(s) \in Nat
        /\ \A i \in 1 .. Len(u) : v[i] = toupper(u[i])
        /\ \A i \in 1 .. Len(s) : r[i] = toupper(s[i])
    <3>1. Len(u) \in Nat /\ Len(s) \in Nat
      BY <2>2, <2>5 DEF String
    <3> QED
      BY <2>2, <2>5, <3>1, CapitalsKeep
  <2> DEFINE c == regularfilename_to_filename(p)
  <2>8. c \in String /\ Len(c) = Len(p) /\ \A i \in 1 .. Len(p) : c[i] = toupper(p[i])
    BY <2>4, CapitalsKeep
  <2>12. q \in String
    BY <2>4
  <2> HIDE DEF c, p, q
  <2>9. Len(c) = Len(q)
    BY <2>5, <2>6, <2>7, <2>8
  <2>10. ASSUME NEW i \in 1 .. Len(p) PROVE c[i] = q[i]
    <3>1. c[i] = toupper(p[i])
      BY <2>8
    <3>2. CASE i \in 1 .. Len(u)
      BY <2>5, <2>6, <2>7, <3>1, <3>2
    <3>3. CASE i = Len(u) + 1
      <4>1. toupper(SLASH) = SLASH
        BY CapitalsOf DEF SLASH
      <4> QED
        BY <2>5, <2>6, <2>7, <3>1, <3>3, <4>1
    <3>4. CASE i > Len(u) + 1
      <4> DEFINE j == i - Len(u) - 1
      <4>1. j \in 1 .. Len(s) /\ i = Len(u) + 1 + j
        BY <2>5, <2>7, <3>4
      <4> HIDE DEF j
      <4> QED
        BY <2>5, <2>6, <2>7, <3>1, <4>1
    <3> QED
      BY <2>5, <2>7, <3>2, <3>3, <3>4
  <2>11. c = q
    <3>1. c \in Seq(Int)
      BY <2>8 DEF String
    <3>2. q \in Seq(Int)
      BY <2>12 DEF String
    <3>3. \A i \in 1 .. Len(c) : c[i] = q[i]
      BY <2>8, <2>10
    <3> QED
      BY <2>9, <3>1, <3>2, <3>3, SameCharacters
  <2> QED
    BY <2>1, <2>11 DEF c, p, q
<1> HIDE DEF T
<1>7. \A k \in 1 .. N : k \in T
  <2> HIDE DEF N
  <2> QED
    BY <1>1, <1>5, <1>6, CountingDown
<1>8. 1 \in 1 .. N
  BY <1>1
<1> QED
  BY <1>2, <1>4, <1>7, <1>8 DEF T, up, low, high

(* What TreeAssumption says of a disk.                                      *)
IsTree(files) ==
  /\ ROOT \in DOMAIN files
  /\ \A c \in DOMAIN files :
       /\ IsDirectory(files[c])
       /\ \A e \in ToSet(files[c]) : e.kind = "dir" => e.cluster \in DOMAIN files

(* The entry the search finds in the directory at c for the first name of a *)
(* path, and whether it goes on there.                                      *)
Index(files, path, c) == find_entry(files[c], tokenize(path).current)
Hit(files, path, c) == files[c][Index(files, path, c)]
GoesOn(files, path, c) ==
  /\ path # <<>> /\ Index(files, path, c) # 0
  /\ ~tokenize(path).isLast /\ Hit(files, path, c).kind = "dir"

(* The recursive function of get_entry_of_filename.                         *)
Search(files) ==
  CHOOSE from : from =
    [at \in Seq(Int) \X DOMAIN files |->
       LET token == tokenize(at[1])
           i  == find_entry(files[at[2]], token.current)
           it == files[at[2]][i]
       IN CASE at[1] = <<>> -> Failure("INVARG")
            [] at[1] # <<>> /\ i = 0 -> Failure("NOTFOUND")
            [] at[1] # <<>> /\ i # 0 /\ token.isLast -> Found(it)
            [] at[1] # <<>> /\ i # 0 /\ ~token.isLast /\ it.kind # "dir" -> Failure("NOTADIR")
            [] OTHER -> from[<<token.next, it.cluster>>]]

(* A path that goes on gets shorter, whatever characters it has.            *)
LEMMA PathsShrink ==
  ASSUME NEW s \in Seq(Int), ~tokenize(s).isLast
  PROVE  tokenize(s).next \in Seq(Int) /\ Len(tokenize(s).next) < Len(s)
<1> DEFINE places == {i \in 1 .. Len(s) + 1 : At(s, i) = SLASH}
           m == CHOOSE i \in places : \A j \in places : i <= j
<1>1. strchr(s, SLASH) = IF places = {} THEN NULL_POINTER ELSE m
  BY Zenon DEF strchr
<1>2. tokenize(s).isLast = (strchr(s, SLASH) = NULL_POINTER)
  BY DEF tokenize
<1>3. strchr(s, SLASH) # NULL_POINTER
  BY <1>2
<1>4. tokenize(s).next = SubSeq(s, strchr(s, SLASH) + 1, Len(s))
  BY <1>3 DEF tokenize
<1>5. \A i \in places : i \in 1 .. Len(s)
  BY DEF At, SLASH, END_OF_STRING
<1>6. places # {} /\ places \subseteq Nat
  BY <1>1, <1>3
<1> HIDE DEF places
<1>7. m \in places
  BY <1>6, LeastIsChosen
<1> HIDE DEF m
<1>8. m \in 1 .. Len(s) /\ tokenize(s).next = SubSeq(s, m + 1, Len(s))
  BY <1>1, <1>4, <1>5, <1>6, <1>7
<1> DEFINE r == SubSeq(s, m + 1, Len(s))
<1>9. r \in Seq(Int) /\ Len(r) = Len(s) - m /\ Len(s) \in Nat
  BY <1>8
<1> HIDE DEF r
<1>10. Len(r) < Len(s)
  BY <1>8, <1>9
<1> QED
  BY <1>8, <1>9, <1>10 DEF r

(* What is found is an entry, and the search goes on in a directory.        *)
LEMMA SearchGoesDown ==
  ASSUME NEW files, IsTree(files), NEW path \in Seq(Int), NEW c \in DOMAIN files
  PROVE  /\ Index(files, path, c) # 0 => Hit(files, path, c) \in ToSet(files[c])
         /\ GoesOn(files, path, c) => /\ tokenize(path).next \in Seq(Int)
                                      /\ Len(tokenize(path).next) < Len(path)
                                      /\ Hit(files, path, c).cluster \in DOMAIN files
<1> DEFINE entries == files[c]
           name == tokenize(path).current
           I == {i \in 1 .. Len(entries) : strcmp(clusterfilename_to_filename(entries[i]), name) = 0}
           m == CHOOSE i \in I : \A j \in I : i <= j
<1>1. Index(files, path, c) = IF I # {} THEN m ELSE 0
  BY DEF Index, find_entry, SelectInSeq, Min
<1>2. DOMAIN entries = 1 .. Len(entries) /\ Len(entries) \in Nat
  BY DEF IsTree, IsDirectory
<1>3. I \subseteq 1 .. Len(entries) /\ I \subseteq Nat
  BY <1>2
<1> HIDE DEF I
<1>4. ASSUME Index(files, path, c) # 0 PROVE Hit(files, path, c) \in ToSet(files[c])
  <2>1. I # {}
    BY <1>1, <1>4
  <2>2. m \in I
    BY <1>3, <2>1, LeastIsChosen
  <2> HIDE DEF m
  <2>3. Index(files, path, c) \in DOMAIN entries
    BY <1>1, <1>2, <1>3, <2>1, <2>2
  <2> QED
    BY <2>3 DEF Hit, ToSet
<1>5. GoesOn(files, path, c) => Hit(files, path, c).cluster \in DOMAIN files
  BY <1>4 DEF GoesOn, IsTree
<1>6. GoesOn(files, path, c) => ~tokenize(path).isLast
  BY DEF GoesOn
<1> QED
  BY <1>4, <1>5, <1>6, PathsShrink

(* Where the search of a path is at its end, and what it answers there.     *)
Answer(files, path, c) ==
  CASE path = <<>> -> Failure("INVARG")
    [] path # <<>> /\ Index(files, path, c) = 0 -> Failure("NOTFOUND")
    [] path # <<>> /\ Index(files, path, c) # 0 /\ tokenize(path).isLast -> Found(Hit(files, path, c))
    [] OTHER -> Failure("NOTADIR")

(* The search answers, or goes on with the rest of the path in the          *)
(* directory it found.                                                      *)
LEMMA SearchFollows ==
  ASSUME NEW files, IsTree(files)
  PROVE  \A path \in Seq(Int), c \in DOMAIN files :
           Search(files)[<<path, c>>] =
             IF GoesOn(files, path, c)
             THEN Search(files)[<<tokenize(path).next, Hit(files, path, c).cluster>>]
             ELSE Answer(files, path, c)
<1> DEFINE A == Seq(Int) \X DOMAIN files
           E(at, f) ==
             LET token == tokenize(at[1])
                 i  == find_entry(files[at[2]], token.current)
                 it == files[at[2]][i]
             IN CASE at[1] = <<>> -> Failure("INVARG")
                  [] at[1] # <<>> /\ i = 0 -> Failure("NOTFOUND")
                  [] at[1] # <<>> /\ i # 0 /\ token.isLast -> Found(it)
                  [] at[1] # <<>> /\ i # 0 /\ ~token.isLast /\ it.kind # "dir" -> Failure("NOTADIR")
                  [] OTHER -> f[<<token.next, it.cluster>>]
           Down(at) == <<tokenize(at[1]).next, Hit(files, at[1], at[2]).cluster>>
           S == {Failure("INVARG"), Failure("NOTFOUND"), Failure("NOTADIR")}
                  \cup {Found(e) : e \in UNION {ToSet(files[c]) : c \in DOMAIN files}}
           Body(f) == [at \in A |-> E(at, f)]
           D == [f \in [A -> S] |-> Body(f)]
           mu == [at \in A |-> Len(at[1])]
<1>1. ASSUME NEW at \in A, NEW f
      PROVE  E(at, f) = IF GoesOn(files, at[1], at[2]) THEN f[Down(at)] ELSE Answer(files, at[1], at[2])
  <2> DEFINE p == at[1]
             c == at[2]
  <2>1. E(at, f) = CASE p = <<>> -> Failure("INVARG")
                     [] p # <<>> /\ Index(files, p, c) = 0 -> Failure("NOTFOUND")
                     [] p # <<>> /\ Index(files, p, c) # 0 /\ tokenize(p).isLast
                          -> Found(Hit(files, p, c))
                     [] p # <<>> /\ Index(files, p, c) # 0 /\ ~tokenize(p).isLast
                          /\ Hit(files, p, c).kind # "dir" -> Failure("NOTADIR")
                     [] OTHER -> f[Down(at)]
    BY Zenon DEF Index, Hit
  <2> HIDE DEF E, Down, p, c
  <2>2. E(at, f) = IF GoesOn(files, p, c) THEN f[Down(at)] ELSE Answer(files, p, c)
    BY <2>1 DEF GoesOn, Answer
  <2> QED
    BY <2>2 DEF p, c
<1>2. ASSUME NEW at \in A
      PROVE  /\ at[1] \in Seq(Int) /\ at[2] \in DOMAIN files
             /\ Answer(files, at[1], at[2]) \in S
             /\ GoesOn(files, at[1], at[2]) => Down(at) \in A /\ Len(Down(at)[1]) < Len(at[1])
  <2>1. at[1] \in Seq(Int) /\ at[2] \in DOMAIN files
    OBVIOUS
  <2>2. Answer(files, at[1], at[2]) \in S
    <3> DEFINE all == UNION {ToSet(files[c]) : c \in DOMAIN files}
    <3>1. Index(files, at[1], at[2]) # 0 => Hit(files, at[1], at[2]) \in all
      BY <2>1, SearchGoesDown
    <3> HIDE DEF all
    <3>2. Index(files, at[1], at[2]) # 0 => Found(Hit(files, at[1], at[2])) \in S
      BY <3>1 DEF all
    <3> QED
      BY <3>2 DEF Answer
  <2>3. GoesOn(files, at[1], at[2]) => Down(at) \in A /\ Len(Down(at)[1]) < Len(at[1])
    BY <2>1, SearchGoesDown
  <2> QED
    BY <2>1, <2>2, <2>3
<1> HIDE DEF E, Down, S
<1>3. S # {}
  BY DEF S
<1>4. Grows(D, A, S, mu)
  <2>1. mu \in [A -> Nat]
    <3>1. \A at \in A : Len(at[1]) \in Nat
      BY <1>2
    <3> HIDE DEF A
    <3> QED
      BY <3>1
  <2>2. D \in [[A -> S] -> [A -> S]]
    <3>1. ASSUME NEW f \in [A -> S], NEW at \in A PROVE E(at, f) \in S
      <4>1. GoesOn(files, at[1], at[2]) => f[Down(at)] \in S
        <5> HIDE DEF A
        <5> QED
          BY <1>2
      <4> QED
        BY <1>1, <1>2, <4>1
    <3> HIDE DEF A
    <3> QED
      BY <3>1
  <2>3. ASSUME NEW f \in [A -> S], NEW g \in [A -> S], NEW at \in A,
               \A b \in A : mu[b] < mu[at] => f[b] = g[b]
        PROVE  D[f][at] = D[g][at]
    <3>1. D[f][at] = E(at, f) /\ D[g][at] = E(at, g)
      <4> HIDE DEF A
      <4> QED
        OBVIOUS
    <3>2. GoesOn(files, at[1], at[2]) => f[Down(at)] = g[Down(at)]
      <4>1. GoesOn(files, at[1], at[2]) => Down(at) \in A /\ mu[Down(at)] < mu[at]
        <5> HIDE DEF A
        <5> QED
          BY <1>2
      <4> HIDE DEF A, mu
      <4> QED
        BY <2>3, <4>1
    <3>3. /\ E(at, f) = IF GoesOn(files, at[1], at[2]) THEN f[Down(at)]
                        ELSE Answer(files, at[1], at[2])
          /\ E(at, g) = IF GoesOn(files, at[1], at[2]) THEN g[Down(at)]
                        ELSE Answer(files, at[1], at[2])
      BY <1>1
    <3> HIDE DEF D, A
    <3> QED
      BY <3>1, <3>2, <3>3
  <2> HIDE DEF D, A, mu
  <2> QED
    BY <2>1, <2>2, <2>3 DEF Grows
<1>5. \E f \in [A -> S] : f = D[f]
  <2> HIDE DEF D, A, mu
  <2> QED
    BY <1>3, <1>4, Recursion
<1>6. PICK f \in [A -> S] : f = D[f]
  BY <1>5
<1>7. f = Body(f)
  <2> HIDE DEF A
  <2> QED
    BY <1>6
<1> DEFINE it == Search(files)
<1>8. it = Body(it)
  BY <1>7, Zenon DEF Search, E
<1> HIDE DEF it
<1>9. \A at \in A : it[at] = E(at, it)
  <2> HIDE DEF A
  <2> QED
    BY <1>8
<1>10. ASSUME NEW path \in Seq(Int), NEW c \in DOMAIN files
       PROVE  it[<<path, c>>] =
                IF GoesOn(files, path, c) THEN it[<<tokenize(path).next, Hit(files, path, c).cluster>>]
                ELSE Answer(files, path, c)
  <2> DEFINE at == <<path, c>>
  <2>1. at \in A /\ at[1] = path /\ at[2] = c
    OBVIOUS
  <2>2. Down(at) = <<tokenize(path).next, Hit(files, path, c).cluster>>
    BY <2>1 DEF Down
  <2> HIDE DEF at, A
  <2>3. it[at] = IF GoesOn(files, path, c) THEN it[Down(at)] ELSE Answer(files, path, c)
    BY <1>1, <1>9, <2>1
  <2> QED
    BY <2>2, <2>3 DEF at
<1> QED
  BY <1>10 DEF it

(* The directory the i-th name is looked for in, when those before it lead  *)
(* to es.                                                                   *)
Cluster(es, i) == IF i = 1 THEN ROOT ELSE es[i - 1].cluster
Directory(files, es, i) == IF i = 1 THEN files[ROOT] ELSE files[es[i - 1].cluster]

(* es[i] is the first entry of the i-th name there.                         *)
LeadsAt(files, names, es, i) ==
  /\ i > 1 => es[i - 1].kind = "dir"
  /\ \E j \in DOMAIN Directory(files, es, i) :
       /\ Directory(files, es, i)[j] = es[i]
       /\ \A k \in 1 .. j : DosName(Directory(files, es, i)[k]) = names[i] <=> k = j

(* The directory is the one at that cluster.                                *)
LEMMA DirectoryIs ==
  ASSUME NEW files, NEW es, NEW i
  PROVE  Directory(files, es, i) = files[Cluster(es, i)]
BY DEF Directory, Cluster

(* Names lead where each of them does.                                      *)
LEMMA LeadsIs ==
  ASSUME NEW files, NEW names, NEW es
  PROVE  Leads(files, names, es) <=>
           Len(es) <= Len(names) /\ \A i \in DOMAIN es : LeadsAt(files, names, es, i)
BY Zenon DEF Leads, LeadsAt, Directory

(* All entries of a disk.                                                   *)
AllEntries(files) == UNION {ToSet(files[c]) : c \in DOMAIN files}

(* Two entries that are the first of a name are the same.                   *)
LEMMA FirstIsOne ==
  ASSUME NEW entries, IsDirectory(entries), NEW name,
         NEW i \in DOMAIN entries, \A k \in 1 .. i : DosName(entries[k]) = name <=> k = i,
         NEW j \in DOMAIN entries, \A k \in 1 .. j : DosName(entries[k]) = name <=> k = j
  PROVE  i = j
<1>1. i \in Nat \ {0} /\ j \in Nat \ {0}
  BY DEF IsDirectory
<1>2. i \in 1 .. i /\ j \in 1 .. j /\ (i <= j => i \in 1 .. j) /\ (j <= i => j \in 1 .. i)
  BY <1>1
<1>3. i <= j \/ j <= i
  BY <1>1
<1> QED
  BY <1>2, <1>3

(* Names lead one way only.                                                 *)
LEMMA LeadsOneWay ==
  ASSUME NEW files, IsTree(files), NEW names, NEW es \in Seq(AllEntries(files)),
         NEW fs \in Seq(AllEntries(files)), Leads(files, names, es), Leads(files, names, fs)
  PROVE  \A i \in 1 .. Len(es) : i <= Len(fs) => es[i] = fs[i]
<1> DEFINE L == Len(es)
           T == {i \in 0 .. L : i = 0 \/ (i <= Len(fs) => es[i] = fs[i])}
<1>1. /\ L \in Nat /\ Len(fs) \in Nat
      /\ \A i \in 1 .. L : LeadsAt(files, names, es, i) /\ es[i] \in AllEntries(files)
      /\ \A i \in 1 .. Len(fs) : LeadsAt(files, names, fs, i)
  BY LeadsIs
<1>2. 0 \in T
  BY <1>1
<1>3. ASSUME NEW i \in 1 .. L, i - 1 \in T PROVE i \in T
  <2>1. CASE i > Len(fs)
    BY <1>1, <2>1
  <2>2. CASE i <= Len(fs)
    <3>1. i \in 1 .. Len(fs) /\ i \in Nat /\ i - 1 \in Nat
      BY <1>1, <2>2
    <3>2. i > 1 => es[i - 1] = fs[i - 1]
      BY <1>1, <1>3, <2>2
    <3>3. Cluster(es, i) = Cluster(fs, i)
      BY <3>1, <3>2 DEF Cluster
    <3> DEFINE entries == files[Cluster(es, i)]
    <3>9. Directory(files, es, i) = entries /\ Directory(files, fs, i) = entries
      BY <3>3, DirectoryIs
    <3>4. Cluster(es, i) \in DOMAIN files
      <4>1. CASE i = 1
        BY <4>1 DEF Cluster, IsTree
      <4>2. CASE i > 1
        <5>1. i - 1 \in 1 .. L
          BY <1>1, <4>2
        <5>2. es[i - 1].kind = "dir" /\ es[i - 1] \in AllEntries(files)
          BY <1>1, <4>2, <5>1 DEF LeadsAt
        <5> QED
          BY <4>2, <5>2 DEF Cluster, IsTree, AllEntries
      <4> QED
        BY <3>1, <4>1, <4>2
    <3>5. IsDirectory(entries)
      BY <3>4 DEF IsTree
    <3>10. LeadsAt(files, names, es, i) /\ LeadsAt(files, names, fs, i)
      BY <1>1, <3>1
    <3> HIDE DEF entries
    <3>6. PICK j \in DOMAIN entries :
                 entries[j] = es[i] /\ \A k \in 1 .. j : DosName(entries[k]) = names[i] <=> k = j
      BY <3>9, <3>10 DEF LeadsAt
    <3>7. PICK m \in DOMAIN entries :
                 entries[m] = fs[i] /\ \A k \in 1 .. m : DosName(entries[k]) = names[i] <=> k = m
      BY <3>9, <3>10 DEF LeadsAt
    <3>8. j = m
      BY <3>5, <3>6, <3>7, FirstIsOne
    <3> QED
      BY <3>1, <3>2, <3>6, <3>7, <3>8
  <2> QED
    BY <1>1, <2>1, <2>2
<1> HIDE DEF T
<1>4. \A i \in 0 .. L : i \in T
  <2> HIDE DEF L
  <2> QED
    BY <1>1, <1>2, <1>3, CountingUp
<1>5. ASSUME NEW i \in 1 .. L, i <= Len(fs) PROVE es[i] = fs[i]
  BY <1>1, <1>4, <1>5 DEF T
<1> QED
  BY <1>5

(* One more entry that is found after those the names lead to.              *)
LEMMA LeadsOn ==
  ASSUME NEW files, IsTree(files), NEW names \in Seq(Name),
         NEW es \in Seq(AllEntries(files)), Leads(files, names, es),
         NEW k \in 1 .. Len(names), Len(es) = k - 1, k > 1 => es[k - 1].kind = "dir",
         NEW c \in DOMAIN files, c = Cluster(es, k),
         NEW i, i = find_entry(files[c], names[k]), i # 0
  PROVE  /\ Append(es, files[c][i]) \in Seq(AllEntries(files))
         /\ Len(Append(es, files[c][i])) = k /\ Append(es, files[c][i])[k] = files[c][i]
         /\ \A n \in 1 .. k - 1 : Append(es, files[c][i])[n] = es[n]
         /\ Leads(files, names, Append(es, files[c][i]))
<1> DEFINE it == files[c][i]
           fs == Append(es, it)
<1>1. names[k] \in String /\ k \in Nat /\ Len(names) \in Nat
  BY DEF Name, String
<1>2. IsDirectory(files[c])
  BY DEF IsTree
<1>3. i \in DOMAIN files[c] /\ \A n \in 1 .. i : DosName(files[c][n]) = names[k] <=> n = i
  BY <1>1, <1>2, FindEntryFinds
<1>4. it \in AllEntries(files)
  BY <1>3 DEF AllEntries, ToSet
<1> HIDE DEF it
<1>5. /\ fs \in Seq(AllEntries(files)) /\ Len(fs) = k /\ fs[k] = it
      /\ \A n \in 1 .. k - 1 : fs[n] = es[n]
  BY <1>1, <1>4
<1> HIDE DEF fs
<1>6. Len(fs) <= Len(names) /\ DOMAIN fs = 1 .. k
  BY <1>1, <1>5
<1>7. ASSUME NEW n \in 1 .. k PROVE LeadsAt(files, names, fs, n)
  <2>1. Directory(files, fs, n) = Directory(files, es, n)
    <3>1. n = 1 \/ n - 1 \in 1 .. k - 1
      BY <1>1
    <3> QED
      BY <1>5, <3>1 DEF Directory
  <2>2. CASE n = k
    <3>1. Directory(files, fs, n) = files[c]
      BY <2>1, <2>2, DirectoryIs
    <3>2. n > 1 => fs[n - 1].kind = "dir"
      <4>1. n > 1 => n - 1 \in 1 .. k - 1
        BY <1>1
      <4> QED
        BY <1>5, <2>2, <4>1
    <3>3. files[c][i] = fs[n]
      BY <1>5, <2>2 DEF it
    <3> QED
      BY <1>3, <2>2, <3>1, <3>2, <3>3 DEF LeadsAt
  <2>3. CASE n \in 1 .. k - 1
    <3>1. LeadsAt(files, names, es, n)
      BY <2>3, LeadsIs
    <3>2. fs[n] = es[n] /\ (n > 1 => fs[n - 1] = es[n - 1])
      BY <1>5, <2>3
    <3> QED
      BY <2>1, <3>1, <3>2 DEF LeadsAt
  <2> QED
    BY <1>1, <2>2, <2>3
<1>8. Leads(files, names, fs)
  BY <1>6, <1>7, LeadsIs
<1> QED
  BY <1>5, <1>8 DEF fs, it

(* How far a search has come: where it is at the k-th name, es are the      *)
(* directories the names before it lead to, and what it will answer is      *)
(* what it will answer to the rest of the path from the last of them on.    *)
ComesTo(files, names, k, es) ==
  /\ es \in Seq(AllEntries(files)) /\ Len(es) = k - 1 /\ Leads(files, names, es)
  /\ \A i \in 1 .. k - 1 : es[i].kind = "dir"
  /\ Cluster(es, k) \in DOMAIN files
  /\ Search(files)[<<PathsFrom(names)[1], ROOT>>] =
       Search(files)[<<PathsFrom(names)[k], Cluster(es, k)>>]

(* What tokenize makes of the rest of a path is its next name and the rest. *)
LEMMA TokensArePlain ==
  ASSUME NEW names \in Seq(Name), NEW k \in 1 .. Len(names)
  PROVE  LET path == PathsFrom(names)[k]
         IN /\ path \in Seq(Int) /\ tokenize(path).current = names[k]
            /\ tokenize(path).isLast <=> k = Len(names)
            /\ k # Len(names) => tokenize(path).next = PathsFrom(names)[k + 1]
            /\ path = <<>> => names[k] = <<>> /\ k = Len(names)
<1> DEFINE path == PathsFrom(names)[k]
<1>1. names[k] \in Name /\ Len(names) > 0 /\ Len(names) \in Nat
  OBVIOUS
<1>2. path \in String /\ path = IF k = Len(names) THEN names[k]
                                ELSE names[k] \o <<SLASH>> \o PathsFrom(names)[k + 1]
  BY <1>1, PathsFollow
<1>3. path \in Seq(Int)
  <2> HIDE DEF path
  <2>1. path \in String
    BY <1>2
  <2> QED
    BY <2>1 DEF String
<1> DEFINE rest == PathsFrom(names)[k + 1]
<1>4. k # Len(names) => rest \in String
  BY <1>1, PathsFollow
<1> HIDE DEF path, rest
<1>5. CASE k = Len(names)
  <2>1. path = names[k]
    BY <1>2, <1>5
  <2>2. tokenize(path).current = names[k] /\ tokenize(path).isLast = TRUE
    BY <1>1, <2>1, TokenizeCuts
  <2> QED
    BY <1>3, <1>5, <2>1, <2>2 DEF path
<1>6. CASE k # Len(names)
  <2>1. path = names[k] \o <<SLASH>> \o rest
    BY <1>2, <1>6 DEF rest
  <2>2. /\ tokenize(path).current = names[k] /\ tokenize(path).isLast = FALSE
        /\ tokenize(path).next = rest
    <3>1. names[k] \in Name /\ rest \in String
      BY <1>1, <1>4, <1>6
    <3> DEFINE u == names[k]
    <3> HIDE DEF u
    <3>2. \A s \in String : /\ tokenize(u \o <<SLASH>> \o s).current = u
                            /\ tokenize(u \o <<SLASH>> \o s).isLast = FALSE
                            /\ tokenize(u \o <<SLASH>> \o s).next = s
      BY <3>1, TokenizeCuts, Zenon DEF u
    <3> QED
      BY <2>1, <3>1, <3>2, Zenon DEF u
  <2>3. path # <<>>
    <3>1. Len(path) = Len(names[k]) + 1 + Len(rest)
      BY <1>1, <1>4, <1>6, <2>1, NamesJoin
    <3>2. Len(names[k]) \in Nat /\ Len(rest) \in Nat
      BY <1>1, <1>4, <1>6 DEF Name, String
    <3>3. Len(path) # 0
      BY <3>1, <3>2
    <3> QED
      BY <3>3
  <2> QED
    BY <1>3, <1>6, <2>2, <2>3 DEF path, rest
<1> QED
  BY <1>5, <1>6

(* Every search comes to a name at which it is over.                        *)
LEMMA SearchesEnd ==
  ASSUME NEW files, IsTree(files), NEW names \in Seq(Name), Len(names) > 0
  PROVE  \E k \in 1 .. Len(names) : \E es :
           /\ ComesTo(files, names, k, es)
           /\ ~GoesOn(files, PathsFrom(names)[k], Cluster(es, k))
<1> DEFINE N == Len(names)
           T == {n \in 0 .. N - 1 : \E es : ComesTo(files, names, n + 1, es)}
<1>1. SUFFICES ASSUME \A k \in 1 .. N : \A es : ComesTo(files, names, k, es) =>
                        GoesOn(files, PathsFrom(names)[k], Cluster(es, k))
               PROVE  FALSE
  OBVIOUS
<1>2. N \in Nat \ {0} /\ N - 1 \in Nat
  OBVIOUS
<1>3. 0 \in T
  <2> DEFINE es == <<>>
  <2>1. /\ es \in Seq(AllEntries(files)) /\ Len(es) = 0 /\ DOMAIN es = {}
        /\ Cluster(es, 1) = ROOT
    BY DEF Cluster
  <2> HIDE DEF es
  <2>2. Leads(files, names, es)
    BY <1>2, <2>1, LeadsIs
  <2>3. ComesTo(files, names, 1, es)
    BY <2>1, <2>2 DEF ComesTo, IsTree
  <2> QED
    BY <1>2, <2>3
<1>4. ASSUME NEW n \in 1 .. N - 1, n - 1 \in T PROVE n \in T
  <2>1. n \in 1 .. N /\ n - 1 + 1 = n
    BY <1>2
  <2>2. PICK es : ComesTo(files, names, n, es)
    BY <1>4, <2>1
  <2> DEFINE path == PathsFrom(names)[n]
             c == Cluster(es, n)
             i == Index(files, path, c)
             it == Hit(files, path, c)
             fs == Append(es, it)
  <2>3. GoesOn(files, path, c)
    BY <1>1, <2>1, <2>2
  <2>4. /\ path \in Seq(Int) /\ tokenize(path).current = names[n]
        /\ n # N /\ tokenize(path).next = PathsFrom(names)[n + 1]
    <3>1. ~tokenize(path).isLast
      BY <2>3 DEF GoesOn
    <3> HIDE DEF N
    <3> QED
      BY <2>1, <3>1, TokensArePlain DEF N
  <2>5. c \in DOMAIN files
    BY <2>2 DEF ComesTo
  <2>6. i = find_entry(files[c], names[n]) /\ it = files[c][i]
    BY <2>4 DEF Index, Hit
  <2>7. i # 0 /\ it.kind = "dir"
    BY <2>3 DEF GoesOn
  <2> HIDE DEF path, c, i
  <2>8. /\ fs \in Seq(AllEntries(files)) /\ Len(fs) = n /\ fs[n] = it
        /\ \A m \in 1 .. n - 1 : fs[m] = es[m]
        /\ Leads(files, names, fs)
    <3>1. n > 1 => n - 1 \in 1 .. n - 1
      BY <2>1
    <3>2. /\ es \in Seq(AllEntries(files)) /\ Len(es) = n - 1 /\ Leads(files, names, es)
          /\ n > 1 => es[n - 1].kind = "dir"
      BY <2>2, <3>1 DEF ComesTo
    <3> HIDE DEF it, N
    <3> QED
      BY <2>1, <2>5, <2>6, <2>7, <3>2, LeadsOn DEF N, c
  <2> HIDE DEF it, fs
  <2>9. \A m \in 1 .. n : fs[m].kind = "dir"
    <3>1. \A m \in 1 .. n - 1 : es[m].kind = "dir"
      BY <2>2 DEF ComesTo
    <3>2. \A m \in 1 .. n : m = n \/ m \in 1 .. n - 1
      BY <2>1
    <3> QED
      BY <2>7, <2>8, <3>1, <3>2
  <2>10. Cluster(fs, n + 1) = it.cluster
    <3>1. n + 1 # 1 /\ n + 1 - 1 = n
      BY <2>1
    <3> QED
      BY <2>8, <3>1 DEF Cluster
  <2>11. /\ it.cluster \in DOMAIN files
         /\ Search(files)[<<path, c>>] = Search(files)[<<PathsFrom(names)[n + 1], it.cluster>>]
    <3>1. Search(files)[<<path, c>>] = Search(files)[<<tokenize(path).next, it.cluster>>]
      BY <2>3, <2>4, <2>5, SearchFollows DEF it
    <3>2. it.cluster \in DOMAIN files
      BY <2>3, <2>4, <2>5, SearchGoesDown DEF it
    <3> QED
      BY <2>4, <3>1, <3>2
  <2>12. ComesTo(files, names, n + 1, fs)
    <3>1. n + 1 - 1 = n
      BY <2>1
    <3>2. Search(files)[<<PathsFrom(names)[1], ROOT>>] = Search(files)[<<path, c>>]
      BY <2>2 DEF ComesTo, path, c
    <3>3. Len(fs) = n + 1 - 1 /\ \A m \in 1 .. n + 1 - 1 : fs[m].kind = "dir"
      BY <2>8, <2>9, <3>1
    <3> HIDE DEF N
    <3> QED
      BY <2>8, <2>10, <2>11, <3>2, <3>3 DEF ComesTo
  <2>13. n \in 0 .. N - 1
    BY <1>2
  <2> QED
    BY <2>12, <2>13
<1> HIDE DEF T
<1>5. \A n \in 0 .. N - 1 : n \in T
  <2> DEFINE M == N - 1
  <2> HIDE DEF N
  <2>1. M \in Nat
    BY <1>2
  <2>2. 0 \in T /\ \A n \in 1 .. M : n - 1 \in T => n \in T
    BY <1>3, <1>4
  <2> HIDE DEF M
  <2>3. \A n \in 0 .. M : n \in T
    BY <2>1, <2>2, CountingUp
  <2> QED
    BY <2>3 DEF M
<1>6. N - 1 \in T /\ N - 1 + 1 = N /\ N \in 1 .. N
  BY <1>2, <1>5
<1>7. PICK es : ComesTo(files, names, N, es)
  BY <1>6 DEF T
<1>8. GoesOn(files, PathsFrom(names)[N], Cluster(es, N))
  BY <1>1, <1>6, <1>7
<1>9. tokenize(PathsFrom(names)[N]).isLast
  BY <1>6, TokensArePlain
<1> QED
  BY <1>8, <1>9 DEF GoesOn

(* The answer to a path, for every tree and all names.                      *)
LEMMA SearchIsRight ==
  ASSUME NEW files, IsTree(files), NEW names \in Seq(Name), Len(names) > 0,
         NEW result, result = Search(files)[<<PathsFrom(Upper(names))[1], ROOT>>]
  PROVE  /\ LookupIsRight(files, names, result)
         /\ result.err = "NO" => result.entry \in AllEntries(files)
<1> DEFINE up == Upper(names)
           N == Len(names)
           all == AllEntries(files)
           chains == {es \in SeqOf(all, N) : es # <<>> /\ Leads(files, up, es)}
           whole == {es \in chains : Len(es) = N}
<1>1. up \in Seq(Name) /\ Len(up) = N /\ N \in Nat /\ DOMAIN names = 1 .. N
  BY CapitalsOfPath
<1>2. ASSUME NEW es \in chains
      PROVE  es \in Seq(all) /\ Leads(files, up, es) /\ Len(es) \in 1 .. N
  <2>1. PICK m \in 0 .. N : es \in [1 .. m -> all]
    BY DEF SeqOf
  <2> HIDE DEF all
  <2>2. es \in Seq(all) /\ Len(es) = m
    BY <1>1, <2>1
  <2>3. es # <<>> /\ Leads(files, up, es)
    OBVIOUS
  <2>4. Len(es) # 0
    BY <2>2, <2>3
  <2> QED
    BY <1>1, <2>2, <2>3, <2>4
<1>3. ASSUME NEW es \in Seq(all), Leads(files, up, es), Len(es) \in 1 .. N
      PROVE  es \in chains
  <2>1. es \in [1 .. Len(es) -> all] /\ Len(es) \in 0 .. N /\ es # <<>>
    BY <1>1, <1>3
  <2>2. es \in SeqOf(all, N)
    BY <2>1 DEF SeqOf
  <2> QED
    BY <1>3, <2>1, <2>2
<1> HIDE DEF up, chains, all
<1>4. PICK k \in 1 .. N : \E es : /\ ComesTo(files, up, k, es)
                                  /\ ~GoesOn(files, PathsFrom(up)[k], Cluster(es, k))
  BY <1>1, SearchesEnd
<1>5. PICK es : ComesTo(files, up, k, es) /\ ~GoesOn(files, PathsFrom(up)[k], Cluster(es, k))
  BY <1>4
<1> DEFINE path == PathsFrom(up)[k]
           c == Cluster(es, k)
           i == find_entry(files[c], up[k])
           it == files[c][i]
           fs == Append(es, it)
<1>6. /\ es \in Seq(all) /\ Len(es) = k - 1 /\ Leads(files, up, es)
      /\ \A n \in 1 .. k - 1 : es[n].kind = "dir"
      /\ c \in DOMAIN files
  BY <1>5 DEF ComesTo, all
<1>7. /\ path \in Seq(Int) /\ tokenize(path).current = up[k]
      /\ tokenize(path).isLast <=> k = N
      /\ path = <<>> => up[k] = <<>> /\ k = N
  BY <1>1, TokensArePlain
<1>8. Index(files, path, c) = i /\ Hit(files, path, c) = it
  BY <1>7 DEF Index, Hit
<1>9. result = Answer(files, path, c)
  BY <1>5, <1>6, <1>7, SearchFollows DEF ComesTo, up
<1>10. up[k] \in String /\ IsDirectory(files[c]) /\ k \in Nat
  BY <1>1, <1>6 DEF IsTree, Name, String
<1>11. i # 0 =>
         /\ fs \in Seq(all) /\ Len(fs) = k /\ fs[k] = it
         /\ \A n \in 1 .. k - 1 : fs[n] = es[n]
         /\ Leads(files, up, fs)
  <2>1. k > 1 => es[k - 1].kind = "dir"
    BY <1>6, <1>10
  <2> QED
    BY <1>1, <1>6, <2>1, LeadsOn DEF all
<1> HIDE DEF path, c, i, it, fs
(* Whatever is whole leads through what the search has come through.        *)
<1>12. ASSUME NEW gs \in whole
       PROVE  /\ i # 0
              /\ k < N => it.kind = "dir"
              /\ up[k] # <<>>
  <2>1. gs \in Seq(all) /\ Leads(files, up, gs) /\ Len(gs) = N
    BY <1>2
  <2>2. LeadsAt(files, up, gs, k)
    BY <1>1, <2>1, LeadsIs
  <2>3. Directory(files, gs, k) = files[c]
    <3>1. k > 1 => es[k - 1] = gs[k - 1]
      <4>1. \A n \in 1 .. Len(es) : n <= Len(gs) => es[n] = gs[n]
        BY <1>6, <2>1, LeadsOneWay DEF all
      <4> QED
        BY <1>6, <1>10, <2>1, <4>1
    <3>2. k = 1 \/ k > 1
      BY <1>10
    <3> QED
      BY <3>1, <3>2 DEF Directory, c, Cluster
  <2>4. PICK j \in DOMAIN files[c] : DosName(files[c][j]) = up[k]
    <3>1. PICK j \in DOMAIN files[c] :
                 \A n \in 1 .. j : DosName(files[c][n]) = up[k] <=> n = j
      BY <2>2, <2>3 DEF LeadsAt
    <3>2. j \in 1 .. j
      BY <1>10, <3>1 DEF IsDirectory
    <3> QED
      BY <3>1, <3>2
  <2>5. i # 0
    BY <1>10, <2>4, FindEntryFinds DEF i
  <2>6. up[k] # <<>>
    <3>1. files[c][j] \in ToSet(files[c])
      BY <2>4 DEF ToSet
    <3>2. IsEntry(files[c][j])
      BY <1>10, <3>1 DEF IsDirectory
    <3> QED
      BY <2>4, <3>2, NameIsDosName
  <2>7. ASSUME k < N PROVE it.kind = "dir"
    <3>1. k + 1 \in 1 .. N /\ k + 1 > 1 /\ k + 1 - 1 = k
      BY <1>1, <1>10, <2>7
    <3>2. LeadsAt(files, up, gs, k + 1)
      BY <2>1, <3>1, LeadsIs
    <3>3. gs[k].kind = "dir"
      BY <3>1, <3>2 DEF LeadsAt
    <3>4. \A n \in 1 .. Len(fs) : n <= Len(gs) => fs[n] = gs[n]
      BY <1>11, <2>1, <2>5, LeadsOneWay DEF all
    <3>5. gs[k] = it
      <4>1. Len(fs) = k /\ fs[k] = it
        BY <1>11, <2>5
      <4>2. k \in 1 .. Len(fs) /\ k <= Len(gs)
        BY <1>1, <1>10, <2>1, <4>1
      <4> QED
        BY <3>4, <4>1, <4>2
    <3> QED
      BY <3>3, <3>5
  <2> QED
    BY <2>5, <2>6, <2>7
<1>13. i # 0 => fs \in chains
  BY <1>1, <1>3, <1>10, <1>11
<1>14. /\ result.err = "NO" <=> whole # {}
       /\ result.err = "NO" => \E gs \in whole : Last(gs) = result.entry
       /\ result.err = "NOTADIR" => \E gs \in chains \ whole : Last(gs).kind # "dir"
       /\ result.err = "INVARG" => <<>> \in ToSet(names)
  <2>1. CASE path = <<>>
    <3>1. result.err = "INVARG"
      BY <1>9, <2>1 DEF Answer, Failure
    <3>2. whole = {}
      BY <1>7, <1>12, <2>1
    <3>3. <<>> \in ToSet(names)
      <4>1. up[k] = <<>> /\ up[k] = regularfilename_to_filename(names[k])
        BY <1>7, <2>1, CapitalsOfPath DEF up
      <4>2. names[k] = <<>>
        <5>1. names[k] \in Name
          BY <1>1
        <5>2. Len(names[k]) = 0
          BY <4>1, <5>1, CapitalsKeep
        <5> QED
          BY <5>1, <5>2 DEF Name
      <4> QED
        BY <1>1, <4>2 DEF ToSet
    <3> QED
      BY <3>1, <3>2, <3>3
  <2>2. CASE path # <<>> /\ i = 0
    <3>1. result.err = "NOTFOUND"
      BY <1>8, <1>9, <2>2 DEF Answer, Failure
    <3>2. whole = {}
      BY <1>12, <2>2
    <3> QED
      BY <3>1, <3>2
  <2>3. CASE path # <<>> /\ i # 0 /\ k = N
    <3>1. result = Found(it)
      BY <1>7, <1>8, <1>9, <2>3 DEF Answer
    <3>2. result.err = "NO" /\ result.entry = it
      BY <3>1 DEF Found
    <3>3. fs \in whole /\ Last(fs) = it
      BY <1>11, <1>13, <2>3 DEF Last
    <3> QED
      BY <3>2, <3>3
  <2>4. CASE path # <<>> /\ i # 0 /\ k # N
    <3>1. it.kind # "dir"
      BY <1>5, <1>7, <1>8, <2>4 DEF GoesOn, path, c
    <3>2. result = Failure("NOTADIR")
      BY <1>7, <1>8, <1>9, <2>4 DEF Answer
    <3>3. result.err = "NOTADIR"
      BY <3>2 DEF Failure
    <3>4. k < N
      BY <1>1, <1>10, <2>4
    <3>5. whole = {}
      BY <1>12, <3>1, <3>4
    <3>6. fs \in chains /\ fs \notin whole /\ Last(fs) = it
      BY <1>11, <1>13, <2>4 DEF Last
    <3> QED
      BY <3>1, <3>3, <3>5, <3>6
  <2> QED
    BY <2>1, <2>2, <2>3, <2>4
<1>15. result.err = "NO" => result.entry \in AllEntries(files)
  <2>1. ASSUME NEW gs \in whole PROVE Last(gs) \in all
    BY <1>2 DEF Last
  <2> QED
    BY <1>14, <2>1 DEF all
<1>16. LookupIsRight(files, names, result)
  BY <1>14, Zenon DEF LookupIsRight, up, all, chains, AllEntries, Upper
<1> QED
  BY <1>15, <1>16

(* The first character of a path is that of its first name.                 *)
LEMMA PathsBegin ==
  ASSUME NEW names \in Seq(Name), Len(names) > 0, names[1] # <<>>
  PROVE  /\ PathOf(names) \in String /\ PathOf(names) # <<>>
         /\ Head(PathOf(names)) = PathOf(names)[1] /\ PathOf(names)[1] # SLASH
<1> DEFINE p == PathOf(names)
           u == names[1]
<1>1. 1 \in 1 .. Len(names) /\ u \in Name
  OBVIOUS
<1>2. u \in String /\ Len(u) \in Nat /\ Len(u) > 0 /\ u[1] # SLASH
  <2> HIDE DEF u
  <2>1. Len(u) \in Nat /\ Len(u) > 0
    BY <1>1 DEF Name, u
  <2>2. u[1] \in Int \ {END_OF_STRING, SLASH}
    BY <1>1, <2>1 DEF Name
  <2> QED
    BY <1>1, <2>1, <2>2 DEF Name, String
<1>3. /\ p = PathsFrom(names)[1] /\ PathsFrom(names)[1] \in String
      /\ PathsFrom(names)[1] = IF 1 = Len(names) THEN u
                               ELSE u \o <<SLASH>> \o PathsFrom(names)[2]
  BY <1>1, PathsFollow
<1>4. Len(names) # 1 => PathsFrom(names)[2] \in String
  <2> HIDE DEF p, u
  <2> SUFFICES ASSUME Len(names) # 1
               PROVE  PathsFrom(names)[2] \in String
    OBVIOUS
  <2>1. 2 \in 1 .. Len(names)
    <3>1. Len(names) \in Nat
      OBVIOUS
    <3>2. ASSUME NEW n \in Nat, n > 0, n # 1 PROVE 2 \in 1 .. n
      BY <3>2
    <3> QED
      BY <3>1, <3>2
  <2> QED
    BY <2>1, PathsFollow
<1> HIDE DEF p, u
<1>5. p[1] = u[1] /\ p # <<>>
  <2>1. CASE Len(names) = 1
    <3>1. p = u
      BY <1>3, <2>1
    <3> QED
      BY <1>2, <3>1 DEF String
  <2>2. CASE Len(names) # 1
    <3> DEFINE s == PathsFrom(names)[2]
    <3>1. p = u \o <<SLASH>> \o s /\ s \in String
      BY <1>3, <1>4, <2>2
    <3> HIDE DEF s
    <3>2. /\ Len(p) = Len(u) + 1 + Len(s) /\ \A i \in 1 .. Len(u) : p[i] = u[i]
      BY <1>1, <3>1, NamesJoin
    <3>3. Len(s) \in Nat
      BY <3>1 DEF String
    <3>4. Len(p) # 0
      BY <1>2, <3>2, <3>3
    <3>5. p # <<>>
      BY <3>4
    <3> QED
      BY <1>2, <3>2, <3>5
  <2> QED
    BY <2>1, <2>2
<1>6. p \in String
  BY <1>3
<1>7. Head(p) = p[1]
  BY <1>5, <1>6 DEF String
<1> QED
  BY <1>2, <1>5, <1>6, <1>7 DEF p

(* A path is searched from the root on, with or without a slash before it.  *)
LEMMA LookupsSearch ==
  ASSUME NEW files, NEW names \in Seq(Name), Len(names) > 0, names[1] # <<>>,
         NEW path \in {PathOf(names), <<SLASH>> \o PathOf(names)}
  PROVE  file_lookup(files, path) = Search(files)[<<PathsFrom(Upper(names))[1], ROOT>>]
<1> DEFINE up == Upper(names)
           p == PathsFrom(up)[1]
           low == PathOf(names)
           high == regularfilename_to_filename(path)
           rest == IF high # <<>> /\ Head(high) = SLASH THEN Tail(high) ELSE high
<1>1. up \in Seq(Name) /\ Len(up) > 0 /\ up[1] # <<>>
  <2>1. 1 \in 1 .. Len(names) /\ names[1] \in Name
    OBVIOUS
  <2>2. up \in Seq(Name) /\ Len(up) > 0 /\ up[1] = regularfilename_to_filename(names[1])
    BY <2>1, CapitalsOfPath
  <2>3. Len(names[1]) # 0
    BY <2>1 DEF Name
  <2>4. Len(up[1]) # 0
    BY <2>1, <2>2, <2>3, CapitalsKeep
  <2>5. up[1] # <<>>
    <3> HIDE DEF up
    <3> QED
      BY <2>4
  <2> QED
    BY <2>2, <2>5
<1>2. regularfilename_to_filename(low) = p
  BY CapitalsOfPath
<1>3. p = PathOf(up)
  <2> HIDE DEF up
  <2> QED
    BY <1>1, PathsFollow
<1>4. p \in String /\ p # <<>> /\ Head(p) # SLASH
  <2> HIDE DEF up
  <2> QED
    BY <1>1, <1>3, PathsBegin
<1>5. low \in String
  BY PathsBegin
<1>6. file_lookup(files, path) = Search(files)[<<rest, ROOT>>]
  BY Zenon DEF file_lookup, get_entry_of_filename, Search
<1> HIDE DEF up, p, low
<1>7. rest = p
  <2>1. CASE path = low
    <3>1. high = p
      BY <1>2, <2>1
    <3> QED
      BY <1>4, <3>1
  <2>2. CASE path = <<SLASH>> \o low
    <3>1. low \in Seq(Int) /\ SLASH \in Int /\ path \in Seq(Int)
      <4>1. low \in Seq(Int) /\ SLASH \in Int
        BY <1>5 DEF String, SLASH
      <4> QED
        BY <2>2, <4>1
    <3>2. /\ Len(path) = Len(low) + 1 /\ path[1] = SLASH /\ Len(low) \in Nat
          /\ \A i \in 1 .. Len(low) : path[i + 1] = low[i]
      BY <2>2, <3>1
    <3>3. DOMAIN path = 1 .. Len(low) + 1
      BY <3>1, <3>2
    <3>4. high = [i \in 1 .. Len(low) + 1 |-> toupper(path[i])]
      BY <3>3, Zenon DEF regularfilename_to_filename
    <3>5. \A i \in 1 .. Len(low) + 1 : toupper(path[i]) \in Int
      <4>1. \A i \in 1 .. Len(low) + 1 : path[i] \in Int
        BY <3>1, <3>2
      <4> QED
        BY <4>1, CapitalsOf
    <3>6. toupper(SLASH) = SLASH
      BY <3>1, CapitalsOf
    <3> HIDE DEF high
    <3>7. high \in Seq(Int) /\ Len(high) = Len(low) + 1 /\ high[1] = SLASH
      BY <3>2, <3>4, <3>5, <3>6
    <3>8. high # <<>> /\ Head(high) = SLASH
      BY <3>2, <3>7
    <3> DEFINE t == Tail(high)
    <3>9. t \in Seq(Int) /\ Len(t) = Len(low) /\ \A i \in 1 .. Len(low) : t[i] = high[i + 1]
      BY <3>2, <3>7
    <3>10. \A i \in 1 .. Len(low) : t[i] = toupper(low[i])
      BY <3>2, <3>4, <3>9
    <3>11. p \in Seq(Int) /\ Len(p) = Len(low) /\ \A i \in 1 .. Len(low) : p[i] = toupper(low[i])
      <4>1. p \in Seq(Int)
        BY <1>4 DEF String
      <4> QED
        BY <1>2, <1>5, <4>1, CapitalsKeep
    <3> HIDE DEF t
    <3>12. t = p
      BY <3>9, <3>10, <3>11, SameCharacters
    <3> QED
      BY <3>8, <3>12 DEF t
  <2> QED
    BY <2>1, <2>2 DEF low
<1> QED
  BY <1>6, <1>7 DEF p, up

(* The places up to n of the entries a listing has.                         *)
Shown(entries, n) == {j \in 1 .. n : entries[j].kind # "label"}

(* Their number grows with each that is no label.                           *)
LEMMA ShownGrows ==
  ASSUME NEW entries, NEW n \in Nat \ {0}
  PROVE  /\ Cardinality(Shown(entries, n - 1)) \in Nat
         /\ Cardinality(Shown(entries, n)) =
              Cardinality(Shown(entries, n - 1)) + IF entries[n].kind = "label" THEN 0 ELSE 1
<1> DEFINE before == Shown(entries, n - 1)
<1>1. IsFiniteSet(before) /\ before \subseteq 1 .. n - 1
  <2>1. IsFiniteSet(1 .. n - 1)
    <3>1. n - 1 \in Int /\ 1 \in Int
      OBVIOUS
    <3> QED
      BY <3>1, FS_Interval
  <2>2. before \subseteq 1 .. n - 1
    BY DEF Shown
  <2> QED
    BY <2>1, <2>2, FS_Subset
<1>2. n \notin before
  BY <1>1
<1>3. Shown(entries, n) = IF entries[n].kind = "label" THEN before ELSE before \cup {n}
  <2>1. ASSUME NEW j PROVE j \in 1 .. n <=> j \in 1 .. n - 1 \/ j = n
    OBVIOUS
  <2> QED
    BY <2>1 DEF Shown
<1> HIDE DEF before
<1>4. Cardinality(before) \in Nat
  BY <1>1, FS_CardinalityType
<1>5. Cardinality(before \cup {n}) = Cardinality(before) + 1
  BY <1>1, <1>2, FS_AddElement
<1> QED
  BY <1>3, <1>4, <1>5 DEF before

(* A listing has the entries that are no label, in their order.             *)
LEMMA ListedIs ==
  ASSUME NEW entries, IsDirectory(entries)
  PROVE  /\ Len(Listed(entries)) = Cardinality(Shown(entries, Len(entries)))
         /\ \A j \in Shown(entries, Len(entries)) :
              Listed(entries)[Cardinality(Shown(entries, j))] = create_dir_entry(entries[j])
<1> DEFINE N == Len(entries)
           C == {create_dir_entry(e) : e \in ToSet(entries)}
           S == Seq(C)
           E(n, s) == IF entries[n].kind = "label" THEN s ELSE Append(s, create_dir_entry(entries[n]))
           step == [n \in 1 .. N |-> [s \in S |-> E(n, s)]]
           it == CHOOSE f : f = [n \in 0 .. N |->
                   IF n = 0 THEN <<>>
                   ELSE IF entries[n].kind = "label" THEN f[n - 1]
                   ELSE Append(f[n - 1], create_dir_entry(entries[n]))]
           Size(n) == Cardinality(Shown(entries, n))
<1>1. N \in Nat
  BY DEF IsDirectory
<1>2. ASSUME NEW n \in 1 .. N PROVE create_dir_entry(entries[n]) \in C
  <2>1. entries[n] \in ToSet(entries)
    BY <1>1 DEF ToSet, IsDirectory
  <2> QED
    BY <2>1
<1> HIDE DEF C
<1>3. ASSUME NEW n \in 1 .. N, NEW s \in S PROVE E(n, s) \in S
  BY <1>2
<1>4. <<>> \in S
  OBVIOUS
<1> HIDE DEF E, S
<1>5. step \in [1 .. N -> [S -> S]]
  BY <1>3
<1>6. \E f \in [0 .. N -> S] : Iterates(f, N, <<>>, step)
  <2> HIDE DEF step, N
  <2> QED
    BY <1>1, <1>4, <1>5, Iteration
<1>7. PICK f \in [0 .. N -> S] : f = [n \in 0 .. N |-> IF n = 0 THEN <<>> ELSE step[n][f[n - 1]]]
  BY <1>6 DEF Iterates
<1>8. f = [n \in 0 .. N |-> IF n = 0 THEN <<>> ELSE E(n, f[n - 1])]
  <2>1. ASSUME NEW n \in 0 .. N, n # 0 PROVE step[n][f[n - 1]] = E(n, f[n - 1])
    <3>1. n \in 1 .. N /\ f[n - 1] \in S
      BY <2>1
    <3> QED
      BY <3>1
  <2> HIDE DEF step
  <2> QED
    BY <1>7, <2>1
<1>9. it = [n \in 0 .. N |-> IF n = 0 THEN <<>> ELSE E(n, it[n - 1])]
  BY <1>8, Zenon DEF E
<1>10. Listed(entries) = it[N]
  BY Zenon DEF Listed
<1> HIDE DEF it
<1>11. \A n \in 0 .. N : it[n] = IF n = 0 THEN <<>> ELSE E(n, it[n - 1])
  BY <1>9, Zenon
<1>12. it[0] = <<>> /\ \A n \in 1 .. N : it[n] = E(n, it[n - 1])
  <2>1. ASSUME NEW n \in 1 .. N PROVE n \in 0 .. N /\ n # 0
    BY <1>1
  <2> QED
    BY <1>1, <1>11, <2>1
<1> DEFINE T == {n \in 0 .. N : /\ it[n] \in S /\ Len(it[n]) = Size(n) /\ Size(n) \in Nat
                                /\ \A j \in Shown(entries, n) :
                                     /\ Size(j) \in 1 .. Size(n)
                                     /\ it[n][Size(j)] = create_dir_entry(entries[j])}
<1>13. 0 \in T
  <2>1. Shown(entries, 0) = {}
    BY DEF Shown
  <2>2. Size(0) = 0
    BY <2>1, FS_EmptySet
  <2>3. Len(it[0]) = 0
    BY <1>12
  <2> QED
    BY <1>1, <1>4, <1>12, <2>1, <2>2, <2>3
<1>14. ASSUME NEW n \in 1 .. N, n - 1 \in T PROVE n \in T
  <2> DEFINE s == it[n - 1]
             k == Size(n - 1)
  <2>1. /\ s \in S /\ Len(s) = k /\ k \in Nat
        /\ \A j \in Shown(entries, n - 1) :
             Size(j) \in 1 .. k /\ s[Size(j)] = create_dir_entry(entries[j])
    BY <1>14
  <2>2. it[n] = E(n, s) /\ it[n] \in S /\ n \in 0 .. N /\ n \in Nat \ {0}
    BY <1>1, <1>3, <1>12, <2>1
  <2>3. Size(n) = k + IF entries[n].kind = "label" THEN 0 ELSE 1
    BY <2>2, ShownGrows
  <2>4. \A j : j \in Shown(entries, n) <=>
                 j \in Shown(entries, n - 1) \/ (j = n /\ entries[n].kind # "label")
    <3>1. ASSUME NEW j PROVE j \in 1 .. n <=> j \in 1 .. n - 1 \/ j = n
      BY <2>2
    <3> QED
      BY <3>1 DEF Shown
  <2> HIDE DEF T, s, k, Size
  <2>5. CASE entries[n].kind = "label"
    <3>1. it[n] = s /\ Size(n) = k
      BY <2>1, <2>2, <2>3, <2>5 DEF E
    <3> QED
      BY <2>1, <2>2, <2>4, <2>5, <3>1 DEF T
  <2>6. CASE entries[n].kind # "label"
    <3> DEFINE it1 == Append(s, create_dir_entry(entries[n]))
    <3>1. it[n] = it1 /\ Size(n) = k + 1
      BY <2>1, <2>2, <2>3, <2>6 DEF E
    <3>2. /\ Len(it1) = k + 1 /\ it1[k + 1] = create_dir_entry(entries[n])
          /\ \A i \in 1 .. k : it1[i] = s[i]
      BY <1>2, <2>1 DEF S
    <3> HIDE DEF it1
    <3>3. ASSUME NEW j \in Shown(entries, n)
          PROVE  Size(j) \in 1 .. Size(n) /\ it[n][Size(j)] = create_dir_entry(entries[j])
      <4>1. CASE j = n
        BY <2>1, <3>1, <3>2, <4>1
      <4>2. CASE j \in Shown(entries, n - 1)
        <5>1. Size(j) \in 1 .. k /\ s[Size(j)] = create_dir_entry(entries[j])
          BY <2>1, <4>2
        <5>2. Size(j) \in 1 .. k + 1
          BY <2>1, <5>1
        <5> QED
          BY <3>1, <3>2, <5>1, <5>2
      <4> QED
        BY <2>4, <4>1, <4>2
    <3>4. Len(it[n]) = Size(n) /\ Size(n) \in Nat
      BY <2>1, <3>1, <3>2
    <3> QED
      BY <2>2, <3>3, <3>4 DEF T
  <2> QED
    BY <2>5, <2>6
<1> HIDE DEF T
<1>15. N \in T
  <2>1. \A n \in 0 .. N : n \in T
    <3> HIDE DEF N
    <3> QED
      BY <1>1, <1>13, <1>14, CountingUp
  <2>2. N \in 0 .. N
    BY <1>1
  <2> QED
    BY <2>1, <2>2
<1> QED
  BY <1>10, <1>15 DEF T

(* The listing has every entry that is not a label, deleted ones too, in the *)
(* order of the directory and under the name of the entry.                  *)
LEMMA ListedIsWhole ==
  ASSUME NEW entries, IsDirectory(entries),
         NEW numbers, numbers = {j \in DOMAIN entries : entries[j].kind # "label"}
  PROVE  /\ Len(Listed(entries)) = Cardinality(numbers)
         /\ \A j \in numbers :
              Listed(entries)[Cardinality(numbers \cap (1 .. j))] =
                [name |-> DosName(entries[j]), isDir |-> entries[j].kind = "dir"]
<1>1. DOMAIN entries = 1 .. Len(entries) /\ Len(entries) \in Nat
  BY DEF IsDirectory
<1>2. numbers = Shown(entries, Len(entries))
  BY <1>1 DEF Shown
<1>3. ASSUME NEW j \in numbers
      PROVE  Listed(entries)[Cardinality(numbers \cap (1 .. j))] =
               [name |-> DosName(entries[j]), isDir |-> entries[j].kind = "dir"]
  <2>1. j \in 1 .. Len(entries) /\ j \in Shown(entries, Len(entries))
    BY <1>1, <1>2
  <2>2. numbers \cap (1 .. j) = Shown(entries, j)
    <3>1. \A k : k \in 1 .. j => k \in 1 .. Len(entries)
      BY <1>1, <2>1
    <3> QED
      BY <1>2, <3>1 DEF Shown
  <2>3. Listed(entries)[Cardinality(Shown(entries, j))] = create_dir_entry(entries[j])
    BY <2>1, ListedIs
  <2>4. entries[j] \in ToSet(entries)
    BY <1>1, <2>1 DEF ToSet
  <2>5. IsEntry(entries[j])
    BY <2>4 DEF IsDirectory
  <2>6. clusterfilename_to_filename(entries[j]) = DosName(entries[j])
    BY <2>5, NameIsDosName
  <2> QED
    BY <2>2, <2>3, <2>6, Zenon DEF create_dir_entry
<1> QED
  BY <1>2, <1>3, ListedIs

(* dir_open lists the directory that a path leads to, and nothing else: of  *)
(* what ListingIsRight leaves open it shows all there is.                   *)
LEMMA ListingAlwaysRight ==
  ASSUME NEW files, IsTree(files), NEW names \in Seq(Name), Len(names) > 0, names[1] # <<>>
  PROVE  ListingIsRight(files, names, dir_open(files, PathOf(names)))
<1> DEFINE path == PathOf(names)
           found == file_lookup(files, path)
           entries == files[found.entry.cluster]
           numbers == {j \in DOMAIN entries : entries[j].kind # "label"}
           result == dir_open(files, path)
<1>1. strcmp(path, <<SLASH>>) # 0
  <2>1. path \in String /\ path[1] # SLASH
    BY PathsBegin
  <2>2. <<SLASH>> \in String /\ <<SLASH>>[1] = SLASH
    BY DEF String, SLASH, END_OF_STRING
  <2> HIDE DEF path
  <2> QED
    BY <2>1, <2>2, StrcmpTells
<1>2. result = ListAt(files, found)
  BY <1>1, Zenon DEF dir_open, file_lookup
<1>3. found.err = "NO" => found.entry \in AllEntries(files)
  <2>1. found = Search(files)[<<PathsFrom(Upper(names))[1], ROOT>>]
    BY LookupsSearch
  <2> HIDE DEF found
  <2> QED
    BY <2>1, SearchIsRight
<1> HIDE DEF found
<1>4. result = IF found.err # "NO" THEN found
               ELSE IF found.entry.kind # "dir" THEN Failure("NOTADIR") ELSE Found(Listed(entries))
  BY <1>2 DEF ListAt
<1> HIDE DEF result
<1>5. result.err = "NO" <=> found.err = "NO" /\ found.entry.kind = "dir"
  BY <1>4 DEF Failure, Found
<1>6. ASSUME result.err = "NO"
      PROVE  /\ Len(result.entry) = Cardinality(numbers)
             /\ \A j \in numbers :
                  result.entry[Cardinality(numbers \cap (1 .. j))] =
                    [name |-> DosName(entries[j]), isDir |-> entries[j].kind = "dir"]
  <2>1. result.entry = Listed(entries)
    BY <1>4, <1>5, <1>6 DEF Found
  <2>2. found.entry.cluster \in DOMAIN files
    BY <1>3, <1>5, <1>6 DEF IsTree, AllEntries
  <2>3. IsDirectory(entries)
    BY <2>2 DEF IsTree
  <2> HIDE DEF entries
  <2>4. numbers = {j \in DOMAIN entries : entries[j].kind # "label"}
    OBVIOUS
  <2> HIDE DEF numbers
  <2>5. /\ Len(Listed(entries)) = Cardinality(numbers)
        /\ \A j \in numbers :
             Listed(entries)[Cardinality(numbers \cap (1 .. j))] =
               [name |-> DosName(entries[j]), isDir |-> entries[j].kind = "dir"]
    BY <2>3, <2>4, ListedIsWhole
  <2> HIDE DEF result
  <2> QED
    BY <2>1, <2>5
<1>7. numbers \in SUBSET numbers /\ \A j \in numbers \ numbers : IsDeleted(entries[j].name)
  OBVIOUS
<1> QED
  BY <1>5, <1>6, <1>7, Zenon DEF ListingIsRight, found, result

(* What the disks and paths that are looked up are.                         *)
LEMMA DisksAreTrees ==
  ASSUME NEW files \in TREES
  PROVE  IsTree(files)
<1>1. /\ ROOT \in DOMAIN files
      /\ \A c \in DOMAIN files :
           /\ files[c] \in Seq(ToSet(files[c]))
           /\ \A e \in ToSet(files[c]) :
                /\ IsPadded(e.name) /\ e.name # <<>> /\ Head(e.name) # BLANK
                /\ IsPadded(e.extension) /\ e.extension # <<>>
                /\ e.kind = "dir" => e.cluster \in DOMAIN files
  BY TreeAssumption, Zenon
<1> QED
  BY <1>1, Zenon DEF IsTree, IsDirectory, IsEntry

(* And the names of a path.                                                 *)
LEMMA PathsAreNames ==
  ASSUME NEW names \in Paths
  PROVE  names \in Seq(Name) /\ Len(names) > 0 /\ names[1] # <<>>
<1>1. PICK n \in 1 .. MAX_DEPTH : names \in [1 .. n -> NAMES]
  BY DEF Paths
<1>2. n \in Nat /\ n > 0
  BY PathAssumption
<1>3. NAMES \subseteq Name
  BY PathAssumption DEF Name
<1>4. names \in Seq(Name) /\ Len(names) = n
  <2>1. names \in [1 .. n -> Name]
    BY <1>1, <1>3
  <2> QED
    BY <1>2, <2>1
<1>5. Head(names) # <<>>
  BY DEF Paths
<1>6. Head(names) = names[1]
  BY <1>2, <1>4
<1> QED
  BY <1>2, <1>4, <1>5, <1>6

(* A file of any path is looked up right, and a directory listed right.     *)
LEMMA LookupCalls ==
  ASSUME CallLookup \/ CallDirOpen
  PROVE  NamesAreRight'
<1>1. CASE CallLookup
  <2>1. PICK files \in TREES, names \in Paths :
               \E path \in {PathOf(names), <<SLASH>> \o PathOf(names)} :
                 call' = [fn |-> "file_read", files |-> files, names |-> names,
                          result |-> file_lookup(files, path)]
    BY <1>1, Zenon DEF CallLookup, Call
  <2>2. PICK path \in {PathOf(names), <<SLASH>> \o PathOf(names)} :
               call' = [fn |-> "file_read", files |-> files, names |-> names,
                        result |-> file_lookup(files, path)]
    BY <2>1
  <2>3. IsTree(files) /\ names \in Seq(Name) /\ Len(names) > 0 /\ names[1] # <<>>
    BY DisksAreTrees, PathsAreNames
  <2>4. file_lookup(files, path) = Search(files)[<<PathsFrom(Upper(names))[1], ROOT>>]
    BY <2>3, LookupsSearch
  <2> DEFINE result == file_lookup(files, path)
  <2>5. LookupIsRight(files, names, result)
    <3> HIDE DEF result
    <3>1. result = Search(files)[<<PathsFrom(Upper(names))[1], ROOT>>]
      BY <2>4 DEF result
    <3> QED
      BY <2>3, <3>1, SearchIsRight
  <2>6. call' = [fn |-> "file_read", files |-> files, names |-> names, result |-> result]
    BY <2>2
  <2> HIDE DEF result
  <2> QED
    BY <2>5, <2>6 DEF NamesAreRight
<1>2. CASE CallDirOpen
  <2>1. PICK files \in TREES, names \in Paths :
               call' = [fn |-> "dir_open", files |-> files, names |-> names,
                        result |-> dir_open(files, PathOf(names))]
    BY <1>2, Zenon DEF CallDirOpen, Call
  <2> DEFINE result == dir_open(files, PathOf(names))
  <2>2. ListingIsRight(files, names, result)
    BY DisksAreTrees, PathsAreNames, ListingAlwaysRight
  <2> HIDE DEF result
  <2> QED
    BY <2>1, <2>2 DEF NamesAreRight, result
<1> QED
  BY <1>1, <1>2

(* A path leads to the entry it names, in whatever case it is written and   *)
(* with or without a slash before it, and nowhere else; a directory is      *)
(* listed in order, under the names its files are found by: for every tree  *)
(* of directories, and paths of any number of names.  Deleted entries are   *)
(* left open: a path that names one is not spoken of, and a listing may have *)
(* them or not.                                                             *)
THEOREM NamesAreAlwaysRight == LibrarySpec => []NamesAreRight
<1>1. LibraryInit => NamesAreRight
  BY DEF LibraryInit, NoCall, NamesAreRight
<1>2. NamesAreRight /\ [LibraryNext]_libraryVars => NamesAreRight'
  <2> SUFFICES ASSUME NamesAreRight, [LibraryNext]_libraryVars
               PROVE  NamesAreRight'
    OBVIOUS
  <2>1. CASE UNCHANGED libraryVars
    BY <2>1 DEF libraryVars, NamesAreRight
  <2>2. CASE CallEnds
    BY <2>2 DEF CallEnds, NoCall, NamesAreRight
  <2>3. CASE Format
    BY <2>3 DEF Format, NamesAreRight
  <2>4. CASE CallStrcmp \/ CallMemcpy \/ CallItoa
    BY <2>4 DEF CallStrcmp, CallMemcpy, CallItoa, Call, NamesAreRight
  <2>5. CASE CallDrawBitmap \/ CallDrawRect \/ CallPuts
    BY <2>5 DEF CallDrawBitmap, CallDrawRect, CallPuts, Call, NamesAreRight
  <2>6. CASE CallPciRead \/ CallService \/ CallUpdate
    <3>1. call'.fn \in {"pci_read", "dispatch", "kb_update"}
      <4>1. CASE CallPciRead
        <5>1. \E space, dev, name :
                call' = [fn |-> "pci_read", space |-> space, dev |-> dev, name |-> name,
                         result |-> pci_read(space, dev, offsets[name])]
          BY <4>1, Zenon DEF CallPciRead, Call
        <5> QED
          BY <5>1
      <4>2. CASE CallService
        BY <4>2 DEF CallService, Call
      <4>3. CASE CallUpdate
        BY <4>3 DEF CallUpdate, Call
      <4> QED
        BY <2>6, <4>1, <4>2, <4>3
    <3> QED
      BY <3>1 DEF NamesAreRight
  <2> QED
    BY <2>1, <2>2, <2>3, <2>4, <2>5, <2>6, LookupCalls DEF LibraryNext
<1> QED
  BY <1>1, <1>2, PTL DEF LibrarySpec

(***************************************************************************)
(* The kernel's malloc and free, for any number of slots, any heap and any *)
(* bound on the requests (KernelAllocator).  The invariant is the          *)
(* installer's without what it says of merging, which the kernel does not  *)
(* complete.                                                               *)
(***************************************************************************)

(* The inductive invariant of the allocator.                                *)
Inv == TypeOK /\ Sound(allocated, freed) /\ EveryByteAccounted

(* alloc_init establishes the invariant.                                    *)
LEMMA InitInv == Init => Inv
<1> SUFFICES ASSUME Init PROVE Inv
  OBVIOUS
<1> USE ChunkQtyAssumption, HeapAssumption DEF Init, InitAllocated, InitFreed
<1>1. 0 \in Slot
  BY DEF Slot
<1> DEFINE whole == [start |-> HEAP_START, size |-> HEAP_SIZE]
<1>2. whole \in Chunk /\ whole.size > 0 /\ Bytes(whole) = Heap
  BY DEF Chunk, Bytes, Heap, HEAP_END
<1>3. /\ \A i \in Slot : allocated[i] = NoChunk
      /\ \A i \in Slot : i # 0 => freed[i] = NoChunk
      /\ freed[0] = whole
  BY <1>1
<1>4. allocated \in List /\ freed \in List
  BY <1>2, NoChunkFacts DEF List
<1>5. TypeOK
  BY <1>4 DEF TypeOK
<1>6. Sound(allocated, freed)
  <2>1. WellFormed(allocated) /\ WellFormed(freed)
    BY <1>2, <1>3 DEF WellFormed
  <2>2. Disjoint(allocated) /\ Disjoint(freed) /\ Apart(allocated, freed)
    BY <1>3, NoChunkFacts DEF Disjoint, Apart
  <2> QED BY <1>4, <2>1, <2>2 DEF Sound
<1>7. EveryByteAccounted
  <2>1. BytesOf(freed) = Heap
    BY <1>1, <1>2, <1>3, NoChunkFacts DEF BytesOf
  <2>2. BytesOf(allocated) = {}
    BY <1>3, NoChunkFacts DEF BytesOf
  <2> QED BY <2>1, <2>2 DEF EveryByteAccounted
<1> QED BY <1>5, <1>6, <1>7 DEF Inv

(* The bytes malloc cuts off, in terms of the invariant.                    *)
LEMMA CutFreedSound ==
  ASSUME Inv, NEW size \in 0 .. MAX_REQUEST, NEW i \in Slot, CutFreed(i, size),
         NEW piece, piece = [start |-> freed[i].start, size |-> size]
  PROVE  /\ Sound(allocated, freed')
         /\ Outside(piece, allocated) /\ Outside(piece, freed')
         /\ BytesOf(freed) = BytesOf(freed') \cup Bytes(piece)
<1>1. size \in Nat /\ size > 0 /\ i \in SlotsFitting(freed, size)
  BY RequestAssumption DEF CutFreed, IsFirst
<1>2. freed' = Put(freed, i, CutFrom(freed[i], size))
  BY DEF CutFreed, Put
<1> QED BY <1>1, <1>2, CutSound DEF Inv

(* What malloc hands out is recorded in an empty slot of allocated, or lost *)
(* if there is none.                                                        *)
LEMMA MallocOkInv ==
  ASSUME Inv, NEW size \in 0 .. MAX_REQUEST, MallocOk(size)
  PROVE  Inv'
<1>1. PICK i \in Slot, k \in Slot :
        /\ CutFreed(i, size)
        /\ IsFirst(k, EmptySlots(allocated))
        /\ allocated' = [allocated EXCEPT ![k] = [start |-> freed[i].start, size |-> size]]
  BY DEF MallocOk
<1>2. lost' = lost
  BY DEF MallocOk
<1> DEFINE piece == [start |-> freed[i].start, size |-> size]
<1>3. /\ Sound(allocated, freed')
      /\ Outside(piece, allocated) /\ Outside(piece, freed')
      /\ BytesOf(freed) = BytesOf(freed') \cup Bytes(piece)
  BY <1>1, CutFreedSound
<1>4. allocated[k] = NoChunk /\ allocated' = Put(allocated, k, piece)
  BY <1>1 DEF IsFirst, EmptySlots, Inv, TypeOK, List, Chunk, NoChunk, Put
<1> HIDE DEF piece
<1>5. Sound(allocated', freed') /\ BytesOf(allocated') = BytesOf(allocated) \cup Bytes(piece)
  BY <1>3, <1>4, InsertSound
<1> QED BY <1>2, <1>3, <1>5 DEF Inv, TypeOK, Sound, EveryByteAccounted

(* A chunk that finds no slot is lost, and nothing else is.                 *)
LEMMA MallocNoSlotInv ==
  ASSUME Inv, NEW size \in 0 .. MAX_REQUEST, MallocNoSlot(size)
  PROVE  Inv'
<1>1. PICK i \in Slot :
        /\ CutFreed(i, size)
        /\ lost' = lost \cup Bytes([start |-> freed[i].start, size |-> size])
  BY DEF MallocNoSlot
<1>2. allocated' = allocated
  BY DEF MallocNoSlot
<1> DEFINE piece == [start |-> freed[i].start, size |-> size]
<1>3. /\ Sound(allocated, freed')
      /\ Outside(piece, allocated)
      /\ BytesOf(freed) = BytesOf(freed') \cup Bytes(piece)
  BY <1>1, CutFreedSound
<1>4. lost' = lost \cup Bytes(piece)
  BY <1>1
<1> HIDE DEF piece
<1> QED BY <1>2, <1>3, <1>4 DEF Inv, TypeOK, Sound, Outside, EveryByteAccounted

(* The chunk free takes back, in terms of the invariant.                    *)
LEMMA TakeAllocatedSound ==
  ASSUME Inv, NEW ptr, NEW i \in Slot, TakeAllocated(i, ptr)
  PROVE  /\ allocated[i] # NoChunk /\ allocated' = Put(allocated, i, NoChunk)
         /\ Sound(allocated', freed)
         /\ Outside(allocated[i], allocated') /\ Outside(allocated[i], freed)
         /\ BytesOf(allocated) = BytesOf(allocated') \cup Bytes(allocated[i])
<1>1. allocated[i] # NoChunk
  BY DEF TakeAllocated, IsFirst, SlotsAt, NoChunk, NULL
<1>2. allocated' = Put(allocated, i, NoChunk)
  BY DEF TakeAllocated, Put
<1> QED BY <1>1, <1>2, TakeSound DEF Inv

(* The three ends of a free: the chunk is joined with one neighbour, gets a *)
(* slot of its own, or is lost.                                             *)
LEMMA FreeMergeInv ==
  ASSUME Inv, NEW ptr, FreeMerge(ptr)
  PROVE  Inv'
<1>1. PICK i \in Slot, k \in Slot :
        /\ TakeAllocated(i, ptr)
        /\ IsFirst(k, SlotsAdjacent(freed, allocated[i]))
        /\ freed' = [freed EXCEPT ![k] = Join(@, allocated[i])]
  BY DEF FreeMerge
<1>2. lost' = lost
  BY DEF FreeMerge
<1> DEFINE c == allocated[i]
<1>3. /\ Sound(allocated', freed)
      /\ Outside(c, allocated') /\ Outside(c, freed)
      /\ BytesOf(allocated) = BytesOf(allocated') \cup Bytes(c)
  BY <1>1, TakeAllocatedSound
<1>4. k \in SlotsAdjacent(freed, c) /\ freed' = Put(freed, k, Join(freed[k], c))
  BY <1>1 DEF IsFirst, Put, Inv, TypeOK, List
<1> HIDE DEF c
<1>5. Sound(allocated', freed') /\ BytesOf(freed') = BytesOf(freed) \cup Bytes(c)
  BY <1>3, <1>4, JoinSound
<1> QED BY <1>2, <1>3, <1>5 DEF Inv, TypeOK, Sound, EveryByteAccounted

(* A chunk that is returned comes to lie in the free list.                  *)
LEMMA FreeInsertInv ==
  ASSUME Inv, NEW ptr, FreeInsert(ptr)
  PROVE  Inv'
<1>1. PICK i \in Slot, k \in Slot :
        /\ TakeAllocated(i, ptr)
        /\ IsFirst(k, EmptySlots(freed))
        /\ freed' = [freed EXCEPT ![k] = allocated[i]]
  BY DEF FreeInsert
<1>2. lost' = lost
  BY DEF FreeInsert
<1> DEFINE c == allocated[i]
<1>3. /\ Sound(freed, allocated')
      /\ Outside(c, allocated') /\ Outside(c, freed)
      /\ BytesOf(allocated) = BytesOf(allocated') \cup Bytes(c)
  BY <1>1, TakeAllocatedSound, SoundSymmetric
<1>4. freed[k] = NoChunk /\ freed' = Put(freed, k, c)
  BY <1>1 DEF IsFirst, EmptySlots, Inv, TypeOK, List, Chunk, NoChunk, Put
<1> HIDE DEF c
<1>5. Sound(freed', allocated') /\ BytesOf(freed') = BytesOf(freed) \cup Bytes(c)
  BY <1>3, <1>4, InsertSound
<1>6. Sound(allocated', freed')
  BY <1>5, SoundSymmetric
<1> QED BY <1>2, <1>3, <1>5, <1>6 DEF Inv, TypeOK, Sound, EveryByteAccounted

(* Or is lost.                                                              *)
LEMMA FreeNoSlotInv ==
  ASSUME Inv, NEW ptr, FreeNoSlot(ptr)
  PROVE  Inv'
<1>1. PICK i \in Slot :
        TakeAllocated(i, ptr) /\ lost' = lost \cup Bytes(allocated[i])
  BY DEF FreeNoSlot
<1>2. freed' = freed
  BY DEF FreeNoSlot
<1>3. /\ Sound(allocated', freed)
      /\ Outside(allocated[i], freed)
      /\ BytesOf(allocated) = BytesOf(allocated') \cup Bytes(allocated[i])
  BY <1>1, TakeAllocatedSound
<1> QED BY <1>1, <1>2, <1>3 DEF Inv, TypeOK, Sound, Outside, EveryByteAccounted

(* Every step preserves the invariant.                                      *)
LEMMA NextInv == Inv /\ [Next]_vars => Inv'
<1> SUFFICES ASSUME Inv, [Next]_vars PROVE Inv'
  OBVIOUS
<1>1. ASSUME NEW size \in 0 .. MAX_REQUEST, MallocOk(size) PROVE Inv'
  BY <1>1, MallocOkInv
<1>2. ASSUME NEW size \in 0 .. MAX_REQUEST, MallocNoSlot(size) PROVE Inv'
  BY <1>2, MallocNoSlotInv
<1>3. ASSUME NEW ptr, FreeMerge(ptr) PROVE Inv'
  BY <1>3, FreeMergeInv
<1>4. ASSUME NEW ptr, FreeInsert(ptr) PROVE Inv'
  BY <1>4, FreeInsertInv
<1>5. ASSUME NEW ptr, FreeNoSlot(ptr) PROVE Inv'
  BY <1>5, FreeNoSlotInv
<1>6. ASSUME UNCHANGED vars PROVE Inv'
  BY <1>6 DEF vars, Inv, TypeOK, EveryByteAccounted
<1> QED BY <1>1, <1>2, <1>3, <1>4, <1>5, <1>6 DEF Next, Malloc, Free, MallocFails, FreeIgnored

(* The inductive invariant holds in every reachable state.                  *)
THEOREM Invariance == Spec => []Inv
BY InitInv, NextInv, PTL DEF Spec

(* The lists always hold chunks, and what is lost is part of the heap.      *)
THEOREM TypeCorrect == Spec => []TypeOK
<1>1. Inv => TypeOK
  BY DEF Inv
<1> QED BY <1>1, Invariance, PTL

(* malloc never hands out a byte that is in use or outside the heap: each   *)
(* byte of the heap is in one chunk of the two lists, or in `lost`.  Bytes do *)
(* get lost: a free or a malloc that finds no empty slot for its chunk drops *)
(* it (allocator.c:122, 143), and nothing here rules that out.              *)
THEOREM ChunksPartitionHeap == Spec => []HeapIsPartitioned
<1>1. Inv => HeapIsPartitioned
  BY DEF Inv, Sound, HeapIsPartitioned, SlotsWellFormed, NoOverlap
<1> QED BY <1>1, Invariance, PTL

(* The kernel's lists too do what HeapSpec promises, merged or not.         *)
THEOREM ImplementsAbstractHeap == Spec => ImplementsHeap
<1>1. Init => AbstractHeap!Init
  BY DEF Init, InitAllocated, LiveBlocks, ChunksOf, AbstractHeap!Init
<1>2. Inv /\ [Next]_vars => [AbstractHeap!Next]_LiveBlocks
  <2> SUFFICES ASSUME Inv, [Next]_vars PROVE [AbstractHeap!Next]_LiveBlocks
    OBVIOUS
  <2>1. ASSUME NEW size \in 0 .. MAX_REQUEST, MallocOk(size) PROVE AbstractHeap!Malloc
    <3>1. PICK i \in Slot, k \in Slot :
            /\ CutFreed(i, size)
            /\ IsFirst(k, EmptySlots(allocated))
            /\ allocated' = [allocated EXCEPT ![k] = [start |-> freed[i].start, size |-> size]]
      BY <2>1 DEF MallocOk
    <3> DEFINE piece == [start |-> freed[i].start, size |-> size]
    <3>2. Outside(piece, allocated)
      BY <2>1, <3>1, CutFreedSound
    <3>3. allocated[k] = NoChunk /\ allocated' = Put(allocated, k, piece)
      BY <3>1 DEF IsFirst, EmptySlots, Inv, TypeOK, List, Chunk, NoChunk, Put
    <3>4. piece.size = size /\ piece.start = freed[i].start /\ size \in Nat
      BY RequestAssumption
    <3> HIDE DEF piece
    <3>5. LiveBlocks' = LiveBlocks \cup {piece}
      BY <3>2, <3>3, InsertAddsChunk DEF LiveBlocks, Inv, TypeOK
    <3> DEFINE end == piece.start + size - 1
    <3>6. /\ piece.start \in Heap /\ end \in Heap /\ piece.start <= end
          /\ Bytes(piece) = piece.start .. end
          /\ piece = [start |-> piece.start, size |-> end - piece.start + 1]
      BY <3>2, <3>4 DEF Outside, Bytes, Chunk
    <3>7. \A b \in LiveBlocks : AbstractHeap!Span(b) \cap (piece.start .. end) = {}
      BY <3>2, <3>6 DEF LiveBlocks, ChunksOf, Outside, AbstractHeap!Span, Bytes
    <3> QED BY <3>5, <3>6, <3>7 DEF AbstractHeap!Malloc
  <2>2. ASSUME NEW ptr, NEW i \in Slot, TakeAllocated(i, ptr) PROVE AbstractHeap!Free
    <3>1. allocated[i] # NoChunk /\ allocated' = Put(allocated, i, NoChunk)
      BY <2>2, TakeAllocatedSound
    <3>2. allocated[i] \in LiveBlocks /\ LiveBlocks' = LiveBlocks \ {allocated[i]}
      BY <3>1, TakeRemovesChunk DEF LiveBlocks, Inv
    <3> QED BY <3>2 DEF AbstractHeap!Free
  <2>3. ASSUME UNCHANGED allocated PROVE UNCHANGED LiveBlocks
    BY <2>3 DEF LiveBlocks, ChunksOf
  <2>4. CASE Malloc \/ UNCHANGED vars
    BY <2>1, <2>3, <2>4 DEF Malloc, MallocFails, MallocNoSlot, vars, AbstractHeap!Next
  <2>5. CASE Free
    BY <2>2, <2>3, <2>5
       DEF Free, FreeIgnored, FreeMerge, FreeInsert, FreeNoSlot, vars, AbstractHeap!Next
  <2> QED BY <2>4, <2>5 DEF Next
<1> QED BY <1>1, <1>2, Invariance, PTL DEF Spec, ImplementsHeap, AbstractHeap!Spec
=============================================================================
