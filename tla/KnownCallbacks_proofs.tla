-------------------------- MODULE KnownCallbacks_proofs --------------------------
(***************************************************************************)
(* Proofs about KnownCallbacks, for every program and all options.         *)
(*                                                                         *)
(* What the program is in each phase is a function of the one that was     *)
(* written (BodyInv); what may have been found is bounded by what flows    *)
(* into the callbacks (SearchInv); and each callback that was passed is    *)
(* marked or a call of collect that is still to be made leads to it        *)
(* (MarkInv).  The recursive functions over one sequence are opened by     *)
(* induction over a set of numbers (Throughout).                           *)
(***************************************************************************)
EXTENDS CallbackProperties, TLAPS, NaturalsInduction, WellFoundedInduction, SequenceTheorems,
        FiniteSetTheorems

(* Induction over the natural numbers, for a set.                          *)
LEMMA Numbers ==
  ASSUME NEW T, 0 \in T, \A n \in Nat : n \in T => n + 1 \in T
  PROVE  \A n \in Nat : n \in T
<1> SUFFICES ASSUME Nat \ T # {} PROVE FALSE
  OBVIOUS
<1>1. \E x \in Nat \ T : \A y \in Nat \ T : ~(<<y, x>> \in OpToRel(<, Nat))
  BY NatLessThanWellFounded, WFMin
<1>2. PICK x \in Nat \ T : \A y \in Nat \ T : ~(<<y, x>> \in OpToRel(<, Nat))
  BY <1>1
<1>3. \A y \in Nat \ T : ~(y < x)
  BY <1>2 DEF OpToRel
<1>4. x # 0
  OBVIOUS
<1>5. x - 1 \in Nat /\ x - 1 < x /\ (x - 1) + 1 = x
  BY <1>4
<1>6. QED
  BY <1>3, <1>5

(* f is the function on 0..N that begins with x and takes these steps.     *)
Recursive(f, X, N, x, step) ==
  f \in [0..N -> X] /\ \A n \in 0..N : f[n] = IF n = 0 THEN x ELSE step[n][f[n - 1]]

(* There is one.                                                           *)
LEMMA Recursion ==
  ASSUME NEW X, NEW N \in Nat, NEW x \in X, NEW step \in [1..N -> [X -> X]]
  PROVE  \E f : Recursive(f, X, N, x, step)
<1> DEFINE Upto(k, f) == \A n \in 0..k : f[n] = IF n = 0 THEN x ELSE step[n][f[n - 1]]
           T == {k \in Nat : k <= N => \E f \in [0..k -> X] : Upto(k, f)}
<1>1. 0 \in T
  <2> DEFINE f == [n \in 0..0 |-> x]
  <2>1. f \in [0..0 -> X] /\ f[0] = x
    OBVIOUS
  <2>2. \A n \in 0..0 : n = 0
    OBVIOUS
  <2> HIDE DEF f
  <2>3. Upto(0, f)
    BY <2>1, <2>2
  <2>4. QED
    BY <2>1, <2>3
<1>2. ASSUME NEW k \in Nat, k \in T PROVE k + 1 \in T
  <2> SUFFICES ASSUME k + 1 <= N PROVE \E f \in [0..(k + 1) -> X] : Upto(k + 1, f)
    OBVIOUS
  <2>1. k <= N /\ k + 1 \in 1..N
    OBVIOUS
  <2>2. PICK g \in [0..k -> X] : Upto(k, g)
    BY <1>2, <2>1
  <2> HIDE DEF Upto
  <2> DEFINE f == [n \in 0..(k + 1) |-> IF n <= k THEN g[n] ELSE step[k + 1][g[k]]]
  <2>3. g[k] \in X /\ step[k + 1][g[k]] \in X
    BY <2>1
  <2>4. \A n \in 0..(k + 1) : n <= k => n \in 0..k
    OBVIOUS
  <2>5. f \in [0..(k + 1) -> X]
    BY <2>3, <2>4
  <2>6. /\ \A n \in 0..k : f[n] = g[n]
        /\ f[k + 1] = step[k + 1][g[k]]
    OBVIOUS
  <2> HIDE DEF f
  <2>7. ASSUME NEW n \in 0..(k + 1) PROVE f[n] = IF n = 0 THEN x ELSE step[n][f[n - 1]]
    <3>1. CASE n = k + 1
      <4>1. n - 1 = k /\ n # 0 /\ k \in 0..k
        BY <3>1
      <4>2. f[n - 1] = g[k]
        BY <2>6, <4>1
      <4>3. QED
        BY <2>6, <3>1, <4>1, <4>2
    <3>2. CASE n # k + 1
      <4>1. n \in 0..k /\ (n # 0 => n - 1 \in 0..k)
        BY <3>2
      <4>2. g[n] = IF n = 0 THEN x ELSE step[n][g[n - 1]]
        BY <2>2, <4>1 DEF Upto
      <4>3. f[n] = g[n] /\ (n # 0 => f[n - 1] = g[n - 1])
        BY <2>6, <4>1
      <4>4. QED
        BY <4>2, <4>3
    <3>3. QED
      BY <3>1, <3>2
  <2>8. QED
    BY <2>5, <2>7 DEF Upto
<1>3. N \in T
  <2> HIDE DEF T
  <2>1. QED
    BY <1>1, <1>2, Numbers
<1>4. PICK f \in [0..N -> X] : Upto(N, f)
  BY <1>3
<1>5. QED
  BY <1>4 DEF Recursive

(* What holds at the start of a recursion and at every step, holds         *)
(* throughout.                                                             *)
LEMMA Throughout ==
  ASSUME NEW N \in Nat, NEW T, 0 \in T, \A n \in 1..N : n - 1 \in T => n \in T
  PROVE  \A n \in 0..N : n \in T
<1> DEFINE U == {k \in Nat : k <= N => k \in T}
<1>1. 0 \in U
  OBVIOUS
<1>2. ASSUME NEW k \in Nat, k \in U PROVE k + 1 \in U
  <2> SUFFICES ASSUME k + 1 <= N PROVE k + 1 \in T
    OBVIOUS
  <2>1. k + 1 \in 1..N /\ (k + 1) - 1 = k /\ k <= N
    OBVIOUS
  <2>2. k \in T
    BY <1>2, <2>1
  <2>3. QED
    BY <2>1, <2>2
<1>3. \A k \in Nat : k \in U
  <2> HIDE DEF U
  <2>1. QED
    BY <1>1, <1>2, Numbers
<1>4. QED
  BY <1>3

-----------------------------------------------------------------------------
(* r consists of the elements of s at these places, in their order; g says *)
(* where each one comes from.                                              *)
Picks(r, s, places, g) ==
  /\ g \in [1..Len(r) -> places]
  /\ \A i \in 1..Len(r) : r[i] = s[g[i]]
  /\ \A i, j \in 1..Len(r) : i < j => g[i] < g[j]
  /\ \A m \in places : \E i \in 1..Len(r) : g[i] = m

(* Adding the element at the next place, and passing it over.              *)
LEMMA PicksAppend ==
  ASSUME NEW S, NEW s \in Seq(S), NEW r \in Seq(S), NEW n \in 1..Len(s),
         NEW A \in SUBSET (1..(n - 1)), NEW g, Picks(r, s, A, g)
  PROVE  \E h : Picks(Append(r, s[n]), s, A \cup {n}, h)
<1> DEFINE q == Append(r, s[n])
           L == Len(r)
           h == [i \in 1..(L + 1) |-> IF i = L + 1 THEN n ELSE g[i]]
<1>1. q \in Seq(S) /\ Len(q) = L + 1 /\ q[L + 1] = s[n] /\ \A i \in 1..L : q[i] = r[i]
  BY AppendProperties
<1>2. L \in Nat
  OBVIOUS
<1>3. \A i \in 1..(L + 1) : i # L + 1 => i \in 1..L
  BY <1>2
<1>4. L + 1 \in 1..(L + 1) /\ \A i \in 1..L : i \in 1..(L + 1) /\ i # L + 1
  BY <1>2
<1> HIDE DEF L, q
<1>5. /\ g \in [1..L -> A]
      /\ \A i \in 1..L : r[i] = s[g[i]]
      /\ \A i, j \in 1..L : i < j => g[i] < g[j]
      /\ \A m \in A : \E i \in 1..L : g[i] = m
  BY DEF Picks, L
<1>6. h \in [1..(L + 1) -> A \cup {n}]
  BY <1>3, <1>5
<1>7. h[L + 1] = n /\ \A i \in 1..L : h[i] = g[i]
  BY <1>4
<1> HIDE DEF h
<1>8. \A i \in 1..(L + 1) : q[i] = s[h[i]]
  BY <1>1, <1>3, <1>5, <1>7
<1>9. ASSUME NEW i \in 1..(L + 1), NEW j \in 1..(L + 1), i < j PROVE h[i] < h[j]
  <2>1. i \in 1..L
    BY <1>2, <1>9
  <2>2. h[i] = g[i] /\ g[i] \in A
    BY <1>5, <1>7, <2>1
  <2>3. g[i] < n
    <3>1. Len(s) \in Nat /\ n \in 1..Len(s)
      OBVIOUS
    <3>2. n \in Nat
      BY <3>1
    <3>3. g[i] \in 1..(n - 1)
      BY <2>2
    <3>4. QED
      BY <3>2, <3>3
  <2>4. QED
    BY <1>3, <1>5, <1>7, <1>9, <2>1, <2>2, <2>3
<1>10. \A m \in A \cup {n} : \E i \in 1..(L + 1) : h[i] = m
  BY <1>4, <1>5, <1>7
<1>11. Picks(q, s, A \cup {n}, h)
  BY <1>1, <1>6, <1>8, <1>9, <1>10 DEF Picks
<1>12. QED
  BY <1>11 DEF q

(* Only is what its name says.                                             *)
LEMMA OnlyPicks ==
  ASSUME NEW S, NEW s \in Seq(S), NEW places
  PROVE  /\ Only(s, places) \in Seq(S)
         /\ \E g : Picks(Only(s, places), s, places \cap (1..Len(s)), g)
<1> DEFINE N == Len(s)
           F == CHOOSE f : f = [n \in 0..N |->
                                 IF n = 0 THEN << >>
                                 ELSE IF n \in places THEN Append(f[n - 1], s[n]) ELSE f[n - 1]]
           step == [n \in 1..N |-> [t \in Seq(S) |-> IF n \in places THEN Append(t, s[n]) ELSE t]]
<1>1. N \in Nat /\ Only(s, places) = F[N] /\ \A n \in 1..N : s[n] \in S
  BY DEF Only
<1>2. \A n \in 1..N : \A t \in Seq(S) : Append(t, s[n]) \in Seq(S)
  BY AppendProperties
<1> HIDE DEF N
<1>3. step \in [1..N -> [Seq(S) -> Seq(S)]]
  BY <1>2
<1>4. \A n \in 1..N : \A t \in Seq(S) :
        step[n][t] = IF n \in places THEN Append(t, s[n]) ELSE t
  OBVIOUS
<1> HIDE DEF step
<1>5. PICK f \in [0..N -> Seq(S)] :
        \A n \in 0..N : f[n] = IF n = 0 THEN << >> ELSE step[n][f[n - 1]]
  <2> DEFINE X == Seq(S)
             x == << >>
  <2>1. N \in Nat /\ x \in X /\ step \in [1..N -> [X -> X]]
    BY <1>1, <1>3
  <2> HIDE DEF X, x
  <2>2. \E f : Recursive(f, X, N, x, step)
    BY <2>1, Recursion
  <2>3. QED
    BY <2>2 DEF X, x, Recursive
<1>6. \A n \in 0..N : n # 0 => n \in 1..N /\ n - 1 \in 0..N
  BY <1>1
<1>7. \A n \in 0..N : f[n] = IF n = 0 THEN << >>
                             ELSE IF n \in places THEN Append(f[n - 1], s[n]) ELSE f[n - 1]
  <2> SUFFICES ASSUME NEW n \in 0..N
               PROVE  f[n] = IF n = 0 THEN << >>
                             ELSE IF n \in places THEN Append(f[n - 1], s[n]) ELSE f[n - 1]
    OBVIOUS
  <2>1. f[n] = IF n = 0 THEN << >> ELSE step[n][f[n - 1]]
    BY <1>5
  <2>2. n # 0 => n \in 1..N /\ f[n - 1] \in Seq(S)
    BY <1>6
  <2>3. QED
    BY <1>4, <2>1, <2>2
<1>8. f = [n \in 0..N |-> IF n = 0 THEN << >>
                          ELSE IF n \in places THEN Append(f[n - 1], s[n]) ELSE f[n - 1]]
  <2>1. f = [n \in 0..N |-> f[n]]
    OBVIOUS
  <2>2. QED
    BY <1>7, <2>1
<1>9. F = [n \in 0..N |-> IF n = 0 THEN << >>
                          ELSE IF n \in places THEN Append(F[n - 1], s[n]) ELSE F[n - 1]]
  BY <1>8
<1> HIDE DEF F
<1>10. \A n \in 0..N : F[n] = IF n = 0 THEN << >>
                              ELSE IF n \in places THEN Append(F[n - 1], s[n]) ELSE F[n - 1]
  BY <1>9
<1> DEFINE T == {n \in 0..N : /\ F[n] \in Seq(S)
                              /\ \E g : Picks(F[n], s, places \cap (1..n), g)}
<1>11. 0 \in T
  <2>1. 0 \in 0..N /\ F[0] = << >>
    BY <1>1, <1>10
  <2>2. << >> \in Seq(S) /\ Len(<< >>) = 0 /\ 1..0 = {}
    OBVIOUS
  <2>3. Picks(<< >>, s, {}, [i \in {} |-> i])
    BY <2>2 DEF Picks
  <2>4. QED
    BY <2>1, <2>2, <2>3
<1>12. ASSUME NEW n \in 1..N, n - 1 \in T PROVE n \in T
  <2>1. n \in 0..N /\ n # 0 /\ n \in 1..Len(s)
    BY <1>1 DEF N
  <2>2. PICK g : Picks(F[n - 1], s, places \cap (1..(n - 1)), g)
    BY <1>12
  <2>3. F[n - 1] \in Seq(S)
    BY <1>12
  <2>4. CASE n \in places
    <3>1. F[n] = Append(F[n - 1], s[n])
      BY <1>10, <2>1, <2>4
    <3>2. (places \cap (1..(n - 1))) \cup {n} = places \cap (1..n)
      BY <2>1, <2>4
    <3> HIDE DEF T
    <3> DEFINE A == places \cap (1..(n - 1))
               r == F[n - 1]
    <3>3. A \in SUBSET (1..(n - 1)) /\ r \in Seq(S) /\ Picks(r, s, A, g)
      BY <2>2, <2>3
    <3> HIDE DEF A, r
    <3>4. \E h : Picks(Append(r, s[n]), s, A \cup {n}, h)
      BY <2>1, <3>3, PicksAppend
    <3>5. \E h : Picks(F[n], s, places \cap (1..n), h)
      BY <3>1, <3>2, <3>4 DEF A, r
    <3>6. QED
      BY <1>2, <2>1, <2>3, <3>1, <3>5 DEF T
  <2>5. CASE n \notin places
    <3>1. F[n] = F[n - 1]
      BY <1>10, <2>1, <2>5
    <3>2. places \cap (1..(n - 1)) = places \cap (1..n)
      BY <2>1, <2>5
    <3>3. QED
      BY <2>1, <2>2, <2>3, <3>1, <3>2
  <2>6. QED
    BY <2>4, <2>5
<1>13. N \in T
  <2> HIDE DEF T
  <2>1. \A n \in 0..N : n \in T
    BY <1>1, <1>11, <1>12, Throughout
  <2>2. QED
    BY <1>1, <2>1
<1>14. QED
  BY <1>1, <1>13 DEF N

(* r is the first n of the sequences ss, one after the other: its i-th     *)
(* element is the o[i]-th one of the b[i]-th sequence.                     *)
Joins(r, ss, n, b, o) ==
  /\ b \in [1..Len(r) -> 1..n] /\ o \in [1..Len(r) -> Nat]
  /\ \A i \in 1..Len(r) : o[i] \in 1..Len(ss[b[i]]) /\ r[i] = ss[b[i]][o[i]]
  /\ \A i, j \in 1..Len(r) : i < j => b[i] < b[j] \/ (b[i] = b[j] /\ o[i] < o[j])
  /\ \A m \in 1..n : \A k \in 1..Len(ss[m]) : \E i \in 1..Len(r) : b[i] = m /\ o[i] = k

(* One more sequence.                                                      *)
LEMMA JoinsConcat ==
  ASSUME NEW S, NEW ss \in Seq(Seq(S)), NEW n \in 1..Len(ss), NEW r \in Seq(S),
         NEW b, NEW o, Joins(r, ss, n - 1, b, o)
  PROVE  /\ r \o ss[n] \in Seq(S)
         /\ \E c, p : Joins(r \o ss[n], ss, n, c, p)
<1> DEFINE t == ss[n]
           q == r \o t
           L == Len(r)
           M == Len(t)
           c == [i \in 1..(L + M) |-> IF i <= L THEN b[i] ELSE n]
           p == [i \in 1..(L + M) |-> IF i <= L THEN o[i] ELSE i - L]
<1>1. t \in Seq(S) /\ n \in Nat /\ n # 0
  <2>1. Len(ss) \in Nat
    OBVIOUS
  <2>2. QED
    BY <2>1
<1>2. /\ q \in Seq(S) /\ Len(q) = L + M
      /\ \A i \in 1..(L + M) : q[i] = IF i <= L THEN r[i] ELSE t[i - L]
  BY <1>1, ConcatProperties
<1>3. L \in Nat /\ M \in Nat
  BY <1>1
<1>4. /\ b \in [1..L -> 1..(n - 1)] /\ o \in [1..L -> Nat]
      /\ \A i \in 1..L : o[i] \in 1..Len(ss[b[i]]) /\ r[i] = ss[b[i]][o[i]]
      /\ \A i, j \in 1..L : i < j => b[i] < b[j] \/ (b[i] = b[j] /\ o[i] < o[j])
      /\ \A m \in 1..(n - 1) : \A k \in 1..Len(ss[m]) : \E i \in 1..L : b[i] = m /\ o[i] = k
  BY DEF Joins
<1> HIDE DEF L, M, t, q
<1>5. \A i \in 1..(L + M) : IF i <= L THEN i \in 1..L ELSE i - L \in 1..M
  BY <1>3
<1>6. \A i \in 1..L : i \in 1..(L + M) /\ i <= L
  BY <1>3
<1>7. \A k \in 1..M : L + k \in 1..(L + M) /\ ~(L + k <= L) /\ (L + k) - L = k
  BY <1>3
<1>8. \A i \in 1..L : b[i] \in 1..(n - 1) /\ b[i] \in 1..n /\ b[i] < n /\ o[i] \in Nat
  <2>1. \A x \in 1..(n - 1) : x \in 1..n /\ x < n
    BY <1>1
  <2>2. QED
    BY <1>4, <2>1
<1>9. n \in 1..n
  BY <1>1
<1>10. \A i \in 1..M : i \in Nat
  BY <1>3
<1>11. c \in [1..(L + M) -> 1..n] /\ p \in [1..(L + M) -> Nat]
  BY <1>5, <1>8, <1>9, <1>10
<1>12. \A i \in 1..(L + M) : /\ i <= L => c[i] = b[i] /\ p[i] = o[i]
                             /\ ~(i <= L) => c[i] = n /\ p[i] = i - L
  OBVIOUS
<1> HIDE DEF c, p
<1>13. ASSUME NEW i \in 1..(L + M) PROVE p[i] \in 1..Len(ss[c[i]]) /\ q[i] = ss[c[i]][p[i]]
  <2>1. CASE i <= L
    BY <1>2, <1>4, <1>5, <1>12, <2>1
  <2>2. CASE ~(i <= L)
    <3>1. p[i] \in 1..M /\ c[i] = n /\ q[i] = t[p[i]]
      BY <1>2, <1>5, <1>12, <2>2
    <3>2. QED
      BY <3>1 DEF M, t
  <2>3. QED
    BY <2>1, <2>2
<1>14. ASSUME NEW i \in 1..(L + M), NEW j \in 1..(L + M), i < j
       PROVE  c[i] < c[j] \/ (c[i] = c[j] /\ p[i] < p[j])
  <2>1. CASE j <= L
    <3>1. i <= L
      BY <1>3, <1>14, <2>1
    <3>2. i \in 1..L /\ j \in 1..L
      BY <1>5, <2>1, <3>1
    <3>3. QED
      BY <1>4, <1>12, <1>14, <2>1, <3>1, <3>2
  <2>2. CASE i <= L /\ ~(j <= L)
    <3>1. c[i] = b[i] /\ c[j] = n /\ i \in 1..L
      BY <1>5, <1>12, <2>2
    <3>2. QED
      BY <1>8, <3>1
  <2>3. CASE ~(i <= L) /\ ~(j <= L)
    <3>1. c[i] = c[j] /\ p[i] = i - L /\ p[j] = j - L
      BY <1>12, <2>3
    <3>2. i - L < j - L
      BY <1>3, <1>14
    <3>3. QED
      BY <3>1, <3>2
  <2>4. QED
    BY <2>1, <2>2, <2>3
<1>15. ASSUME NEW m \in 1..n, NEW k \in 1..Len(ss[m])
       PROVE  \E i \in 1..(L + M) : c[i] = m /\ p[i] = k
  <2>1. CASE m = n
    <3>1. k \in 1..M
      BY <2>1 DEF M, t
    <3>2. c[L + k] = n /\ p[L + k] = k
      BY <1>7, <1>12, <3>1
    <3>3. QED
      BY <1>7, <2>1, <3>1, <3>2
  <2>2. CASE m # n
    <3>1. m \in 1..(n - 1)
      BY <1>1, <2>2
    <3>2. PICK i \in 1..L : b[i] = m /\ o[i] = k
      BY <1>4, <3>1
    <3>3. QED
      BY <1>6, <1>12, <3>2
  <2>3. QED
    BY <2>1, <2>2
<1>16. Joins(q, ss, n, c, p)
  BY <1>2, <1>11, <1>13, <1>14, <1>15 DEF Joins
<1>17. q \in Seq(S) /\ q = r \o ss[n]
  BY <1>2 DEF q, t
<1>18. QED
  BY <1>16, <1>17

(* FlattenSeq joins all of them.                                           *)
LEMMA FlattenJoins ==
  ASSUME NEW S, NEW ss \in Seq(Seq(S))
  PROVE  /\ FlattenSeq(ss) \in Seq(S)
         /\ \E b, o : Joins(FlattenSeq(ss), ss, Len(ss), b, o)
<1> DEFINE N == Len(ss)
           X == Seq(S)
           x == << >>
           F == CHOOSE f : f = [i \in 1..N |-> IF i = 1 THEN ss[i] ELSE f[i - 1] \o ss[i]]
           step == [n \in 1..N |-> [r \in Seq(S) |-> r \o ss[n]]]
<1>1. N \in Nat /\ (\A n \in 1..N : ss[n] \in Seq(S)) /\ x \in Seq(S)
  OBVIOUS
<1>2. FlattenSeq(ss) = IF N = 0 THEN ss ELSE F[N]
  BY DEF FlattenSeq
<1>3. N = 0 => ss = << >>
  OBVIOUS
<1> HIDE DEF N
<1>4. \A n \in 1..N : \A r \in Seq(S) : r \o ss[n] \in Seq(S)
  BY <1>1, ConcatProperties
<1>5. step \in [1..N -> [Seq(S) -> Seq(S)]]
  BY <1>4
<1>6. \A n \in 1..N : \A r \in Seq(S) : step[n][r] = r \o ss[n]
  OBVIOUS
<1> HIDE DEF step
<1>7. PICK h : Recursive(h, X, N, x, step)
  <2>1. x \in X /\ step \in [1..N -> [X -> X]]
    BY <1>1, <1>5
  <2> HIDE DEF X, x
  <2>2. QED
    BY <1>1, <2>1, Recursion
<1>8. /\ h \in [0..N -> Seq(S)] /\ h[0] = << >>
      /\ \A n \in 0..N : n # 0 => h[n] = step[n][h[n - 1]]
  <2>1. 0 \in 0..N
    BY <1>1
  <2>2. QED
    BY <1>7, <2>1 DEF Recursive
<1>9. \A n \in 1..N : n \in 0..N /\ n # 0 /\ n - 1 \in 0..N /\ (n # 1 => n - 1 \in 1..N)
  BY <1>1
<1>10. \A n \in 1..N : h[n] = h[n - 1] \o ss[n] /\ h[n - 1] \in Seq(S)
  BY <1>6, <1>8, <1>9
<1>11. \A n \in 1..N : n = 1 => h[n] = ss[n]
  <2> SUFFICES ASSUME NEW n \in 1..N, n = 1 PROVE h[n] = ss[n]
    OBVIOUS
  <2>1. n - 1 = 0
    OBVIOUS
  <2>2. h[n] = h[n - 1] \o ss[n] /\ ss[n] \in Seq(S)
    BY <1>1, <1>10
  <2>3. h[n] = << >> \o ss[n]
    BY <1>8, <2>1, <2>2
  <2>4. << >> \o ss[n] = ss[n]
    BY <2>2, ConcatEmptySeq
  <2>5. QED
    BY <2>3, <2>4
<1>12. \E f : f = [i \in 1..N |-> IF i = 1 THEN ss[i] ELSE f[i - 1] \o ss[i]]
  <2> DEFINE f == [i \in 1..N |-> h[i]]
  <2>1. \A i \in 1..N : f[i] = IF i = 1 THEN ss[i] ELSE f[i - 1] \o ss[i]
    <3> SUFFICES ASSUME NEW i \in 1..N
                 PROVE  f[i] = IF i = 1 THEN ss[i] ELSE f[i - 1] \o ss[i]
      OBVIOUS
    <3>1. f[i] = h[i] /\ (i # 1 => f[i - 1] = h[i - 1])
      BY <1>9
    <3> HIDE DEF f
    <3>2. QED
      BY <1>10, <1>11, <3>1
  <2>2. f = [i \in 1..N |-> f[i]]
    OBVIOUS
  <2> HIDE DEF f
  <2>3. f = [i \in 1..N |-> IF i = 1 THEN ss[i] ELSE f[i - 1] \o ss[i]]
    BY <2>1, <2>2
  <2>4. QED
    BY <2>3
<1>13. F = [i \in 1..N |-> IF i = 1 THEN ss[i] ELSE F[i - 1] \o ss[i]]
  BY <1>12
<1> HIDE DEF F
<1>14. \A i \in 1..N : F[i] = IF i = 1 THEN ss[i] ELSE F[i - 1] \o ss[i]
  BY <1>13
<1> DEFINE T == {n \in 0..N : \E r \in Seq(S) : /\ (n = 0 => r = << >>) /\ (n # 0 => r = F[n])
                                                /\ \E b, o : Joins(r, ss, n, b, o)}
<1>15. 0 \in T
  <2>1. 0 \in 0..N /\ << >> \in Seq(S) /\ Len(<< >>) = 0 /\ 1..0 = {}
    BY <1>1
  <2>2. Joins(<< >>, ss, 0, [i \in {} |-> i], [i \in {} |-> i])
    BY <2>1 DEF Joins
  <2>3. QED
    BY <2>1, <2>2
<1>16. ASSUME NEW n \in 1..N, n - 1 \in T PROVE n \in T
  <2>r. PICK r \in Seq(S) : /\ n - 1 = 0 => r = << >>
                            /\ n - 1 # 0 => r = F[n - 1]
                            /\ \E b, o : Joins(r, ss, n - 1, b, o)
    BY <1>16
  <2>b. PICK b : \E o : Joins(r, ss, n - 1, b, o)
    BY <2>r
  <2>1. PICK o : Joins(r, ss, n - 1, b, o)
    BY <2>b
  <2>2. n \in 1..Len(ss)
    BY DEF N
  <2>3. r \o ss[n] \in Seq(S) /\ \E c, p : Joins(r \o ss[n], ss, n, c, p)
    BY <2>1, <2>2, JoinsConcat
  <2>4. n \in 0..N /\ n # 0 /\ (n - 1 = 0 <=> n = 1)
    BY <1>1
  <2>5. r \o ss[n] = F[n]
    <3>1. CASE n = 1
      <4>1. r = << >> /\ F[n] = ss[n] /\ ss[n] \in Seq(S)
        BY <1>1, <1>14, <2>r, <3>1
      <4>2. << >> \o ss[n] = ss[n]
        BY <4>1, ConcatEmptySeq
      <4>3. QED
        BY <4>1, <4>2
    <3>2. CASE n # 1
      BY <1>14, <2>r, <2>4, <3>2
    <3>3. QED
      BY <3>1, <3>2
  <2>6. QED
    BY <2>3, <2>4, <2>5
<1>17. N \in T
  <2> HIDE DEF T
  <2>1. \A n \in 0..N : n \in T
    BY <1>1, <1>15, <1>16, Throughout
  <2>2. QED
    BY <1>1, <2>1
<1>18. PICK r \in Seq(S) : /\ N = 0 => r = << >>
                           /\ N # 0 => r = F[N]
                           /\ \E b, o : Joins(r, ss, N, b, o)
  BY <1>17
<1>19. r = FlattenSeq(ss)
  BY <1>2, <1>3, <1>18
<1>20. QED
  BY <1>18, <1>19 DEF N

(* What is known of an item of a program.                                  *)
LEMMA ItemFacts ==
  ASSUME NEW item \in Items
  PROVE  /\ item.id \in Nat \ {0} /\ item.is \in ItemKinds /\ item.name \in Names \cup {None}
         /\ item.value \in Values /\ item.export \in Exports /\ item.args \in Seq(Values)
         /\ item.is \in {"fnDecl", "var", "assign", "update", "hash"} => item.name \in Names
         /\ item.is \notin {"var", "assign", "exportDefault", "cjs"}  => item.value = Other
         /\ item.export # "no" => item.is \in {"fnDecl", "var", "class"}
         /\ item.is # "call" => item.args = << >>
BY DEF Items

(* What is known of a value.                                               *)
LEMMA ValueFacts ==
  ASSUME NEW v \in Values
  PROVE  /\ v.is \in ValueKinds /\ v.props \in Seq(Props)
         /\ v.is = "name" => v.name \in Names
         /\ v.is # "object" => v.props = << >>
BY DEF Values

(* The value that says nothing is one.                                     *)
LEMMA OtherValue == Other \in Values /\ Other.is = "other"
<1>1. << >> \in Seq(Props)
  OBVIOUS
<1>2. QED
  BY <1>1 DEF Other, Value, Values, ValueKinds

(* The prologue is a part of the file.                                     *)
LEMMA PrologueRange ==
  ASSUME NEW items \in Seq(Items)
  PROVE  Prologue(items) \in 0..Len(items)
<1> DEFINE N == Len(items)
           A == {n \in 0..N : n < N => ~IsStringStatement(items[n + 1])}
<1>1. N \in Nat /\ N \in A
  OBVIOUS
<1>2. A \subseteq Nat
  BY <1>1
<1>3. \E x \in A : \A y \in A : ~(<<y, x>> \in OpToRel(<, Nat))
  BY <1>1, <1>2, NatLessThanWellFounded, WFMin
<1>4. PICK x \in A : \A y \in A : ~(y < x)
  BY <1>2, <1>3 DEF OpToRel
<1>5. ASSUME NEW i \in 1..x PROVE IsStringStatement(items[i])
  <2>1. i - 1 \in 0..N /\ i - 1 < x /\ i - 1 < N /\ (i - 1) + 1 = i
    BY <1>1
  <2>2. i - 1 \notin A
    BY <1>4, <2>1
  <2>3. QED
    BY <2>1, <2>2
<1>6. x \in 0..N /\ (x < N => ~IsStringStatement(items[x + 1]))
  OBVIOUS
<1> HIDE DEF A
<1>7. \E n \in 0..Len(items) : /\ \A i \in 1..n : IsStringStatement(items[i])
                               /\ n < Len(items) => ~IsStringStatement(items[n + 1])
  BY <1>5, <1>6
<1>8. QED
  BY <1>7 DEF Prologue

(* Without a directive the whole file is kept.                             *)
LEMMA AllKept ==
  ASSUME NEW items \in Seq(Items), ~HasFileDirective(items)
  PROVE  Kept(items) = 1..Len(items)
<1>1. Prologue(items) \in 0..Len(items) /\ Len(items) \in Nat
  BY PrologueRange
<1>2. \A i \in 1..Prologue(items) : items[i].is # "worklet"
  BY DEF HasFileDirective
<1>3. ASSUME NEW i \in 1..Len(items), items[i].is = "worklet" PROVE i > Prologue(items)
  BY <1>1, <1>2, <1>3
<1>4. QED
  BY <1>3 DEF Kept

(* WithMarker keeps the value, and adds at most the marker to its          *)
(* properties.                                                             *)
LEMMA MarkerValue ==
  ASSUME NEW v \in Values
  PROVE  /\ WithMarker(v) \in Values /\ WithMarker(v).is = v.is /\ WithMarker(v).name = v.name
         /\ Len(WithMarker(v).props) >= Len(v.props)
         /\ \A j \in 1..Len(v.props) : WithMarker(v).props[j] = v.props[j]
         /\ \A j \in 1..Len(WithMarker(v).props) :
              j \in 1..Len(v.props) \/ WithMarker(v).props[j].is = "marker"
<1> DEFINE marker == Prop("marker", None)
           more   == Append(v.props, marker)
<1>1. v.props \in Seq(Props) /\ Len(v.props) \in Nat
  BY ValueFacts
<1>2. marker \in Props /\ marker.is = "marker"
  BY DEF Prop, Props, PropKinds
<1> HIDE DEF marker
<1>3. /\ more \in Seq(Props) /\ Len(more) = Len(v.props) + 1 /\ more[Len(v.props) + 1] = marker
      /\ \A j \in 1..Len(v.props) : more[j] = v.props[j]
  BY <1>1, <1>2, AppendProperties
<1>4. CASE WithMarker(v) = v
  <2>1. QED
    BY <1>1, <1>4
<1>5. CASE WithMarker(v) # v
  <2>1. WithMarker(v) = [v EXCEPT !.props = Append(@, marker)] /\ v.is = "object"
    BY <1>5 DEF WithMarker, IsContextObject, marker
  <2>2. WithMarker(v) = [v EXCEPT !.props = more]
    BY <2>1
  <2> HIDE DEF more
  <2>3. /\ WithMarker(v).props = more /\ WithMarker(v).is = v.is /\ WithMarker(v).name = v.name
        /\ WithMarker(v) \in [is : ValueKinds, name : Names \cup {None}, props : Seq(Props)]
    BY <1>3, <2>2 DEF Values
  <2>4. WithMarker(v) \in Values
    BY <2>1, <2>3 DEF Values
  <2>5. \A j \in 1..(Len(v.props) + 1) : j \in 1..Len(v.props) \/ j = Len(v.props) + 1
    BY <1>1
  <2>6. QED
    BY <1>1, <1>2, <1>3, <2>3, <2>4, <2>5
<1>6. QED
  BY <1>4, <1>5

(* What the file directive leaves of an item.                              *)
LEMMA MarkedItem ==
  ASSUME NEW item \in Items, NEW legacy, NEW ra3
  PROVE  LET r == Marked(item, legacy, ra3)
         IN  /\ r \in Items /\ r.id = item.id /\ r.is = item.is /\ r.name = item.name
             /\ r.export = item.export /\ r.args = item.args
             /\ r.value \in {item.value, WithMarker(item.value)}
             /\ item.is = "class" => r.value = item.value /\ (legacy => r.marked)
             /\ item.is = "class" => (item.marked => r.marked)
<1> DEFINE w == WithMarker(item.value)
<1>1. w \in Values
  BY ItemFacts, MarkerValue
<1> HIDE DEF w
<1>2. CASE item.is = "class" /\ legacy
  <2>1. Marked(item, legacy, ra3) = [item EXCEPT !.marked = TRUE]
    BY <1>2 DEF Marked
  <2>2. QED
    BY <1>2, <2>1 DEF Items
<1>3. CASE item.is \in {"var", "exportDefault"} /\ ra3
  <2>1. Marked(item, legacy, ra3) = [item EXCEPT !.value = w]
    BY <1>3 DEF Marked, w
  <2>2. QED
    BY <1>1, <1>3, <2>1 DEF Items, w
<1>4. CASE ~(item.is = "class" /\ legacy) /\ ~(item.is \in {"var", "exportDefault"} /\ ra3)
  <2>1. Marked(item, legacy, ra3) = item
    BY <1>4 DEF Marked
  <2>2. QED
    BY <1>4, <2>1
<1>5. QED
  BY <1>2, <1>3, <1>4

AsFiled(s, m, legacy, ra3) == IF HasFileDirective(s) THEN Marked(s[m], legacy, ra3) ELSE s[m]
Filed(s, legacy, ra3)      == IF HasFileDirective(s) THEN ProcessedFile(s, legacy, ra3) ELSE s

Cjs(s, m) == s[m].is = "cjs"

(* The item written at m may come before the one written at n.             *)
MayPrecede(s, m, n) ==
  /\ m # n
  /\ (Cjs(s, m) <=> Cjs(s, n)) => m < n
  /\ HasFileDirective(s) => Cjs(s, n) \/ ~Cjs(s, m)

(* r is the program after the file directive: g says where each item was   *)
(* written.                                                                *)
Ordered(r, s, legacy, ra3, g) ==
  /\ g \in [1..Len(r) -> Kept(s)]
  /\ \A m \in Kept(s) : \E i \in 1..Len(r) : g[i] = m
  /\ \A i \in 1..Len(r) : r[i] = AsFiled(s, g[i], legacy, ra3)
  /\ \A i, j \in 1..Len(r) : i < j => MayPrecede(s, g[i], g[j])

(* Moving the exports to the end keeps every item, and the order of the    *)
(* exports and that of the other items.                                    *)
LEMMA ExportsOrdered ==
  ASSUME NEW s \in Seq(Items), HasFileDirective(s)
  PROVE  LET r == ExportsLast(s, Kept(s))
         IN  /\ r \in Seq(Items)
             /\ \E g \in [1..Len(r) -> Kept(s)] :
                  /\ \A m \in Kept(s) : \E i \in 1..Len(r) : g[i] = m
                  /\ \A i \in 1..Len(r) : r[i] = s[g[i]]
                  /\ \A i, j \in 1..Len(r) : i < j => MayPrecede(s, g[i], g[j])
<1> DEFINE X == {i \in Kept(s) : s[i].is = "cjs"}
           Y == Kept(s) \ X
           y == Only(s, Y)
           x == Only(s, X)
           r == y \o x
           L == Len(y)
           M == Len(x)
<1>1. r = ExportsLast(s, Kept(s))
  BY DEF ExportsLast
<1>2. X \subseteq 1..Len(s) /\ Y \subseteq 1..Len(s) /\ X \cup Y = Kept(s)
  BY DEF Kept
<1>3. \A m \in X : Cjs(s, m)
  BY DEF Cjs
<1>4. \A m \in Y : ~Cjs(s, m)
  BY DEF Cjs
<1> HIDE DEF X, Y
<1>5. X \cap (1..Len(s)) = X /\ Y \cap (1..Len(s)) = Y
  BY <1>2
<1>6. y \in Seq(Items) /\ x \in Seq(Items)
  BY OnlyPicks
<1>7. PICK gx : Picks(x, s, X, gx)
  BY <1>5, OnlyPicks
<1>8. PICK gy : Picks(y, s, Y, gy)
  BY <1>5, OnlyPicks
<1> HIDE DEF x, y
<1>9. /\ r \in Seq(Items) /\ Len(r) = L + M
      /\ \A i \in 1..(L + M) : r[i] = IF i <= L THEN y[i] ELSE x[i - L]
  BY <1>6, ConcatProperties
<1>10. L \in Nat /\ M \in Nat
  BY <1>6
<1>11. /\ gx \in [1..M -> X] /\ \A i \in 1..M : x[i] = s[gx[i]]
       /\ \A i, j \in 1..M : i < j => gx[i] < gx[j]
       /\ \A m \in X : \E i \in 1..M : gx[i] = m
  BY <1>7 DEF Picks
<1>12. /\ gy \in [1..L -> Y] /\ \A i \in 1..L : y[i] = s[gy[i]]
       /\ \A i, j \in 1..L : i < j => gy[i] < gy[j]
       /\ \A m \in Y : \E i \in 1..L : gy[i] = m
  BY <1>8 DEF Picks
<1> HIDE DEF r, L, M
<1> DEFINE g == [i \in 1..(L + M) |-> IF i <= L THEN gy[i] ELSE gx[i - L]]
<1>13. \A i \in 1..(L + M) : IF i <= L THEN i \in 1..L ELSE i - L \in 1..M
  BY <1>10
<1>14. \A i \in 1..L : i \in 1..(L + M) /\ i <= L
  BY <1>10
<1>15. \A i \in 1..M : L + i \in 1..(L + M) /\ ~(L + i <= L) /\ (L + i) - L = i
  BY <1>10
<1>16. \A i \in 1..(L + M) : g[i] \in Kept(s)
  <2> SUFFICES ASSUME NEW i \in 1..(L + M) PROVE g[i] \in Kept(s)
    OBVIOUS
  <2>1. CASE i <= L
    BY <1>2, <1>12, <1>13, <2>1
  <2>2. CASE ~(i <= L)
    BY <1>2, <1>11, <1>13, <2>2
  <2>3. QED
    BY <2>1, <2>2
<1>17. g \in [1..(L + M) -> Kept(s)]
  BY <1>16
<1>18. /\ \A i \in 1..L : g[i] = gy[i]
       /\ \A i \in 1..M : g[L + i] = gx[i]
       /\ \A i \in 1..(L + M) : ~(i <= L) => g[i] = gx[i - L]
  BY <1>14, <1>15
<1> HIDE DEF g
<1>19. \A m \in Kept(s) : \E i \in 1..(L + M) : g[i] = m
  <2> SUFFICES ASSUME NEW m \in Kept(s) PROVE \E i \in 1..(L + M) : g[i] = m
    OBVIOUS
  <2>1. CASE m \in Y
    BY <1>12, <1>14, <1>18, <2>1
  <2>2. CASE m \in X
    BY <1>11, <1>15, <1>18, <2>2
  <2>3. QED
    BY <1>2, <2>1, <2>2
<1>20. \A i \in 1..(L + M) : r[i] = s[g[i]]
  <2> SUFFICES ASSUME NEW i \in 1..(L + M) PROVE r[i] = s[g[i]]
    OBVIOUS
  <2>1. CASE i <= L
    BY <1>9, <1>12, <1>13, <1>18, <2>1
  <2>2. CASE ~(i <= L)
    BY <1>9, <1>11, <1>13, <1>18, <2>2
  <2>3. QED
    BY <2>1, <2>2
<1>21. ASSUME NEW i \in 1..(L + M), NEW j \in 1..(L + M), i < j
       PROVE  MayPrecede(s, g[i], g[j])
  <2>1. g[i] \in Nat /\ g[j] \in Nat
    <3>1. Len(s) \in Nat
      OBVIOUS
    <3>2. Kept(s) \subseteq 1..Len(s)
      BY <1>2
    <3>3. QED
      BY <1>16, <3>1, <3>2
  <2>2. CASE j <= L
    <3>1. i <= L
      BY <1>10, <1>21, <2>2
    <3>2. i \in 1..L /\ j \in 1..L
      BY <1>13, <2>2, <3>1
    <3>3. g[i] < g[j] /\ g[i] \in Y /\ g[j] \in Y
      BY <1>12, <1>18, <1>21, <3>2
    <3>4. QED
      BY <1>4, <2>1, <3>3 DEF MayPrecede
  <2>3. CASE i <= L /\ ~(j <= L)
    <3>1. i \in 1..L /\ j - L \in 1..M
      BY <1>13, <2>3
    <3>2. g[i] \in Y /\ g[j] \in X
      BY <1>11, <1>12, <1>18, <2>3, <3>1
    <3>3. QED
      BY <1>3, <1>4, <3>2 DEF MayPrecede
  <2>4. CASE ~(i <= L) /\ ~(j <= L)
    <3>1. i - L \in 1..M /\ j - L \in 1..M
      BY <1>13, <2>4
    <3>2. i - L < j - L
      BY <1>10, <1>21
    <3>3. g[i] < g[j] /\ g[i] \in X /\ g[j] \in X
      BY <1>11, <1>18, <2>4, <3>1, <3>2
    <3>4. QED
      BY <1>3, <2>1, <3>3 DEF MayPrecede
  <2>5. QED
    BY <2>2, <2>3, <2>4
<1>22. QED
  BY <1>1, <1>9, <1>17, <1>19, <1>20, <1>21

(* So does the whole file directive, which changes nothing in a file that  *)
(* has none.                                                               *)
LEMMA FiledOrdered ==
  ASSUME NEW s, IsProgram(s), NEW legacy, NEW ra3
  PROVE  /\ Filed(s, legacy, ra3) \in Seq(Items)
         /\ \E g : Ordered(Filed(s, legacy, ra3), s, legacy, ra3, g)
<1>1. s \in Seq(Items) /\ Len(s) \in Nat
  BY DEF IsProgram
<1>2. CASE ~HasFileDirective(s)
  <2> DEFINE g == [i \in 1..Len(s) |-> i]
  <2>1. Filed(s, legacy, ra3) = s /\ Kept(s) = 1..Len(s)
    BY <1>1, <1>2, AllKept DEF Filed
  <2>2. \A i \in 1..Len(s) : s[i] = AsFiled(s, i, legacy, ra3)
    BY <1>2 DEF AsFiled
  <2>3. \A i, j \in 1..Len(s) : i < j => MayPrecede(s, i, j)
    BY <1>1, <1>2 DEF MayPrecede
  <2>4. Ordered(s, s, legacy, ra3, g)
    BY <2>1, <2>2, <2>3 DEF Ordered
  <2>5. QED
    BY <1>1, <2>1, <2>4
<1>3. CASE HasFileDirective(s)
  <2> DEFINE q == ExportsLast(s, Kept(s))
             r == [i \in 1..Len(q) |-> Marked(q[i], legacy, ra3)]
  <2>1. Filed(s, legacy, ra3) = r
    BY <1>3 DEF Filed, ProcessedFile
  <2>2. q \in Seq(Items)
    BY <1>1, <1>3, ExportsOrdered
  <2>3. PICK g \in [1..Len(q) -> Kept(s)] :
          /\ \A m \in Kept(s) : \E i \in 1..Len(q) : g[i] = m
          /\ \A i \in 1..Len(q) : q[i] = s[g[i]]
          /\ \A i, j \in 1..Len(q) : i < j => MayPrecede(s, g[i], g[j])
    BY <1>1, <1>3, ExportsOrdered
  <2> HIDE DEF q
  <2>4. Len(q) \in Nat /\ \A i \in 1..Len(q) : q[i] \in Items
    BY <2>2
  <2>5. \A i \in 1..Len(q) : Marked(q[i], legacy, ra3) \in Items
    BY <2>4, MarkedItem
  <2>6. r \in Seq(Items) /\ Len(r) = Len(q) /\ \A i \in 1..Len(q) : r[i] = Marked(q[i], legacy, ra3)
    BY <2>4, <2>5
  <2> HIDE DEF r
  <2>7. \A i \in 1..Len(r) : r[i] = AsFiled(s, g[i], legacy, ra3)
    BY <1>3, <2>3, <2>6 DEF AsFiled
  <2>8. Ordered(r, s, legacy, ra3, g)
    BY <2>3, <2>6, <2>7 DEF Ordered
  <2>9. QED
    BY <2>1, <2>6, <2>8
<1>4. QED
  BY <1>2, <1>3

FactoryNames == {ClassFactory[n] : n \in Names}

(* Items as the passes leave them: the factories of classes have names of  *)
(* their own.                                                              *)
BodyItems ==
  {item \in [id : Nat \ {0}, is : ItemKinds, name : Names \cup {None} \cup FactoryNames, value : Values,
             export : Exports, marked : BOOLEAN, callee : STRING \cup {None}, links : Nat,
             args : Seq(Values)] :
     /\ item.is \in {"var", "assign", "update", "hash"} => item.name \in Names
     /\ item.is = "fnDecl" => item.name # None
     /\ item.is = "fnDecl" /\ item.export # "no" => item.name \in Names
     /\ item.is # "fnDecl" => item.name \in Names \cup {None}
     /\ item.is \notin {"var", "assign", "exportDefault", "cjs"} => item.value = Other
     /\ item.is # "call" => item.args = << >>}

(* An item as it was written is one as the passes leave it.                *)
LEMMA ItemsBody == Items \subseteq BodyItems
<1>1. None \notin Names
  BY NamesAssumption
<1>2. QED
  BY <1>1 DEF Items, BodyItems

(* What is known of an item as the passes leave it.                        *)
LEMMA BodyFacts ==
  ASSUME NEW item \in BodyItems
  PROVE  /\ item.id \in Nat \ {0} /\ item.is \in ItemKinds /\ item.value \in Values
         /\ item.args \in Seq(Values)
         /\ item.is \in {"var", "assign", "update", "hash"} => item.name \in Names
         /\ item.is = "fnDecl" => item.name # None
         /\ item.is = "fnDecl" /\ item.export # "no" => item.name \in Names
         /\ item.is # "fnDecl" => item.name \in Names \cup {None}
         /\ item.is \notin {"var", "assign", "exportDefault", "cjs"} => item.value = Other
         /\ item.is # "call" => item.args = << >>
BY DEF BodyItems

(* The two or three items that a worklet class becomes.                    *)
LEMMA FactoryItem ==
  ASSUME NEW item \in Items, IsWorkletClass(item)
  PROVE  /\ Factory(item) \in BodyItems /\ Factory(item).id = item.id
         /\ Factory(item).is = "fnDecl" /\ Factory(item).export = "no"
         /\ Factory(item).value = Other /\ Factory(item).args = << >>
         /\ Factory(item).name \in FactoryNames
<1>1. item.is = "class" /\ item.name \in Names
  BY ItemFacts DEF IsWorkletClass
<1> DEFINE n == ClassFactory[item.name]
<1>2. n \in FactoryNames
  BY <1>1 DEF FactoryNames
<1>3. n # None /\ item.value = Other /\ item.args = << >>
  BY <1>1, FactoryAssumption, ItemFacts
<1> HIDE DEF n
<1>4. Factory(item) = [item EXCEPT !.is = "fnDecl", !.name = n, !.export = "no"]
  BY DEF Factory, n
<1>5. QED
  BY <1>2, <1>3, <1>4 DEF Items, BodyItems, ItemKinds, Exports

(* The constant that calls the factory has the class's name.               *)
LEMMA CallItem ==
  ASSUME NEW item \in Items, IsWorkletClass(item), NEW export \in Exports
  PROVE  /\ CallOf(item, export) \in BodyItems /\ CallOf(item, export).id = item.id
         /\ CallOf(item, export).is = "var" /\ CallOf(item, export).export = export
         /\ CallOf(item, export).value = Other /\ CallOf(item, export).args = << >>
         /\ CallOf(item, export).name = item.name
<1>1. item.is = "class" /\ item.name \in Names
  BY ItemFacts DEF IsWorkletClass
<1>2. item.value = Other /\ item.args = << >>
  BY <1>1, ItemFacts
<1>3. CallOf(item, export) = [item EXCEPT !.is = "var", !.export = export]
  BY DEF CallOf
<1>4. QED
  BY <1>1, <1>2, <1>3 DEF Items, BodyItems, ItemKinds

(* The default export names the class.                                     *)
LEMMA DefaultItem ==
  ASSUME NEW item \in Items, IsWorkletClass(item)
  PROVE  /\ DefaultOf(item) \in BodyItems /\ DefaultOf(item).id = item.id
         /\ DefaultOf(item).is = "exportDefault" /\ DefaultOf(item).export = item.export
         /\ DefaultOf(item).value = Value("name", item.name, << >>) /\ DefaultOf(item).args = << >>
         /\ DefaultOf(item).name = None
<1>1. item.is = "class" /\ item.name \in Names
  BY ItemFacts DEF IsWorkletClass
<1>2. item.value = Other /\ item.args = << >>
  BY <1>1, ItemFacts
<1> DEFINE v == Value("name", item.name, << >>)
<1>3. v \in Values
  <2>1. << >> \in Seq(Props)
    OBVIOUS
  <2>2. QED
    BY <1>1, <2>1 DEF Value, Values, ValueKinds
<1> HIDE DEF v
<1>4. DefaultOf(item) = [item EXCEPT !.is = "exportDefault", !.name = None, !.value = v]
  BY DEF DefaultOf, v
<1>5. QED
  BY <1>1, <1>2, <1>3, <1>4 DEF Items, BodyItems, ItemKinds, v

(* What becomes of an item, with classes or without.                       *)
Parts(item, classes) == IF classes THEN Lowered(item) ELSE <<item>>

IsLowered(item, classes) == classes /\ IsWorkletClass(item)

(* A class becomes its factory, the call of it and, for a default export,  *)
(* that export; every other item stays as it is.                           *)
LEMMA PartsOf ==
  ASSUME NEW item \in Items, NEW classes
  PROVE  /\ Parts(item, classes) \in Seq(BodyItems)
         /\ \A k \in 1..Len(Parts(item, classes)) : Parts(item, classes)[k].id = item.id
         /\ ~IsLowered(item, classes) =>
              Len(Parts(item, classes)) = 1 /\ Parts(item, classes)[1] = item
         /\ IsLowered(item, classes) =>
              /\ Len(Parts(item, classes)) = IF item.export = "default" THEN 3 ELSE 2
              /\ Parts(item, classes)[1] = Factory(item)
              /\ Parts(item, classes)[2] = CallOf(item, IF item.export = "default" THEN "no" ELSE item.export)
              /\ item.export = "default" => Parts(item, classes)[3] = DefaultOf(item)
<1>1. CASE ~IsLowered(item, classes)
  <2>1. Parts(item, classes) = <<item>>
    BY <1>1 DEF Parts, IsLowered, Lowered
  <2>2. item \in BodyItems
    BY ItemsBody
  <2>3. QED
    BY <1>1, <2>1, <2>2
<1>2. CASE IsLowered(item, classes)
  <2>1. item.export \in {"no", "named", "default"}
    BY ItemFacts DEF Exports
  <2>2. Parts(item, classes) = Lowered(item) /\ IsWorkletClass(item)
    BY <1>2 DEF Parts, IsLowered
  <2> DEFINE f == Factory(item)
             c == CallOf(item, IF item.export = "default" THEN "no" ELSE item.export)
             d == DefaultOf(item)
  <2>3. f \in BodyItems /\ c \in BodyItems /\ d \in BodyItems /\ f.id = item.id /\ c.id = item.id /\ d.id = item.id
    BY <2>1, <2>2, FactoryItem, CallItem, DefaultItem DEF Exports
  <2>4. CASE item.export = "default"
    <3>1. Lowered(item) = <<f, c, d>>
      BY <2>2, <2>4 DEF Lowered
    <3> HIDE DEF f, c, d
    <3>2. Lowered(item) \in Seq(BodyItems) /\ Len(Lowered(item)) = 3
      BY <2>3, <3>1
    <3>3. \A k \in 1..3 : Lowered(item)[k].id = item.id
      BY <2>3, <3>1
    <3>4. QED
      BY <1>2, <2>2, <2>4, <3>1, <3>2, <3>3 DEF f, c, d
  <2>5. CASE item.export # "default"
    <3>1. Lowered(item) = <<f, c>>
      BY <2>1, <2>2, <2>5 DEF Lowered
    <3> HIDE DEF f, c, d
    <3>2. Lowered(item) \in Seq(BodyItems) /\ Len(Lowered(item)) = 2
      BY <2>3, <3>1
    <3>3. \A k \in 1..2 : Lowered(item)[k].id = item.id
      BY <2>3, <3>1
    <3>4. QED
      BY <1>2, <2>2, <2>5, <3>1, <3>2, <3>3 DEF f, c
  <2>6. QED
    BY <2>4, <2>5
<1>3. QED
  BY <1>1, <1>2

-----------------------------------------------------------------------------
PartsAt(s, m, legacy, ra3, classes) == Parts(AsFiled(s, m, legacy, ra3), classes)

(* r is the program as the callbacks are looked for: its i-th item is the  *)
(* o[i]-th part of the one that was written at p[i].                       *)
Placed(r, s, legacy, ra3, classes, p, o) ==
  /\ p \in [1..Len(r) -> Kept(s)] /\ o \in [1..Len(r) -> Nat]
  /\ \A i \in 1..Len(r) : /\ o[i] \in 1..Len(PartsAt(s, p[i], legacy, ra3, classes))
                          /\ r[i] = PartsAt(s, p[i], legacy, ra3, classes)[o[i]]
  /\ \A m \in Kept(s) : \A k \in 1..Len(PartsAt(s, m, legacy, ra3, classes)) :
       \E i \in 1..Len(r) : p[i] = m /\ o[i] = k
  /\ \A i, j \in 1..Len(r) :
       i < j => (p[i] = p[j] /\ o[i] < o[j]) \/ MayPrecede(s, p[i], p[j])

Finished(f, classes) == IF classes THEN ProcessedClasses(f) ELSE f

(* Every item of the rewritten program is one part of an item as the       *)
(* directive left it, every part is there, and parts of one item stay      *)
(* together.                                                               *)
LEMMA FinishedPlaced ==
  ASSUME NEW s, IsProgram(s), NEW legacy, NEW ra3, NEW classes,
         NEW f \in Seq(Items), NEW g, Ordered(f, s, legacy, ra3, g)
  PROVE  /\ Finished(f, classes) \in Seq(BodyItems)
         /\ \E p, o : Placed(Finished(f, classes), s, legacy, ra3, classes, p, o)
<1> DEFINE N == Len(f)
           ss == [i \in 1..N |-> Parts(f[i], classes)]
           r == Finished(f, classes)
<1>1. N \in Nat /\ \A i \in 1..N : f[i] \in Items
  OBVIOUS
<1>2. /\ g \in [1..N -> Kept(s)]
      /\ \A m \in Kept(s) : \E i \in 1..N : g[i] = m
      /\ \A i \in 1..N : f[i] = AsFiled(s, g[i], legacy, ra3)
      /\ \A i, j \in 1..N : i < j => MayPrecede(s, g[i], g[j])
  BY DEF Ordered
<1> HIDE DEF N
<1>3. \A i \in 1..N : Parts(f[i], classes) \in Seq(BodyItems)
  BY <1>1, PartsOf
<1>4. ss \in Seq(Seq(BodyItems)) /\ Len(ss) = N /\ \A i \in 1..N : ss[i] = Parts(f[i], classes)
  BY <1>1, <1>3
<1>5. \A i \in 1..N : ss[i] = PartsAt(s, g[i], legacy, ra3, classes)
  BY <1>2, <1>4 DEF PartsAt
<1>6. r \in Seq(BodyItems) /\ \E b, o : Joins(r, ss, N, b, o)
  <2>1. CASE classes
    <3>1. ProcessedClasses(f) = FlattenSeq([i \in 1..N |-> Lowered(f[i])])
      BY DEF ProcessedClasses, N
    <3>2. [i \in 1..N |-> Lowered(f[i])] = ss
      BY <2>1 DEF Parts
    <3> HIDE DEF ss
    <3>3. r = FlattenSeq(ss)
      BY <2>1, <3>1, <3>2 DEF Finished
    <3> HIDE DEF r
    <3> DEFINE S == BodyItems
    <3>4. ss \in Seq(Seq(S))
      BY <1>4
    <3> HIDE DEF S
    <3>5. FlattenSeq(ss) \in Seq(S) /\ \E b, o : Joins(FlattenSeq(ss), ss, Len(ss), b, o)
      BY <3>4, FlattenJoins
    <3>6. QED
      BY <1>4, <3>3, <3>5 DEF S
  <2>2. CASE ~classes
    <3>1. r = f
      BY <2>2 DEF Finished
    <3>2. r \in Seq(BodyItems)
      BY <3>1, ItemsBody
    <3>3. \A i \in 1..N : ss[i] = <<f[i]>>
      BY <1>4, <2>2 DEF Parts
    <3> HIDE DEF ss
    <3>4. \A i \in 1..N : Len(ss[i]) = 1 /\ ss[i][1] = f[i]
      <4>1. \A x : Len(<<x>>) = 1 /\ <<x>>[1] = x
        OBVIOUS
      <4>2. QED
        BY <3>3, <4>1
    <3> DEFINE b == [i \in 1..N |-> i]
               o == [i \in 1..N |-> 1]
    <3>5. Len(f) = N
      BY DEF N
    <3>6. b \in [1..N -> 1..N] /\ o \in [1..N -> Nat] /\ \A i \in 1..N : b[i] = i /\ o[i] = 1
      OBVIOUS
    <3> HIDE DEF b, o
    <3>7. \A i \in 1..N : o[i] \in 1..Len(ss[b[i]]) /\ f[i] = ss[b[i]][o[i]]
      <4>1. 1 \in 1..1
        OBVIOUS
      <4>2. QED
        BY <3>4, <3>6, <4>1
    <3>8. \A i, j \in 1..N : i < j => b[i] < b[j] \/ (b[i] = b[j] /\ o[i] < o[j])
      BY <3>6
    <3>9. \A m \in 1..N : \A k \in 1..Len(ss[m]) : \E i \in 1..N : b[i] = m /\ o[i] = k
      <4> SUFFICES ASSUME NEW m \in 1..N, NEW k \in 1..Len(ss[m])
                   PROVE  b[m] = m /\ o[m] = k
        OBVIOUS
      <4>1. Len(ss[m]) = 1
        BY <3>4
      <4>2. k \in 1..1
        BY <4>1
      <4>3. k = 1
        BY <4>2
      <4>4. QED
        BY <3>6, <4>3
    <3>10. Joins(f, ss, N, b, o)
      BY <3>5, <3>6, <3>7, <3>8, <3>9 DEF Joins
    <3>11. QED
      BY <3>1, <3>2, <3>10
  <2>3. QED
    BY <2>1, <2>2
<1>p. PICK b : \E o : Joins(r, ss, N, b, o)
  BY <1>6
<1>7. PICK o : Joins(r, ss, N, b, o)
  BY <1>p
<1> HIDE DEF r, ss
<1>8. /\ b \in [1..Len(r) -> 1..N] /\ o \in [1..Len(r) -> Nat]
      /\ \A i \in 1..Len(r) : o[i] \in 1..Len(ss[b[i]]) /\ r[i] = ss[b[i]][o[i]]
      /\ \A i, j \in 1..Len(r) : i < j => b[i] < b[j] \/ (b[i] = b[j] /\ o[i] < o[j])
      /\ \A m \in 1..N : \A k \in 1..Len(ss[m]) : \E i \in 1..Len(r) : b[i] = m /\ o[i] = k
  BY <1>7 DEF Joins
<1> DEFINE p == [i \in 1..Len(r) |-> g[b[i]]]
<1>9. p \in [1..Len(r) -> Kept(s)] /\ \A i \in 1..Len(r) : p[i] = g[b[i]] /\ b[i] \in 1..N
  BY <1>2, <1>8
<1> HIDE DEF p
<1>10. \A i \in 1..Len(r) : /\ o[i] \in 1..Len(PartsAt(s, p[i], legacy, ra3, classes))
                            /\ r[i] = PartsAt(s, p[i], legacy, ra3, classes)[o[i]]
  BY <1>5, <1>8, <1>9
<1>11. ASSUME NEW m \in Kept(s), NEW k \in 1..Len(PartsAt(s, m, legacy, ra3, classes))
       PROVE  \E i \in 1..Len(r) : p[i] = m /\ o[i] = k
  <2>1. PICK i \in 1..N : g[i] = m
    BY <1>2
  <2>2. k \in 1..Len(ss[i])
    BY <1>5, <2>1
  <2>3. PICK j \in 1..Len(r) : b[j] = i /\ o[j] = k
    BY <1>8, <2>2
  <2>4. QED
    BY <1>9, <2>1, <2>3
<1>12. ASSUME NEW i \in 1..Len(r), NEW j \in 1..Len(r), i < j
       PROVE  (p[i] = p[j] /\ o[i] < o[j]) \/ MayPrecede(s, p[i], p[j])
  <2>1. CASE b[i] < b[j]
    BY <1>2, <1>9, <2>1
  <2>2. CASE b[i] = b[j] /\ o[i] < o[j]
    BY <1>9, <2>2
  <2>3. QED
    BY <1>8, <1>12, <2>1, <2>2
<1>13. Placed(r, s, legacy, ra3, classes, p, o)
  BY <1>8, <1>9, <1>10, <1>11, <1>12 DEF Placed
<1>14. QED
  BY <1>6, <1>13 DEF r

R3(b)  == b.rules = "ra3"
Lgc(b) == b.rules # "bundle"
Cls(b) == R3(b) \/ (Lgc(b) /\ ~b.disable_worklet_classes)

Injections(s, ra3) ==
  IF HasFileDirective(s) THEN UNION {InjectedIn(s[m], ra3) : m \in 1..Len(s)} ELSE {}

LoweredIn(f, classes) ==
  IF classes THEN {<<f[i].id, 0, 0>> : i \in {i \in 1..Len(f) : IsWorkletClass(f[i])}} ELSE {}

FiledOf(b, s)    == Filed(s, Lgc(b), R3(b))
FinishedOf(b, s) == Finished(FiledOf(b, s), Cls(b))
MarkedOf(b, s)   == Injections(s, R3(b)) \cup LoweredIn(FiledOf(b, s), Cls(b))

SiteFunctions(items, marks) ==
  UNION {{f \in FunctionsIn(items[i]) : SpanIn(items[i], f) \in marks} : i \in 1..Len(items)}

Early == {"file", "classes"}
Late  == {"definitions", "callbacks", "inject", "done"}

(* Which program and which marks there are in each phase.                  *)
BodyAt(ph, b, s, items, marks, spans) ==
  /\ ph \in Early \cup Late /\ b \in Build /\ IsProgram(s)
  /\ ph = "file" => items = s /\ marks = {}
  /\ ph = "classes" => items = FiledOf(b, s) /\ marks = Injections(s, R3(b))
  /\ ph \in Late => items = FinishedOf(b, s)
  /\ ph \in Late \ {"done"} => marks = MarkedOf(b, s)
  /\ ph = "done" => marks = MarkedOf(b, s) \cup SiteFunctions(items, spans)

BodyInv == BodyAt(phase, build, source, body, directives, sites)

(* Every step is one of the two rewrites, the marking of the callbacks, or *)
(* leaves the program and the marks alone.                                 *)
Searches == /\ phase \in {"definitions", "callbacks"} /\ phase' \in {"definitions", "callbacks", "inject"}
            /\ UNCHANGED <<build, source, body, directives>>

(* Every step is one of the two rewrites, the marking of the callbacks, or *)
(* leaves the program and the marks alone.                                 *)
LEMMA Steps ==
  ASSUME [Next]_vars
  PROVE  ProcessFile \/ ProcessClasses \/ Searches \/ Inject \/ UNCHANGED vars
<1>1. CASE VisitFnDecl
  BY <1>1 DEF VisitFnDecl, Visit, Searches
<1>2. CASE VisitVarDeclarator
  BY <1>2 DEF VisitVarDeclarator, Visit, Searches
<1>3. CASE VisitAssignExpr
  BY <1>3 DEF VisitAssignExpr, Visit, Searches
<1>4. CASE VisitUpdateExpr
  BY <1>4 DEF VisitUpdateExpr, Visit, Searches
<1>5. CASE VisitMemberExpr
  BY <1>5 DEF VisitMemberExpr, Visit, Searches
<1>6. CASE VisitOther
  BY <1>6 DEF VisitOther, Visit, Searches
<1>7. CASE EndDefinitions
  BY <1>7 DEF EndDefinitions, Searches
<1>8. CASE VisitCall
  BY <1>8 DEF VisitCall, Searches
<1>9. CASE CollectArgument
  BY <1>9 DEF CollectArgument, Searches
<1>10. CASE CollectFunction
  BY <1>10 DEF CollectFunction, Collect, Searches
<1>11. CASE CollectObject
  BY <1>11 DEF CollectObject, Collect, Searches
<1>12. CASE CollectAlias
  BY <1>12 DEF CollectAlias, Collect, Searches
<1>13. CASE EndCallbacks
  BY <1>13 DEF EndCallbacks, Searches
<1>14. CASE Terminated
  BY <1>14 DEF Terminated
<1>15. QED
  BY <1>1, <1>2, <1>3, <1>4, <1>5, <1>6, <1>7, <1>8, <1>9, <1>10, <1>11, <1>12, <1>13, <1>14 DEF Next

(* The options, told by the constant-level operators.                      *)
LEMMA OptionsOf == RA3 = R3(build) /\ Legacy = Lgc(build) /\ WithClasses = Cls(build)
BY DEF RA3, Legacy, WithClasses, R3, Lgc, Cls

(* At first the program is as it was written and nothing is marked.        *)
LEMMA InitBody == Init => BodyInv
<1> SUFFICES ASSUME Init PROVE BodyInv
  OBVIOUS
<1>1. PICK family \in Inputs : build \in family.builds /\ source \in family.bodies
  BY DEF Init
<1>2. build \in Build /\ IsProgram(source)
  BY <1>1, InputAssumption
<1>3. phase = "file" /\ body = source /\ directives = {}
  BY DEF Init
<1>4. QED
  BY <1>2, <1>3 DEF BodyInv, BodyAt, Early, Late

(* Every step keeps the program and the marks what the source makes them.  *)
LEMMA NextBody == ASSUME BodyInv, [Next]_vars PROVE BodyInv'
<1>1. phase \in Early \cup Late /\ build \in Build /\ IsProgram(source)
  BY DEF BodyInv, BodyAt
<1>2. CASE ProcessFile
  <2>1. phase = "file" /\ phase' = "classes" /\ UNCHANGED <<build, source>>
    BY <1>2 DEF ProcessFile
  <2>2. body = source /\ directives = {}
    BY <2>1 DEF BodyInv, BodyAt
  <2>3. body' = FiledOf(build, source) /\ directives' = Injections(source, R3(build))
    <3>1. CASE HasFileDirective(source)
      BY <1>2, <2>2, <3>1, OptionsOf DEF ProcessFile, FiledOf, Filed, Injections
    <3>2. CASE ~HasFileDirective(source)
      BY <1>2, <2>2, <3>2 DEF ProcessFile, FiledOf, Filed, Injections
    <3>3. QED
      BY <3>1, <3>2
  <2>4. QED
    BY <1>1, <2>1, <2>3 DEF BodyInv, BodyAt, Early, Late
<1>3. CASE ProcessClasses
  <2>1. phase = "classes" /\ phase' = "definitions" /\ UNCHANGED <<build, source>>
    BY <1>3 DEF ProcessClasses
  <2>2. body = FiledOf(build, source) /\ directives = Injections(source, R3(build))
    BY <2>1 DEF BodyInv, BodyAt
  <2>3. body' = FinishedOf(build, source) /\ directives' = MarkedOf(build, source)
    <3>1. CASE Cls(build)
      BY <1>3, <2>2, <3>1, OptionsOf DEF ProcessClasses, FinishedOf, Finished, MarkedOf, LoweredIn
    <3>2. CASE ~Cls(build)
      BY <1>3, <2>2, <3>2, OptionsOf DEF ProcessClasses, FinishedOf, Finished, MarkedOf, LoweredIn
    <3>3. QED
      BY <3>1, <3>2
  <2>4. QED
    BY <1>1, <2>1, <2>3 DEF BodyInv, BodyAt, Early, Late
<1>4. CASE Searches
  <2>1. phase \in Late \ {"done"} /\ phase' \in Late \ {"done"}
    BY <1>4 DEF Searches, Late
  <2>2. UNCHANGED <<build, source, body, directives>>
    BY <1>4 DEF Searches
  <2>3. QED
    BY <1>1, <2>1, <2>2 DEF BodyInv, BodyAt, Early, Late
<1>5. CASE Inject
  <2>1. phase = "inject" /\ phase' = "done" /\ UNCHANGED <<build, source, body, sites>>
    BY <1>5 DEF Inject, callbacks
  <2>2. body = FinishedOf(build, source) /\ directives = MarkedOf(build, source)
    BY <2>1 DEF BodyInv, BodyAt, Late
  <2>3. directives' = directives \cup SiteFunctions(body, sites)
    BY <1>5 DEF Inject, SiteFunctions
  <2>4. QED
    BY <1>1, <2>1, <2>2, <2>3 DEF BodyInv, BodyAt, Early, Late
<1>6. CASE UNCHANGED vars
  BY <1>6 DEF vars, callbacks, BodyInv
<1>7. QED
  BY <1>2, <1>3, <1>4, <1>5, <1>6, Steps

(* In every state the program and the marks are what the source makes them.*)
LEMMA AlwaysBody == Spec => []BodyInv
BY InitBody, NextBody, PTL DEF Spec

(* Where the items of the finished program come from.                      *)
PlacedNow(p, o) == Placed(body, source, Lgc(build), R3(build), Cls(build), p, o)

(* From the definitions on, every item has its place in the source.        *)
LEMMA BodyPlaced ==
  ASSUME BodyInv, phase \in Late
  PROVE  body \in Seq(BodyItems) /\ \E p, o : PlacedNow(p, o)
<1>1. IsProgram(source) /\ body = FinishedOf(build, source)
  BY DEF BodyInv, BodyAt
<1> DEFINE f == FiledOf(build, source)
<1>2. f \in Seq(Items) /\ \E g : Ordered(f, source, Lgc(build), R3(build), g)
  BY <1>1, FiledOrdered DEF FiledOf
<1>3. PICK g : Ordered(f, source, Lgc(build), R3(build), g)
  BY <1>2
<1> HIDE DEF f
<1>4. /\ Finished(f, Cls(build)) \in Seq(BodyItems)
      /\ \E p, o : Placed(Finished(f, Cls(build)), source, Lgc(build), R3(build), Cls(build), p, o)
  BY <1>1, <1>2, <1>3, FinishedPlaced
<1>5. QED
  BY <1>1, <1>4 DEF FinishedOf, PlacedNow, f

(* What is kept is an item of the program.                                 *)
LEMMA KeptRange == ASSUME NEW s, IsProgram(s), NEW m \in Kept(s)
                   PROVE  m \in 1..Len(s) /\ m \in Nat /\ s[m] \in Items /\ s[m].id = m
<1>1. s \in Seq(Items) /\ Len(s) \in Nat /\ m \in 1..Len(s)
  BY DEF IsProgram, Kept
<1>2. QED
  BY <1>1 DEF IsProgram

(* An item after the file directive.                                       *)
LEMMA FiledItem ==
  ASSUME NEW s, IsProgram(s), NEW m \in Kept(s), NEW legacy, NEW ra3
  PROVE  LET item == AsFiled(s, m, legacy, ra3)
         IN  /\ item \in Items /\ item.id = m /\ item.is = s[m].is /\ item.name = s[m].name
             /\ item.export = s[m].export /\ item.args = s[m].args
             /\ item.value \in {s[m].value, WithMarker(s[m].value)}
             /\ item.is = "class" /\ s[m].marked => item.marked
             /\ item.is = "class" /\ HasFileDirective(s) /\ legacy => item.marked
<1>1. s[m] \in Items /\ s[m].id = m
  BY KeptRange
<1>2. CASE HasFileDirective(s)
  <2> DEFINE item == Marked(s[m], legacy, ra3)
  <2>1. /\ item \in Items /\ item.id = m /\ item.is = s[m].is /\ item.name = s[m].name
        /\ item.export = s[m].export /\ item.args = s[m].args
        /\ item.value \in {s[m].value, WithMarker(s[m].value)}
        /\ s[m].is = "class" => (legacy => item.marked) /\ (s[m].marked => item.marked)
    BY <1>1, MarkedItem
  <2>2. AsFiled(s, m, legacy, ra3) = item
    BY <1>2 DEF AsFiled
  <2> HIDE DEF item
  <2>3. QED
    BY <1>2, <2>1, <2>2
<1>3. CASE ~HasFileDirective(s)
  <2>1. AsFiled(s, m, legacy, ra3) = s[m]
    BY <1>3 DEF AsFiled
  <2>2. QED
    BY <1>1, <1>3, <2>1
<1>4. QED
  BY <1>2, <1>3

(* An item of the finished program, by the part of its source that it is.  *)
LEMMA PlacedItem ==
  ASSUME NEW s, IsProgram(s), NEW legacy, NEW ra3, NEW classes, NEW r, NEW p, NEW o,
         Placed(r, s, legacy, ra3, classes, p, o), NEW i \in 1..Len(r)
  PROVE  LET item == AsFiled(s, p[i], legacy, ra3)
         IN  /\ p[i] \in Kept(s) /\ o[i] \in Nat /\ r[i].id = p[i]
             /\ ~IsLowered(item, classes) => o[i] = 1 /\ r[i] = item
             /\ IsLowered(item, classes) =>
                  \/ o[i] = 1 /\ r[i] = Factory(item)
                  \/ o[i] = 2 /\ r[i] = CallOf(item, IF item.export = "default" THEN "no" ELSE item.export)
                  \/ o[i] = 3 /\ item.export = "default" /\ r[i] = DefaultOf(item)
<1> DEFINE item  == AsFiled(s, p[i], legacy, ra3)
           parts == Parts(item, classes)
<1>1. p[i] \in Kept(s) /\ o[i] \in Nat /\ o[i] \in 1..Len(parts) /\ r[i] = parts[o[i]]
  BY DEF Placed, PartsAt
<1>2. item \in Items /\ item.id = p[i]
  BY <1>1, FiledItem
<1> HIDE DEF item
<1>3. /\ \A k \in 1..Len(parts) : parts[k].id = item.id
      /\ ~IsLowered(item, classes) => Len(parts) = 1 /\ parts[1] = item
      /\ IsLowered(item, classes) =>
           /\ Len(parts) = IF item.export = "default" THEN 3 ELSE 2
           /\ parts[1] = Factory(item)
           /\ parts[2] = CallOf(item, IF item.export = "default" THEN "no" ELSE item.export)
           /\ item.export = "default" => parts[3] = DefaultOf(item)
  BY <1>2, PartsOf
<1> HIDE DEF parts
<1>4. r[i].id = p[i]
  BY <1>1, <1>2, <1>3
<1>5. ASSUME ~IsLowered(item, classes) PROVE o[i] = 1 /\ r[i] = item
  <2>1. Len(parts) = 1
    BY <1>3, <1>5
  <2>2. o[i] = 1
    BY <1>1, <2>1
  <2>3. QED
    BY <1>1, <1>3, <1>5, <2>2
<1>6. ASSUME IsLowered(item, classes)
      PROVE  \/ o[i] = 1 /\ r[i] = Factory(item)
             \/ o[i] = 2 /\ r[i] = CallOf(item, IF item.export = "default" THEN "no" ELSE item.export)
             \/ o[i] = 3 /\ item.export = "default" /\ r[i] = DefaultOf(item)
  <2>1. CASE item.export = "default"
    <3>1. o[i] \in 1..3
      BY <1>1, <1>3, <1>6, <2>1
    <3>2. o[i] = 1 \/ o[i] = 2 \/ o[i] = 3
      BY <3>1
    <3>3. QED
      BY <1>1, <1>3, <1>6, <2>1, <3>2
  <2>2. CASE item.export # "default"
    <3>1. o[i] \in 1..2
      BY <1>1, <1>3, <1>6, <2>2
    <3>2. o[i] = 1 \/ o[i] = 2
      BY <3>1
    <3>3. QED
      BY <1>1, <1>3, <1>6, <3>2
  <2>3. QED
    BY <2>1, <2>2
<1>7. QED
  BY <1>1, <1>4, <1>5, <1>6 DEF item

(* Every part of what is kept is there.                                    *)
LEMMA PlacedPart ==
  ASSUME NEW s, IsProgram(s), NEW legacy, NEW ra3, NEW classes, NEW r, NEW p, NEW o,
         Placed(r, s, legacy, ra3, classes, p, o), NEW m \in Kept(s)
  PROVE  LET item == AsFiled(s, m, legacy, ra3)
         IN  /\ ~IsLowered(item, classes) => \E i \in 1..Len(r) : p[i] = m /\ o[i] = 1 /\ r[i] = item
             /\ IsLowered(item, classes) =>
                  /\ \E i \in 1..Len(r) : p[i] = m /\ o[i] = 1 /\ r[i] = Factory(item)
                  /\ \E i \in 1..Len(r) :
                       /\ p[i] = m /\ o[i] = 2
                       /\ r[i] = CallOf(item, IF item.export = "default" THEN "no" ELSE item.export)
                  /\ item.export = "default" =>
                       \E i \in 1..Len(r) : p[i] = m /\ o[i] = 3 /\ r[i] = DefaultOf(item)
<1> DEFINE item  == AsFiled(s, m, legacy, ra3)
           parts == Parts(item, classes)
<1>1. \A k \in 1..Len(parts) : \E i \in 1..Len(r) : p[i] = m /\ o[i] = k
  BY DEF Placed, PartsAt
<1>2. \A i \in 1..Len(r) : p[i] = m => r[i] = parts[o[i]]
  BY DEF Placed, PartsAt
<1>3. item \in Items
  BY FiledItem
<1> HIDE DEF item
<1>4. /\ ~IsLowered(item, classes) => Len(parts) = 1 /\ parts[1] = item
      /\ IsLowered(item, classes) =>
           /\ Len(parts) = IF item.export = "default" THEN 3 ELSE 2
           /\ parts[1] = Factory(item)
           /\ parts[2] = CallOf(item, IF item.export = "default" THEN "no" ELSE item.export)
           /\ item.export = "default" => parts[3] = DefaultOf(item)
  BY <1>3, PartsOf
<1> HIDE DEF parts
<1>5. /\ 1 \in 1..1 /\ 1 \in 1..2 /\ 2 \in 1..2
      /\ 1 \in 1..3 /\ 2 \in 1..3 /\ 3 \in 1..3
  OBVIOUS
<1>6. ASSUME ~IsLowered(item, classes)
      PROVE  \E i \in 1..Len(r) : p[i] = m /\ o[i] = 1 /\ r[i] = item
  <2>1. 1 \in 1..Len(parts)
    BY <1>4, <1>5, <1>6
  <2>2. PICK i \in 1..Len(r) : p[i] = m /\ o[i] = 1
    BY <1>1, <2>1
  <2>3. QED
    BY <1>2, <1>4, <1>6, <2>2
<1>7. ASSUME IsLowered(item, classes)
      PROVE  /\ \E i \in 1..Len(r) : p[i] = m /\ o[i] = 1 /\ r[i] = Factory(item)
             /\ \E i \in 1..Len(r) :
                  /\ p[i] = m /\ o[i] = 2
                  /\ r[i] = CallOf(item, IF item.export = "default" THEN "no" ELSE item.export)
  <2>1. 1 \in 1..Len(parts) /\ 2 \in 1..Len(parts)
    BY <1>4, <1>5, <1>7
  <2>2. PICK i \in 1..Len(r) : p[i] = m /\ o[i] = 1
    BY <1>1, <2>1
  <2>3. PICK j \in 1..Len(r) : p[j] = m /\ o[j] = 2
    BY <1>1, <2>1
  <2>4. QED
    BY <1>2, <1>4, <1>7, <2>2, <2>3
<1>8. ASSUME IsLowered(item, classes), item.export = "default"
      PROVE  \E i \in 1..Len(r) : p[i] = m /\ o[i] = 3 /\ r[i] = DefaultOf(item)
  <2>1. 3 \in 1..Len(parts)
    BY <1>4, <1>5, <1>8
  <2>2. PICK i \in 1..Len(r) : p[i] = m /\ o[i] = 3
    BY <1>1, <2>1
  <2>3. QED
    BY <1>2, <1>4, <1>8, <2>2
<1>9. QED
  BY <1>6, <1>7, <1>8 DEF item

(* Only what was written as an assignment to the exports is one.           *)
LEMMA PlacedExports ==
  ASSUME NEW s, IsProgram(s), NEW legacy, NEW ra3, NEW classes, NEW r, NEW p, NEW o,
         Placed(r, s, legacy, ra3, classes, p, o), NEW i \in 1..Len(r)
  PROVE  r[i].is = "cjs" <=> Cjs(s, p[i])
<1> DEFINE item == AsFiled(s, p[i], legacy, ra3)
<1>1. p[i] \in Kept(s)
  BY PlacedItem
<1>2. item \in Items /\ item.is = s[p[i]].is
  BY <1>1, FiledItem
<1>3. CASE ~IsLowered(item, classes)
  <2>1. r[i] = item
    BY <1>3, PlacedItem
  <2>2. QED
    BY <1>2, <2>1 DEF Cjs
<1>4. CASE IsLowered(item, classes)
  <2>1. IsWorkletClass(item) /\ item.is = "class" /\ item.export \in Exports
    BY <1>2, <1>4, ItemFacts DEF IsLowered, IsWorkletClass
  <2> DEFINE e == IF item.export = "default" THEN "no" ELSE item.export
  <2>2. r[i] = Factory(item) \/ r[i] = CallOf(item, e) \/ r[i] = DefaultOf(item)
    BY <1>4, PlacedItem
  <2>3. e \in Exports
    BY <2>1 DEF Exports
  <2> HIDE DEF e, item
  <2>4. r[i].is # "cjs"
    BY <1>2, <2>1, <2>2, <2>3, FactoryItem, CallItem, DefaultItem
  <2>5. ~Cjs(s, p[i])
    BY <1>2, <2>1 DEF Cjs
  <2>6. QED
    BY <2>4, <2>5
<1>5. QED
  BY <1>3, <1>4

-----------------------------------------------------------------------------
(* The items of a file stay in order.                                      *)
LEMMA BodyInOrder == ASSUME BodyInv PROVE ItemsInOrder
<1> SUFFICES ASSUME phase = "done" PROVE ItemsInOrder
  BY DEF ItemsInOrder
<1>1. phase \in Late /\ IsProgram(source)
  BY DEF Late, BodyInv, BodyAt
<1>p. PICK p : \E o : PlacedNow(p, o)
  BY <1>1, BodyPlaced
<1>2. PICK o : PlacedNow(p, o)
  BY <1>p
<1>3. Placed(body, source, Lgc(build), R3(build), Cls(build), p, o)
  BY <1>2 DEF PlacedNow
<1>4. \A i \in 1..Len(body) : p[i] \in Kept(source) /\ body[i].id = p[i]
  BY <1>1, <1>3, PlacedItem
<1>5. \A i \in 1..Len(body) : body[i].is = "cjs" <=> Cjs(source, p[i])
  BY <1>1, <1>3, PlacedExports
<1>6. \A m \in Kept(source) : m \in Nat /\ source[m].id = m
  BY <1>1, KeptRange
<1>7. \A m \in Kept(source) : \E i \in 1..Len(body) : p[i] = m
  BY <1>1, <1>3, PlacedPart
<1>8. \A i, j \in 1..Len(body) : i < j => p[i] = p[j] \/ MayPrecede(source, p[i], p[j])
  BY <1>3 DEF Placed
<1>9. Kept(source) = {m \in 1..Len(source) : source[m].is = "worklet" => m > Prologue(source)}
  BY DEF Kept
<1>10. {body[m].id : m \in 1..Len(body)} = {source[m].id : m \in Kept(source)}
  BY <1>4, <1>6, <1>7
<1>11. ASSUME NEW m \in 1..Len(body), NEW n \in 1..Len(body), m < n,
              body[m].is = "cjs" <=> body[n].is = "cjs"
       PROVE  body[m].id <= body[n].id
  <2>1. p[m] \in Nat /\ p[n] \in Nat /\ body[m].id = p[m] /\ body[n].id = p[n]
    BY <1>4, <1>6
  <2>2. p[m] = p[n] \/ p[m] < p[n]
    BY <1>5, <1>8, <1>11 DEF MayPrecede
  <2>3. QED
    BY <2>1, <2>2
<1>12. ASSUME HasFileDirective(source), NEW m \in 1..Len(body), NEW n \in 1..Len(body),
              body[m].is = "cjs", body[n].is # "cjs"
       PROVE  n < m
  <2>1. Cjs(source, p[m]) /\ ~Cjs(source, p[n])
    BY <1>5, <1>12
  <2>2. ~(m < n)
    BY <1>8, <1>12, <2>1 DEF MayPrecede
  <2>3. m # n
    BY <1>12
  <2>4. QED
    BY <2>2, <2>3
<1>13. QED
  BY <1>9, <1>10, <1>11, <1>12 DEF ItemsInOrder

(* Whatever file: the CommonJS exports move behind the declarations of a   *)
(* 'worklet' file, nothing else moves, and nothing but the directive goes. *)
THEOREM OrderAlwaysKept == Spec => []ItemsInOrder
BY AlwaysBody, BodyInOrder, PTL

(* What an item of a program exports, and under which name.                *)
ExportOf(item) == <<item.export, IF item.export = "named" THEN item.name ELSE None>>

(* What a program exports, item by item.                                   *)
LEMMA ExportedNamesIn ==
  ASSUME NEW items, NEW e
  PROVE  e \in ExportedNames(items) <=>
           \E m \in 1..Len(items) : \/ items[m].export # "no" /\ e = ExportOf(items[m])
                                    \/ items[m].is = "exportDefault" /\ e = <<"default", None>>
BY DEF ExportedNames, ExportOf

(* The directive itself exports nothing.                                   *)
LEMMA KeptExports ==
  ASSUME NEW s, IsProgram(s), NEW m \in 1..Len(s),
         s[m].export # "no" \/ s[m].is \in {"exportDefault", "class"}
  PROVE  m \in Kept(s)
<1>1. s[m] \in Items
  BY DEF IsProgram
<1>2. s[m].is # "worklet"
  BY <1>1, ItemFacts
<1>3. QED
  BY <1>2 DEF Kept

(* The rewrites of the top level export what the source exported.          *)
LEMMA SameExports ==
  ASSUME NEW s, IsProgram(s), NEW legacy, NEW ra3, NEW classes, NEW r, NEW p, NEW o,
         Placed(r, s, legacy, ra3, classes, p, o)
  PROVE  ExportedNames(r) = ExportedNames(s)
<1>1. ASSUME NEW e, e \in ExportedNames(r) PROVE e \in ExportedNames(s)
  <2>1. PICK i \in 1..Len(r) : \/ r[i].export # "no" /\ e = ExportOf(r[i])
                               \/ r[i].is = "exportDefault" /\ e = <<"default", None>>
    BY <1>1, ExportedNamesIn
  <2> DEFINE item == AsFiled(s, p[i], legacy, ra3)
             m == p[i]
  <2>2. m \in Kept(s) /\ m \in 1..Len(s)
    BY PlacedItem, KeptRange
  <2>3. item \in Items /\ item.is = s[m].is /\ item.name = s[m].name /\ item.export = s[m].export
    BY <2>2, FiledItem
  <2>4. CASE ~IsLowered(item, classes)
    <3>1. r[i] = item
      BY <2>4, PlacedItem
    <3> HIDE DEF item, m
    <3>2. \/ s[m].export # "no" /\ e = ExportOf(s[m])
          \/ s[m].is = "exportDefault" /\ e = <<"default", None>>
      BY <2>1, <2>3, <3>1 DEF ExportOf
    <3>3. QED
      BY <2>2, <3>2, ExportedNamesIn
  <2>5. CASE IsLowered(item, classes)
    <3> DEFINE x == IF item.export = "default" THEN "no" ELSE item.export
    <3>1. r[i] = Factory(item) \/ r[i] = CallOf(item, x) \/ (item.export = "default" /\ r[i] = DefaultOf(item))
      BY <2>5, PlacedItem
    <3>2. IsWorkletClass(item) /\ item.is = "class" /\ item.export \in {"no", "named", "default"}
      BY <2>3, <2>5, ItemFacts DEF IsLowered, IsWorkletClass, Exports
    <3>3. x \in Exports
      BY <3>2 DEF Exports
    <3>4. /\ Factory(item).export = "no" /\ Factory(item).is = "fnDecl"
          /\ CallOf(item, x).export = x /\ CallOf(item, x).is = "var" /\ CallOf(item, x).name = item.name
          /\ DefaultOf(item).export = item.export
      BY <2>3, <3>2, <3>3, FactoryItem, CallItem, DefaultItem
    <3> HIDE DEF item, m
    <3>5. e = ExportOf(s[m]) /\ s[m].export # "no"
      <4>1. CASE item.export = "default"
        <5>1. r[i] = DefaultOf(item)
          BY <2>1, <3>1, <3>4, <4>1
        <5>2. e = <<"default", None>>
          BY <2>1, <3>4, <4>1, <5>1 DEF ExportOf
        <5>3. QED
          BY <2>3, <4>1, <5>2 DEF ExportOf
      <4>2. CASE item.export # "default"
        <5>1. r[i] = CallOf(item, x) /\ x = item.export
          BY <2>1, <3>1, <3>4, <4>2
        <5>2. e = ExportOf(CallOf(item, x)) /\ x # "no"
          BY <2>1, <3>4, <5>1
        <5>3. QED
          BY <2>3, <3>4, <5>1, <5>2 DEF ExportOf
      <4>3. QED
        BY <4>1, <4>2
    <3>6. QED
      BY <2>2, <3>5, ExportedNamesIn
  <2>6. QED
    BY <2>4, <2>5
<1>2. ASSUME NEW e, e \in ExportedNames(s) PROVE e \in ExportedNames(r)
  <2>1. PICK m \in 1..Len(s) : \/ s[m].export # "no" /\ e = ExportOf(s[m])
                               \/ s[m].is = "exportDefault" /\ e = <<"default", None>>
    BY <1>2, ExportedNamesIn
  <2> DEFINE item == AsFiled(s, m, legacy, ra3)
  <2>2. m \in Kept(s)
    BY <2>1, KeptExports
  <2>3. item \in Items /\ item.is = s[m].is /\ item.name = s[m].name /\ item.export = s[m].export
    BY <2>2, FiledItem
  <2>4. CASE ~IsLowered(item, classes)
    <3>1. PICK i \in 1..Len(r) : r[i] = item
      BY <2>2, <2>4, PlacedPart
    <3> HIDE DEF item
    <3>2. \/ r[i].export # "no" /\ e = ExportOf(r[i])
          \/ r[i].is = "exportDefault" /\ e = <<"default", None>>
      BY <2>1, <2>3, <3>1 DEF ExportOf
    <3>3. QED
      BY <3>2, ExportedNamesIn
  <2>5. CASE IsLowered(item, classes)
    <3>1. IsWorkletClass(item) /\ item.is = "class" /\ item.export \in {"no", "named", "default"}
      BY <2>3, <2>5, ItemFacts DEF IsLowered, IsWorkletClass, Exports
    <3>2. item.export # "no" /\ e = ExportOf(item)
      <4> HIDE DEF item
      <4>1. QED
        BY <2>1, <2>3, <3>1 DEF ExportOf
    <3>3. CASE item.export = "default"
      <4>1. PICK i \in 1..Len(r) : r[i] = DefaultOf(item)
        BY <2>2, <2>5, <3>3, PlacedPart
      <4>2. DefaultOf(item).export = "default"
        BY <2>3, <3>1, <3>3, DefaultItem
      <4> HIDE DEF item
      <4>3. r[i].export # "no" /\ e = ExportOf(r[i])
        BY <3>2, <3>3, <4>1, <4>2 DEF ExportOf
      <4>4. QED
        BY <4>3, ExportedNamesIn
    <3>4. CASE item.export # "default"
      <4>1. PICK i \in 1..Len(r) : r[i] = CallOf(item, item.export)
        BY <2>2, <2>5, <3>4, PlacedPart
      <4>2. item.export \in Exports
        BY <3>1 DEF Exports
      <4>3. CallOf(item, item.export).export = item.export /\ CallOf(item, item.export).name = item.name
        BY <2>3, <3>1, <4>2, CallItem
      <4> HIDE DEF item
      <4>4. r[i].export # "no" /\ e = ExportOf(r[i])
        BY <3>2, <4>1, <4>3 DEF ExportOf
      <4>5. QED
        BY <4>4, ExportedNamesIn
    <3>5. QED
      BY <3>3, <3>4
  <2>6. QED
    BY <2>4, <2>5
<1>3. QED
  BY <1>1, <1>2

(* The factory of a class is marked.                                       *)
LEMMA FactoryMarked ==
  ASSUME NEW b, NEW s, IsProgram(s), NEW m \in Kept(s),
         IsLowered(AsFiled(s, m, Lgc(b), R3(b)), Cls(b))
  PROVE  <<m, 0, 0>> \in MarkedOf(b, s)
<1> DEFINE item == AsFiled(s, m, Lgc(b), R3(b))
           f == FiledOf(b, s)
<1>1. \E g : Ordered(f, s, Lgc(b), R3(b), g)
  BY FiledOrdered DEF FiledOf
<1>2. PICK g : Ordered(f, s, Lgc(b), R3(b), g)
  BY <1>1
<1>3. PICK i \in 1..Len(f) : g[i] = m /\ f[i] = item
  BY <1>2 DEF Ordered
<1>4. item.id = m
  BY FiledItem
<1>5. Cls(b) /\ IsWorkletClass(item)
  BY DEF IsLowered
<1> HIDE DEF item, f
<1>6. <<m, 0, 0>> \in LoweredIn(f, Cls(b))
  BY <1>3, <1>4, <1>5 DEF LoweredIn
<1>7. QED
  BY <1>6 DEF MarkedOf, f

(* ClassesReplaced follows from what the program and the marks are.        *)
LEMMA BodyClasses == ASSUME BodyInv PROVE ClassesReplaced
<1> SUFFICES ASSUME phase = "done" PROVE ClassesReplaced
  BY DEF ClassesReplaced
<1>1. phase \in Late /\ IsProgram(source) /\ build \in Build
  BY DEF Late, BodyInv, BodyAt
<1>p. PICK p : \E o : PlacedNow(p, o)
  BY <1>1, BodyPlaced
<1>2. PICK o : PlacedNow(p, o)
  BY <1>p
<1>3. Placed(body, source, Lgc(build), R3(build), Cls(build), p, o)
  BY <1>2 DEF PlacedNow
<1>4. ExportedNames(body) = ExportedNames(source)
  BY <1>1, <1>3, SameExports
<1>5. MarkedOf(build, source) \subseteq directives
  BY DEF BodyInv, BodyAt
<1>6. ASSUME Cls(build), NEW m \in 1..Len(source), source[m].is = "class", source[m].name # None,
             source[m].marked \/ HasFileDirective(source)
      PROVE  \E f, c \in 1..Len(body) :
                /\ f < c /\ body[f].id = source[m].id /\ body[c].id = source[m].id
                /\ body[f].is = "fnDecl" /\ <<body[f].id, 0, 0>> \in directives
                /\ body[c].is = "var" /\ body[c].name = source[m].name
                /\ \A n \in 1..Len(body) :
                     body[n].is = "exportDefault" /\ body[n].id = source[m].id => c < n
  <2> DEFINE item == AsFiled(source, m, Lgc(build), R3(build))
             x == IF item.export = "default" THEN "no" ELSE item.export
  <2>1. m \in Kept(source) /\ source[m].id = m
    BY <1>1, <1>6, KeptExports, KeptRange
  <2>2. Lgc(build)
    BY <1>1, <1>6 DEF Cls, R3, Lgc, Build
  <2>3. /\ item \in Items /\ item.id = m /\ item.is = "class" /\ item.name = source[m].name
        /\ item.marked
    <3>1. /\ item \in Items /\ item.id = m /\ item.is = source[m].is /\ item.name = source[m].name
          /\ item.is = "class" /\ source[m].marked => item.marked
          /\ item.is = "class" /\ HasFileDirective(source) /\ Lgc(build) => item.marked
      BY <1>1, <2>1, FiledItem
    <3> HIDE DEF item
    <3>2. QED
      BY <1>6, <2>2, <3>1
  <2>4. IsWorkletClass(item) /\ IsLowered(item, Cls(build))
    <3> HIDE DEF item
    <3>1. QED
      BY <1>6, <2>3 DEF IsWorkletClass, IsLowered
  <2>5. PICK f \in 1..Len(body) : p[f] = m /\ o[f] = 1 /\ body[f] = Factory(item)
    BY <1>1, <1>3, <2>1, <2>4, PlacedPart
  <2>6. PICK c \in 1..Len(body) : p[c] = m /\ o[c] = 2 /\ body[c] = CallOf(item, x)
    BY <1>1, <1>3, <2>1, <2>4, PlacedPart
  <2>7. x \in Exports
    BY <2>3, ItemFacts DEF Exports
  <2>8. /\ body[f].id = m /\ body[f].is = "fnDecl"
        /\ body[c].id = m /\ body[c].is = "var" /\ body[c].name = source[m].name
    <3>1. Factory(item).id = item.id /\ Factory(item).is = "fnDecl"
      BY <2>3, <2>4, FactoryItem
    <3>2. CallOf(item, x).id = item.id /\ CallOf(item, x).is = "var" /\ CallOf(item, x).name = item.name
      BY <2>3, <2>4, <2>7, CallItem
    <3> HIDE DEF item, x
    <3>3. QED
      BY <2>3, <2>5, <2>6, <3>1, <3>2
  <2>9. <<m, 0, 0>> \in directives
    BY <1>1, <1>5, <2>1, <2>4, FactoryMarked
  <2>10. \A i, j \in 1..Len(body) : i < j => (p[i] = p[j] /\ o[i] < o[j]) \/ MayPrecede(source, p[i], p[j])
    BY <1>3 DEF Placed
  <2>11. ASSUME NEW i \in 1..Len(body), NEW j \in 1..Len(body), p[i] = m, p[j] = m, o[i] < o[j]
         PROVE  i < j
    <3>1. o[i] \in Nat /\ o[j] \in Nat
      BY <1>3 DEF Placed
    <3>2. ~(j < i)
      BY <2>10, <2>11, <3>1 DEF MayPrecede
    <3>3. i # j
      BY <2>11, <3>1
    <3>4. QED
      BY <3>2, <3>3
  <2>12. f < c
    BY <2>5, <2>6, <2>11
  <2>13. ASSUME NEW n \in 1..Len(body), body[n].is = "exportDefault", body[n].id = m PROVE c < n
    <3>1. p[n] = m
      BY <1>1, <1>3, <2>13, PlacedItem
    <3>2. \/ body[n] = Factory(item) \/ body[n] = CallOf(item, x)
          \/ o[n] = 3 /\ body[n] = DefaultOf(item)
      BY <1>1, <1>3, <2>4, <3>1, PlacedItem
    <3>3. Factory(item).is = "fnDecl" /\ CallOf(item, x).is = "var"
      BY <2>3, <2>4, <2>7, FactoryItem, CallItem
    <3> HIDE DEF item, x
    <3>4. o[n] = 3
      BY <2>13, <3>2, <3>3
    <3>5. QED
      BY <2>6, <2>11, <3>1, <3>4
  <2> HIDE DEF item, x
  <2>14. QED
    BY <2>1, <2>8, <2>9, <2>12, <2>13
<1>7. QED
  BY <1>4, <1>6, OptionsOf DEF ClassesReplaced

(* Every worklet class gives a marked factory and, after it, the constant  *)
(* that calls it, and the module exports what it exported before.          *)
THEOREM ClassesAlwaysReplaced == Spec => []ClassesReplaced
BY AlwaysBody, BodyClasses, PTL

(* A nonempty set of positions has a greatest one.                         *)
LEMMA Greatest ==
  ASSUME NEW n \in Nat, NEW S \in SUBSET (1..n), S # {}
  PROVE  \E k \in S : \A j \in S : j <= k
<1> DEFINE T == {n - j : j \in S}
<1>1. T \subseteq Nat /\ T # {}
  <2>1. \A j \in S : j \in 1..n /\ n - j \in Nat
    OBVIOUS
  <2>2. T \subseteq Nat
    BY <2>1
  <2>3. PICK j \in S : TRUE
    OBVIOUS
  <2>4. n - j \in T
    OBVIOUS
  <2>5. QED
    BY <2>2, <2>4
<1>2. \E x \in T : \A y \in T : ~(<<y, x>> \in OpToRel(<, Nat))
  BY <1>1, NatLessThanWellFounded, WFMin
<1>3. PICK x \in T : \A y \in T : ~(<<y, x>> \in OpToRel(<, Nat))
  BY <1>2
<1>4. \A y \in T : ~(y < x)
  BY <1>1, <1>3 DEF OpToRel
<1>5. PICK k \in S : x = n - k
  BY DEF T
<1>6. ASSUME NEW j \in S PROVE j <= k
  <2>1. n - j \in T /\ j \in 1..n /\ k \in 1..n
    OBVIOUS
  <2>2. ~(n - j < n - k)
    BY <1>4, <1>5, <2>1
  <2>3. QED
    BY <2>1, <2>2
<1>7. QED
  BY <1>6

-----------------------------------------------------------------------------
(* The values that names have when the program runs.                       *)
Places    == Nat \X Nat \X Nat
RunValues == {None} \cup [is : {"function"}, span : Places] \cup
             [is : {"object"}, functions : SUBSET Places, spread : BOOLEAN]

(* A function is a value at run time.                                      *)
LEMMA RunFunction == ASSUME NEW i \in Nat, NEW k \in Nat, NEW j \in Nat
                     PROVE  /\ AFunction(<<i, k, j>>) \in RunValues
                            /\ AFunction(<<i, k, j>>).is = "function"
                            /\ AFunction(<<i, k, j>>).span = <<i, k, j>>
BY DEF AFunction, RunValues, Places

(* The functions of an object that is evaluated.                           *)
OwnFunctions(v, i, k) ==
  {<<i, k, j>> : j \in {j \in 1..Len(v.props) : v.props[j].is \in {"method", "thisMethod", "fn"}}}
NamedFunctions(v, env) ==
  {env[v.props[j].name].span :
     j \in {j \in 1..Len(v.props) : /\ v.props[j].is = "name"
                                    /\ env[v.props[j].name] # None
                                    /\ env[v.props[j].name].is = "function"}}
Spreads(v) == \E j \in 1..Len(v.props) : v.props[j].is = "spread"

(* What an expression evaluates to, kind by kind.                          *)
LEMMA EvaluateCases ==
  ASSUME NEW v \in Values, NEW i, NEW k, NEW env
  PROVE  /\ v.is = "name"  => Evaluate(v, i, k, env) = env[v.name]
         /\ v.is = "other" => Evaluate(v, i, k, env) = None
         /\ v.is = "object" =>
              Evaluate(v, i, k, env) =
                AnObjectOf(OwnFunctions(v, i, k) \cup NamedFunctions(v, env), Spreads(v))
         /\ v.is \in {"fn", "paren", "generated"} => Evaluate(v, i, k, env) = AFunction(<<i, k, 0>>)
BY DEF Evaluate, OwnFunctions, NamedFunctions, Spreads

(* An expression evaluates to a value at run time.                         *)
LEMMA EvaluateType ==
  ASSUME NEW v \in Values, NEW i \in Nat, NEW k \in Nat, NEW env \in [Names -> RunValues]
  PROVE  Evaluate(v, i, k, env) \in RunValues
<1>1. v.is \in ValueKinds /\ v.props \in Seq(Props) /\ (v.is = "name" => v.name \in Names)
  BY ValueFacts
<1>2. CASE v.is = "name"
  BY <1>1, <1>2, EvaluateCases
<1>3. CASE v.is = "other"
  <2>1. None \in RunValues
    BY DEF RunValues
  <2>2. Evaluate(v, i, k, env) = None
    BY <1>3, EvaluateCases
  <2>3. QED
    BY <2>1, <2>2
<1>4. CASE v.is = "object"
  <2> DEFINE F == OwnFunctions(v, i, k) \cup NamedFunctions(v, env)
  <2>1. \A j \in 1..Len(v.props) : j \in Nat /\ v.props[j] \in Props
    BY <1>1
  <2>2. OwnFunctions(v, i, k) \subseteq Places
    BY <2>1 DEF OwnFunctions, Places
  <2>3. ASSUME NEW j \in 1..Len(v.props), v.props[j].is = "name", env[v.props[j].name] # None,
               env[v.props[j].name].is = "function"
        PROVE  env[v.props[j].name].span \in Places
    <3> DEFINE n == v.props[j].name
    <3>1. n \in Names
      BY <2>1, <2>3 DEF Props
    <3> HIDE DEF n
    <3>2. env[n] \in RunValues
      BY <3>1
    <3> DEFINE w == env[n]
    <3>3. w # None /\ w.is = "function"
      BY <2>3 DEF n
    <3> HIDE DEF w
    <3>4. w \in RunValues
      BY <3>2 DEF w
    <3>5. w.span \in Places
      BY <3>3, <3>4 DEF RunValues
    <3>6. QED
      BY <3>5 DEF n, w
  <2>4. NamedFunctions(v, env) \subseteq Places
    BY <2>3 DEF NamedFunctions
  <2>5. Spreads(v) \in BOOLEAN
    BY DEF Spreads
  <2>6. F \in SUBSET Places
    BY <2>2, <2>4
  <2> HIDE DEF F
  <2>7. AnObjectOf(F, Spreads(v)) \in RunValues
    BY <2>5, <2>6 DEF AnObjectOf, RunValues
  <2>8. QED
    BY <1>4, <2>7, EvaluateCases DEF F
<1>5. CASE v.is \in {"fn", "paren", "generated"}
  <2>1. Evaluate(v, i, k, env) = AFunction(<<i, k, 0>>)
    BY <1>5, EvaluateCases
  <2>2. 0 \in Nat
    OBVIOUS
  <2>3. AFunction(<<i, k, 0>>) \in RunValues
    BY <2>2, RunFunction
  <2>4. QED
    BY <2>1, <2>3
<1>6. QED
  BY <1>1, <1>2, <1>3, <1>4, <1>5 DEF ValueKinds

(* Executing an item leaves every name with a value.                       *)
LEMMA ExecuteType ==
  ASSUME NEW item \in BodyItems, NEW env \in [Names -> RunValues]
  PROVE  Execute(item, env) \in [Names -> RunValues]
<1>1. item.id \in Nat /\ item.value \in Values
  BY BodyFacts
<1>2. None \in RunValues
  BY DEF RunValues
<1>3. CASE item.is \in {"var", "assign"}
  <2> DEFINE v == Evaluate(item.value, item.id, 0, env)
  <2>1. v \in RunValues
    BY <1>1, EvaluateType
  <2>2. Execute(item, env) = [env EXCEPT ![item.name] = v]
    BY <1>3 DEF Execute
  <2> HIDE DEF v
  <2>3. QED
    BY <2>1, <2>2
<1>4. CASE item.is = "update"
  BY <1>2, <1>4 DEF Execute
<1>5. CASE item.is \notin {"var", "assign", "update"}
  BY <1>5 DEF Execute
<1>6. QED
  BY <1>3, <1>4, <1>5

(* A hoisted name is a declared function, or has no value.                 *)
LEMMA HoistedCases ==
  ASSUME NEW items \in Seq(BodyItems), NEW n \in Names
  PROVE  \/ Indices(items, "fnDecl", n) = {} /\ Hoisted(items)[n] = None
         \/ \E m \in Indices(items, "fnDecl", n) : Hoisted(items)[n] = AFunction(<<items[m].id, 0, 0>>)
<1> DEFINE S == Indices(items, "fnDecl", n)
           m == CHOOSE m \in S : \A o \in S : o <= m
<1>1. CASE S = {}
  BY <1>1 DEF Hoisted
<1>2. CASE S # {}
  <2>1. Len(items) \in Nat /\ S \in SUBSET (1..Len(items))
    BY DEF Indices
  <2> HIDE DEF S
  <2>2. \E k \in S : \A j \in S : j <= k
    BY <1>2, <2>1, Greatest
  <2>3. m \in S
    BY <2>2
  <2>4. Hoisted(items)[n] = AFunction(<<items[m].id, 0, 0>>)
    BY <1>2 DEF Hoisted, S
  <2>5. QED
    BY <2>3, <2>4 DEF S
<1>3. QED
  BY <1>1, <1>2

(* Hoisting gives every name a value.                                      *)
LEMMA HoistedType ==
  ASSUME NEW items \in Seq(BodyItems)
  PROVE  Hoisted(items) \in [Names -> RunValues]
<1>1. ASSUME NEW n \in Names PROVE Hoisted(items)[n] \in RunValues
  <2>1. CASE Hoisted(items)[n] = None
    BY <2>1 DEF RunValues
  <2>2. CASE \E m \in Indices(items, "fnDecl", n) : Hoisted(items)[n] = AFunction(<<items[m].id, 0, 0>>)
    <3>1. PICK m \in 1..Len(items) : Hoisted(items)[n] = AFunction(<<items[m].id, 0, 0>>)
      BY <2>2 DEF Indices
    <3>2. items[m].id \in Nat
      BY BodyFacts
    <3>3. QED
      BY <3>1, <3>2, RunFunction
  <2>3. QED
    BY <2>1, <2>2, HoistedCases
<1>2. Hoisted(items) = [n \in Names |-> Hoisted(items)[n]]
  BY DEF Hoisted
<1>3. QED
  BY <1>1, <1>2

(* The environments are what they are said to be.                          *)
LEMMA EnvironmentsDef ==
  ASSUME NEW items \in Seq(BodyItems)
  PROVE  /\ Environments(items) \in [0..Len(items) -> [Names -> RunValues]]
         /\ Environments(items)[0] = Hoisted(items)
         /\ \A m \in 1..Len(items) : Environments(items)[m] = Execute(items[m], Environments(items)[m - 1])
<1> DEFINE N == Len(items)
           X == [Names -> RunValues]
           x == Hoisted(items)
           E == CHOOSE f : f = [m \in 0..N |-> IF m = 0 THEN Hoisted(items) ELSE Execute(items[m], f[m - 1])]
           step == [m \in 1..N |-> [e \in X |-> Execute(items[m], e)]]
<1>1. N \in Nat /\ x \in X /\ Environments(items) = E
  BY HoistedType DEF Environments
<1>2. \A m \in 1..N : \A e \in X : Execute(items[m], e) \in X
  BY ExecuteType
<1> HIDE DEF N, X
<1>3. step \in [1..N -> [X -> X]]
  BY <1>2
<1>4. \A m \in 1..N : \A e \in X : step[m][e] = Execute(items[m], e)
  OBVIOUS
<1> HIDE DEF step, x
<1>5. PICK f : Recursive(f, X, N, x, step)
  BY <1>1, <1>3, Recursion
<1>6. f \in [0..N -> X] /\ \A m \in 0..N : f[m] = IF m = 0 THEN x ELSE step[m][f[m - 1]]
  BY <1>5 DEF Recursive
<1>7. \A m \in 0..N : m # 0 => m \in 1..N /\ m - 1 \in 0..N
  BY <1>1
<1>8. \A m \in 0..N : f[m] = IF m = 0 THEN Hoisted(items) ELSE Execute(items[m], f[m - 1])
  BY <1>4, <1>6, <1>7 DEF x
<1>9. f = [m \in 0..N |-> f[m]]
  BY <1>6
<1>10. f = [m \in 0..N |-> IF m = 0 THEN Hoisted(items) ELSE Execute(items[m], f[m - 1])]
  BY <1>8, <1>9
<1>11. E = [m \in 0..N |-> IF m = 0 THEN Hoisted(items) ELSE Execute(items[m], E[m - 1])]
  BY <1>10
<1> HIDE DEF E
<1>12. DOMAIN E = 0..N /\ \A m \in 0..N : E[m] = IF m = 0 THEN Hoisted(items) ELSE Execute(items[m], E[m - 1])
  BY <1>11
<1> DEFINE T == {m \in 0..N : E[m] \in X}
<1>13. 0 \in T
  BY <1>1, <1>12 DEF x
<1>14. ASSUME NEW m \in 1..N, m - 1 \in T PROVE m \in T
  <2>1. m \in 0..N /\ m # 0 /\ E[m - 1] \in X
    BY <1>1, <1>14
  <2>2. QED
    BY <1>2, <1>12, <2>1
<1>15. \A m \in 0..N : m \in T
  <2> HIDE DEF T
  <2>1. QED
    BY <1>1, <1>13, <1>14, Throughout
<1>16. E = [m \in 0..N |-> E[m]]
  BY <1>11
<1>17. E \in [0..N -> X]
  BY <1>15, <1>16
<1>18. 0 \in 0..N /\ \A m \in 1..N : m \in 0..N /\ m # 0
  BY <1>1
<1>19. E[0] = Hoisted(items) /\ \A m \in 1..N : E[m] = Execute(items[m], E[m - 1])
  BY <1>12, <1>18
<1>20. QED
  BY <1>1, <1>17, <1>19 DEF N, X

FunctionKinds == {"fn", "paren", "generated"}

(* A function value that a top-level item is, or is given by its value.    *)
FunctionItem(item) == \/ item.is = "fnDecl"
                      \/ item.is \in {"var", "assign", "exportDefault", "cjs"} /\ item.value.is \in FunctionKinds

Written(v) == v # None /\ v.is = "function" =>
                \E j \in 1..Len(body) : v.span = <<body[j].id, 0, 0>> /\ FunctionItem(body[j])

(* A value comes from a name, or its function is the item's own.           *)
LEMMA EvaluateWritten ==
  ASSUME body \in Seq(BodyItems), NEW j \in 1..Len(body),
         \/ body[j].is \in {"var", "assign", "exportDefault", "cjs"}
         \/ body[j].value.is = "name",
         NEW env \in [Names -> RunValues], \A n \in Names : Written(env[n])
  PROVE  Written(Evaluate(body[j].value, body[j].id, 0, env))
<1> DEFINE v == body[j].value
           x == Evaluate(v, body[j].id, 0, env)
<1>1. body[j] \in BodyItems
  OBVIOUS
<1>2. v \in Values /\ body[j].id \in Nat
  BY <1>1, BodyFacts
<1>3. v.is \in ValueKinds /\ (v.is = "name" => v.name \in Names)
  BY <1>2, ValueFacts
<1> DEFINE id == body[j].id
<1>9. /\ v.is = "name"  => Evaluate(v, id, 0, env) = env[v.name]
      /\ v.is = "object" =>
           Evaluate(v, id, 0, env) = AnObjectOf(OwnFunctions(v, id, 0) \cup NamedFunctions(v, env), Spreads(v))
  <2> HIDE DEF v, id
  <2>1. QED
    BY <1>2, EvaluateCases
<1>4. CASE v.is = "name"
  <2>1. x = env[v.name]
    BY <1>4, <1>9
  <2>2. QED
    BY <1>3, <1>4, <2>1
<1>5. CASE v.is = "other"
  <2>1. x = None
    BY <1>2, <1>5, EvaluateCases
  <2>2. QED
    BY <2>1 DEF Written
<1>6. CASE v.is = "object"
  <2> DEFINE F == OwnFunctions(v, body[j].id, 0) \cup NamedFunctions(v, env)
  <2>1. x = AnObjectOf(F, Spreads(v))
    BY <1>6, <1>9
  <2>2. x.is = "object"
    BY <2>1 DEF AnObjectOf
  <2>3. QED
    BY <2>2 DEF Written
<1>7. CASE v.is \in FunctionKinds
  <2>1. x = AFunction(<<body[j].id, 0, 0>>)
    BY <1>2, <1>7, EvaluateCases DEF FunctionKinds
  <2>2. x.span = <<body[j].id, 0, 0>>
    BY <2>1 DEF AFunction
  <2>3. body[j].is \in {"var", "assign", "exportDefault", "cjs"}
    BY <1>7 DEF FunctionKinds
  <2>4. FunctionItem(body[j])
    BY <1>7, <2>3 DEF FunctionItem
  <2> HIDE DEF x, v
  <2>5. \E k \in 1..Len(body) : x.span = <<body[k].id, 0, 0>> /\ FunctionItem(body[k])
    BY <2>2, <2>4
  <2>6. Written(x)
    BY <2>5 DEF Written
  <2>7. QED
    BY <2>6 DEF x, v
<1>8. QED
  BY <1>3, <1>4, <1>5, <1>6, <1>7 DEF ValueKinds, FunctionKinds

(* Every function that a name has as its value is an item's own.           *)
LEMMA EnvironmentsWritten ==
  ASSUME body \in Seq(BodyItems)
  PROVE  \A m \in 0..Len(body) : \A n \in Names : Written(Environments(body)[m][n])
<1> DEFINE N == Len(body)
           T == {m \in 0..N : \A n \in Names : Written(Environments(body)[m][n])}
<1>1. /\ Environments(body) \in [0..N -> [Names -> RunValues]] /\ Environments(body)[0] = Hoisted(body)
      /\ \A m \in 1..N : Environments(body)[m] = Execute(body[m], Environments(body)[m - 1])
  BY EnvironmentsDef
<1>2. N \in Nat /\ \A m \in 1..N : m \in 0..N /\ m - 1 \in 0..N /\ body[m] \in BodyItems
  OBVIOUS
<1>3. Written(None)
  BY DEF Written
<1>4. 0 \in T
  <2>1. ASSUME NEW n \in Names PROVE Written(Hoisted(body)[n])
    <3>1. CASE Hoisted(body)[n] = None
      BY <1>3, <3>1
    <3>2. CASE \E m \in Indices(body, "fnDecl", n) : Hoisted(body)[n] = AFunction(<<body[m].id, 0, 0>>)
      <4>1. PICK m \in 1..N : body[m].is = "fnDecl" /\ Hoisted(body)[n] = AFunction(<<body[m].id, 0, 0>>)
        BY <3>2 DEF Indices
      <4>2. Hoisted(body)[n].span = <<body[m].id, 0, 0>> /\ FunctionItem(body[m])
        BY <4>1 DEF AFunction, FunctionItem
      <4>3. QED
        BY <4>2 DEF Written
    <3>3. QED
      BY <3>1, <3>2, HoistedCases
  <2>2. QED
    BY <1>1, <1>2, <2>1
<1>5. ASSUME NEW m \in 1..N, m - 1 \in T PROVE m \in T
  <2> DEFINE env == Environments(body)[m - 1]
             item == body[m]
             v == Evaluate(item.value, item.id, 0, env)
  <2>1. env \in [Names -> RunValues] /\ (\A n \in Names : Written(env[n])) /\ item \in BodyItems
    BY <1>1, <1>2, <1>5
  <2>2. Environments(body)[m] = Execute(item, env)
    BY <1>1
  <2>3. item.is \in {"var", "assign"} => Written(v)
    <3>1. SUFFICES ASSUME item.is \in {"var", "assign"} PROVE Written(v)
      OBVIOUS
    <3> HIDE DEF env
    <3>2. QED
      BY <2>1, <3>1, EvaluateWritten
  <2> HIDE DEF env, item, v
  <2>4. ASSUME NEW n \in Names PROVE Written(Environments(body)[m][n])
    <3>1. CASE item.is \in {"var", "assign"}
      <4>1. Environments(body)[m] = [env EXCEPT ![item.name] = v]
        BY <2>2, <3>1 DEF Execute, v
      <4>2. Environments(body)[m][n] = IF n = item.name THEN v ELSE env[n]
        BY <2>1, <4>1
      <4>3. QED
        BY <2>1, <2>3, <3>1, <4>2
    <3>2. CASE item.is = "update"
      <4>1. Environments(body)[m] = [env EXCEPT ![item.name] = None]
        BY <2>2, <3>2 DEF Execute
      <4>2. Environments(body)[m][n] = IF n = item.name THEN None ELSE env[n]
        BY <2>1, <4>1
      <4>3. QED
        BY <1>3, <2>1, <4>2
    <3>3. CASE item.is \notin {"var", "assign", "update"}
      <4>1. Environments(body)[m] = env
        BY <2>2, <3>3 DEF Execute
      <4>2. QED
        BY <2>1, <4>1
    <3>4. QED
      BY <3>1, <3>2, <3>3
  <2>5. QED
    BY <1>2, <2>4
<1>6. \A m \in 0..N : m \in T
  <2> HIDE DEF T
  <2>1. QED
    BY <1>2, <1>4, <1>5, Throughout
<1>7. QED
  BY <1>6

(* A value that leaves the module.                                         *)
LEMMA ExportedWritten ==
  ASSUME body \in Seq(BodyItems), NEW v \in ExportedValues
  PROVE  Written(v)
<1> DEFINE end == Environments(body)[Len(body)]
<1>1. Len(body) \in Nat /\ Len(body) \in 0..Len(body)
  OBVIOUS
<1>2. end \in [Names -> RunValues] /\ \A n \in Names : Written(end[n])
  BY <1>1, EnvironmentsDef, EnvironmentsWritten
<1> HIDE DEF end
<1>3. CASE \E i \in 1..Len(body) : /\ body[i].export # "no" /\ body[i].is \in {"fnDecl", "var"}
                                   /\ v = end[body[i].name]
  <2>1. PICK i \in 1..Len(body) : /\ body[i].export # "no" /\ body[i].is \in {"fnDecl", "var"}
                                  /\ v = end[body[i].name]
    BY <1>3
  <2>2. body[i].name \in Names
    <3>1. body[i] \in BodyItems
      OBVIOUS
    <3>2. QED
      BY <2>1, <3>1, BodyFacts
  <2>3. QED
    BY <1>2, <2>1, <2>2
<1>4. CASE \E i \in 1..Len(body) : /\ body[i].is \in {"exportDefault", "cjs"}
                                   /\ v = Evaluate(body[i].value, body[i].id, 0, end)
  <2>1. PICK i \in 1..Len(body) : /\ body[i].is \in {"exportDefault", "cjs"}
                                  /\ v = Evaluate(body[i].value, body[i].id, 0, end)
    BY <1>4
  <2>2. QED
    BY <1>2, <2>1, EvaluateWritten
<1>5. QED
  BY <1>3, <1>4 DEF ExportedValues, end

(* In a 'worklet' file the functions of declarations, variables and the    *)
(* default export are marked.                                              *)
LEMMA InjectedFunction ==
  ASSUME NEW b \in Build, NEW s, IsProgram(s), HasFileDirective(s), NEW m \in Kept(s),
         FunctionItem(s[m]), s[m].is \notin {"assign", "cjs"}, s[m].value.is # "paren"
  PROVE  <<m, 0, 0>> \in MarkedOf(b, s)
<1>1. s[m] \in Items /\ m \in 1..Len(s) /\ s[m].id = m
  BY KeptRange
<1>2. <<m, 0, 0>> \in InjectedIn(s[m], R3(b))
  <2>1. CASE s[m].is = "fnDecl"
    BY <1>1, <2>1 DEF InjectedIn
  <2>2. CASE s[m].is \in {"var", "exportDefault"}
    <3> DEFINE v == s[m].value
    <3>1. v.is \in {"fn", "generated"}
      BY <2>2 DEF FunctionItem, FunctionKinds
    <3>2. FunctionsOf(v, m, 0) = {<<m, 0, 0>>}
      BY <3>1 DEF FunctionsOf
    <3>3. Injected(v, m, R3(b)) = FunctionsOf(v, m, 0)
      BY <3>1 DEF Injected, IsContextObject
    <3>4. InjectedIn(s[m], R3(b)) = Injected(v, m, R3(b))
      BY <1>1, <2>2 DEF InjectedIn
    <3>5. QED
      BY <3>2, <3>3, <3>4
  <2>3. QED
    BY <2>1, <2>2 DEF FunctionItem
<1>3. <<m, 0, 0>> \in Injections(s, R3(b))
  BY <1>1, <1>2 DEF Injections
<1>4. QED
  BY <1>3 DEF MarkedOf

(* ExportedFunctionsMarked follows from what the program and the marks are.*)
LEMMA BodyExports == ASSUME BodyInv PROVE ExportedFunctionsMarked
<1> SUFFICES ASSUME phase = "done", HasFileDirective(source),
                    NEW v \in ExportedValues, v # None, v.is = "function", ~PassedOver(v.span)
             PROVE  v.span \in directives
  BY DEF ExportedFunctionsMarked
<1>1. phase \in Late /\ IsProgram(source) /\ build \in Build /\ MarkedOf(build, source) \subseteq directives
  BY DEF Late, BodyInv, BodyAt
<1>p. PICK p : \E o : PlacedNow(p, o)
  BY <1>1, BodyPlaced
<1>2. PICK o : PlacedNow(p, o)
  BY <1>p
<1>3. Placed(body, source, Lgc(build), R3(build), Cls(build), p, o)
  BY <1>2 DEF PlacedNow
<1>4. body \in Seq(BodyItems)
  BY <1>1, BodyPlaced
<1>5. PICK j \in 1..Len(body) : v.span = <<body[j].id, 0, 0>> /\ FunctionItem(body[j])
  BY <1>4, ExportedWritten DEF Written
<1>6. body[j].is \notin {"assign", "cjs"} /\ body[j].value.is # "paren"
  BY <1>5 DEF PassedOver
<1> DEFINE m == p[j]
           item == AsFiled(source, m, Lgc(build), R3(build))
<1>7. m \in Kept(source) /\ body[j].id = m
  BY <1>1, <1>3, PlacedItem
<1>8. v.span = <<m, 0, 0>>
  BY <1>5, <1>7
<1>9. CASE IsLowered(item, Cls(build))
  <2>1. <<m, 0, 0>> \in MarkedOf(build, source)
    BY <1>1, <1>7, <1>9, FactoryMarked
  <2>2. QED
    BY <1>1, <1>8, <2>1
<1>10. CASE ~IsLowered(item, Cls(build))
  <2>1. body[j] = item
    BY <1>1, <1>3, <1>10, PlacedItem
  <2>3. item.is = source[m].is /\ item.value \in {source[m].value, WithMarker(source[m].value)}
    BY <1>1, <1>7, FiledItem
  <2>4. source[m].value \in Values
    BY <1>1, <1>7, KeptRange, ItemFacts
  <2>5. item.value.is = source[m].value.is
    BY <2>3, <2>4, MarkerValue
  <2> HIDE DEF item, m
  <2>6. /\ FunctionItem(source[m]) /\ source[m].is \notin {"assign", "cjs"}
        /\ source[m].value.is # "paren"
    BY <1>5, <1>6, <2>1, <2>3, <2>5 DEF FunctionItem
  <2>7. <<m, 0, 0>> \in MarkedOf(build, source)
    BY <1>1, <1>7, <2>6, InjectedFunction
  <2>8. QED
    BY <1>1, <1>8, <2>7
<1>11. QED
  BY <1>9, <1>10

(* In a 'worklet' file the functions that leave the module are worklets:   *)
(* all but those in parentheses or casts, those that a name is assigned    *)
(* later, and those that a CommonJS export assigns without a name.         *)
THEOREM ExportsAlwaysMarked == Spec => []ExportedFunctionsMarked
BY AlwaysBody, BodyExports, PTL

Sorts == {"function", "object"}
AllNames == Sorts \X Names

(* There are two sorts of each name.                                       *)
LEMMA AllNamesFinite ==
  /\ Cardinality(Names) \in Nat /\ 2 * Cardinality(Names) \in Nat
  /\ IsFiniteSet(AllNames) /\ Cardinality(AllNames) = 2 * Cardinality(Names)
<1>1. IsFiniteSet(Names) /\ Cardinality(Names) \in Nat
  BY NamesAssumption, FS_CardinalityType
<1>2. IsFiniteSet({"object"}) /\ Cardinality({"object"}) = 1
  BY FS_Singleton
<1>3. Sorts = {"object"} \cup {"function"}
  BY DEF Sorts
<1>4. "function" \notin {"object"}
  OBVIOUS
<1>5. IsFiniteSet(Sorts) /\ Cardinality(Sorts) = 2
  BY <1>2, <1>3, <1>4, FS_AddElement
<1>6. IsFiniteSet(AllNames) /\ Cardinality(AllNames) = Cardinality(Sorts) * Cardinality(Names)
  BY <1>1, <1>5, FS_Product DEF AllNames
<1>7. QED
  BY <1>1, <1>5, <1>6

(* What may flow out of a value is a name of a sort.                       *)
LEMMA FromValueNames ==
  ASSUME NEW v \in Values, NEW w \in Sorts
  PROVE  FromValue(w, v) \subseteq AllNames
<1>1. v.is = "name" => v.name \in Names
  BY ValueFacts
<1>2. NamesIn(v) \subseteq Names
  <2>1. v.props \in Seq(Props)
    BY ValueFacts
  <2>2. \A j \in 1..Len(v.props) : v.props[j] \in Props
    BY <2>1
  <2>3. \A j \in 1..Len(v.props) : v.props[j].is = "name" => v.props[j].name \in Names
    BY <2>2 DEF Props
  <2>4. QED
    BY <1>1, <2>3 DEF NamesIn
<1>3. CASE v.is = "name"
  <2>1. FromValue(w, v) = {<<w, v.name>>}
    BY <1>3 DEF FromValue
  <2>2. QED
    BY <1>1, <1>3, <2>1 DEF AllNames
<1>4. CASE v.is = "object" /\ w = "object"
  <2>1. FromValue(w, v) = {<<"function", n>> : n \in NamesIn(v)}
    BY <1>4 DEF FromValue
  <2>2. QED
    BY <1>2, <2>1 DEF AllNames, Sorts
<1>5. CASE v.is # "name" /\ ~(v.is = "object" /\ w = "object")
  BY <1>5 DEF FromValue
<1>6. QED
  BY <1>3, <1>4, <1>5

(* What may flow out of a name is a name of a sort.                        *)
LEMMA FromNameNames ==
  ASSUME NEW items \in Seq(BodyItems), NEW r \in AllNames
  PROVE  FromName(items, r) \subseteq AllNames
<1>1. \A m \in 1..Len(items) : items[m] \in BodyItems
  OBVIOUS
<1>2. r[1] \in Sorts
  BY DEF AllNames
<1>3. \A m \in Definers(items, r[2]) : items[m].value \in Values
  BY <1>1, BodyFacts DEF Definers
<1>4. \A m \in Definers(items, r[2]) : FromValue(r[1], items[m].value) \subseteq AllNames
  BY <1>2, <1>3, FromValueNames
<1>5. QED
  BY <1>4 DEF FromName

(* The names that flow into a call's argument directly.                    *)
StartNames(items, ra3, i, k) ==
  UNION {FromValue(w, items[i].args[k]) : w \in Wanted(KindsOf(items[i], ra3))}

(* One step further.                                                       *)
Further(items, S) == S \cup UNION {FromName(items, r) : r \in S}

(* Following the names twice as often as there are names reaches all that  *)
(* can be reached: a step that adds nothing is the last one that matters.  *)
LEMMA Reaches ==
  ASSUME NEW items \in Seq(BodyItems), NEW ra3, NEW i \in 1..Len(items),
         NEW k \in 1..Len(items[i].args)
  PROVE  LET R == ReachableNames(items, ra3, i, k)
         IN  /\ R \in SUBSET AllNames
             /\ StartNames(items, ra3, i, k) \subseteq R
             /\ \A r \in R : FromName(items, r) \subseteq R
<1> DEFINE N == 2 * Cardinality(Names)
           X == SUBSET AllNames
           x == StartNames(items, ra3, i, k)
           E == CHOOSE f : f = [n \in 0..N |-> IF n = 0 THEN x
                                               ELSE f[n - 1] \cup UNION {FromName(items, r) : r \in f[n - 1]}]
           step == [n \in 1..N |-> [S \in X |-> Further(items, S)]]
<1>1. N \in Nat /\ ReachableNames(items, ra3, i, k) = E[N]
  BY AllNamesFinite DEF ReachableNames, StartNames
<1>2. x \in X
  <2>1. items[i] \in BodyItems
    OBVIOUS
  <2>2. items[i].args \in Seq(Values)
    BY <2>1, BodyFacts
  <2>3. items[i].args[k] \in Values
    BY <2>2
  <2>4. \A w \in Wanted(KindsOf(items[i], ra3)) : w \in Sorts
    BY DEF Wanted, Sorts
  <2>5. \A w \in Wanted(KindsOf(items[i], ra3)) : FromValue(w, items[i].args[k]) \subseteq AllNames
    BY <2>3, <2>4, FromValueNames
  <2>6. QED
    BY <2>5 DEF StartNames
<1>3. \A n \in 1..N : \A S \in X : Further(items, S) \in X
  BY FromNameNames DEF Further
<1> HIDE DEF N, X, x
<1>4. step \in [1..N -> [X -> X]]
  BY <1>3
<1>5. \A n \in 1..N : \A S \in X : step[n][S] = Further(items, S)
  OBVIOUS
<1> HIDE DEF step
<1>6. PICK f : Recursive(f, X, N, x, step)
  BY <1>1, <1>2, <1>4, Recursion
<1>7. f \in [0..N -> X] /\ \A n \in 0..N : f[n] = IF n = 0 THEN x ELSE step[n][f[n - 1]]
  BY <1>6 DEF Recursive
<1>8. \A n \in 0..N : n # 0 => n \in 1..N /\ n - 1 \in 0..N
  BY <1>1
<1>9. \A n \in 0..N : f[n] = IF n = 0 THEN x ELSE f[n - 1] \cup UNION {FromName(items, r) : r \in f[n - 1]}
  BY <1>5, <1>7, <1>8 DEF Further
<1>10. f = [n \in 0..N |-> f[n]]
  BY <1>7
<1>11. f = [n \in 0..N |-> IF n = 0 THEN x ELSE f[n - 1] \cup UNION {FromName(items, r) : r \in f[n - 1]}]
  BY <1>9, <1>10
<1>12. E = [n \in 0..N |-> IF n = 0 THEN x ELSE E[n - 1] \cup UNION {FromName(items, r) : r \in E[n - 1]}]
  BY <1>11
<1> HIDE DEF E
<1>13. \A n \in 0..N : E[n] = IF n = 0 THEN x ELSE Further(items, E[n - 1])
  BY <1>12 DEF Further
<1> DEFINE Closed(S) == UNION {FromName(items, r) : r \in S} \subseteq S
           T == {n \in 0..N : E[n] \in X /\ x \subseteq E[n] /\ (Closed(E[n]) \/ Cardinality(E[n]) >= n)}
<1>14. \A S \in X : IsFiniteSet(S) /\ Cardinality(S) \in Nat
  BY AllNamesFinite, FS_Subset, FS_CardinalityType DEF X
<1>15. 0 \in T
  <2>1. 0 \in 0..N /\ E[0] = x
    BY <1>1, <1>13
  <2>2. Cardinality(x) >= 0
    BY <1>2, <1>14
  <2>3. QED
    BY <1>2, <2>1, <2>2
<1>16. ASSUME NEW n \in 1..N, n - 1 \in T PROVE n \in T
  <2> DEFINE S == E[n - 1]
             U == Further(items, S)
  <2>1. n \in 0..N /\ n # 0 /\ n - 1 \in 0..N /\ n - 1 \in Nat
    BY <1>1
  <2>2. E[n] = U
    BY <1>13, <2>1
  <2>3. S \in X /\ x \subseteq S /\ (Closed(S) \/ Cardinality(S) >= n - 1)
    BY <1>16
  <2>4. U \in X /\ S \subseteq U /\ x \subseteq U
    BY <1>3, <2>3 DEF Further
  <2>5. Closed(U) \/ Cardinality(U) >= n
    <3>1. CASE Closed(S)
      <4>1. U = S
        BY <3>1 DEF Further
      <4>2. QED
        BY <3>1, <4>1
    <3>2. CASE ~Closed(S)
      <4>1. S # U
        BY <3>2 DEF Further
      <4> HIDE DEF S, U, Closed
      <4>2. IsFiniteSet(U) /\ Cardinality(S) \in Nat /\ Cardinality(U) \in Nat
        BY <1>14, <2>3, <2>4
      <4>3. Cardinality(S) < Cardinality(U)
        BY <2>4, <4>1, <4>2, FS_Subset
      <4>4. Cardinality(S) >= n - 1
        BY <2>3, <3>2
      <4>5. QED
        BY <2>1, <4>2, <4>3, <4>4
    <3>3. QED
      BY <3>1, <3>2
  <2> HIDE DEF S, U, Closed
  <2>6. QED
    BY <2>1, <2>2, <2>4, <2>5
<1>17. \A n \in 0..N : n \in T
  <2> HIDE DEF T
  <2>1. QED
    BY <1>1, <1>15, <1>16, Throughout
<1> DEFINE R == E[N]
<1>18. R \in X /\ x \subseteq R /\ (Closed(R) \/ Cardinality(R) >= N)
  <2>1. N \in 0..N
    BY <1>1
  <2>2. QED
    BY <1>17, <2>1
<1>19. Closed(R)
  <2>1. CASE Cardinality(R) >= N
    <3> HIDE DEF R
    <3>1. Cardinality(AllNames) = N /\ Cardinality(R) \in Nat /\ IsFiniteSet(AllNames) /\ R \subseteq AllNames
      BY <1>14, <1>18, AllNamesFinite DEF N, X
    <3>2. Cardinality(R) <= Cardinality(AllNames) /\ (Cardinality(AllNames) = Cardinality(R) => AllNames = R)
      BY <3>1, FS_Subset
    <3>3. R = AllNames
      BY <1>1, <2>1, <3>1, <3>2
    <3>4. QED
      BY <3>3, FromNameNames
  <2>2. QED
    BY <1>18, <2>1
<1> HIDE DEF R
<1>20. \A r \in R : FromName(items, r) \subseteq R
  BY <1>19
<1>21. QED
  BY <1>1, <1>18, <1>20 DEF R, X, x

ShapeKinds == {"function", "object", "alias"}

(* What collect may do with a shape of these kinds, when C are the         *)
(* functions and R the names that the callback may consist of.             *)
FitsValue(C, R, shape) ==
  /\ shape.is \in ShapeKinds
  /\ shape.is = "function" => shape.span \in C
  /\ shape.is = "alias" => shape.name \in Names /\ <<"function", shape.name>> \in R

FitsProp(C, R, p) ==
  /\ p.is \in {"method", "value", "unsupported"}
  /\ p.is = "method" => p.span \in C
  /\ p.is = "value" => FitsValue(C, R, p.shape)

FitsProps(C, R, ps) == \A n \in 1..Len(ps) : FitsProp(C, R, ps[n])

Fits(C, R, shape, kinds) ==
  /\ shape.is \in ShapeKinds
  /\ shape.is = "function" /\ kinds.function => shape.span \in C
  /\ shape.is = "alias" => shape.name \in Names /\ \A w \in Wanted(kinds) : <<w, shape.name>> \in R
  /\ shape.is = "object" /\ kinds.object =>
       /\ \E S : shape.properties \in Seq(S)
       /\ FitsProps(C, R, shape.properties)

(* A call of collect wants the sorts that its kinds say.                   *)
LEMMA Sorted ==
  ASSUME NEW kinds
  PROVE  /\ "function" \in Wanted(kinds) <=> kinds.function
         /\ "object" \in Wanted(kinds) <=> kinds.object
         /\ Wanted(kinds) \subseteq Sorts
BY DEF Wanted, Sorts

(* A property of an object.                                                *)
LEMMA PropFits ==
  ASSUME NEW C, NEW R, NEW v \in Values, v.is = "object", NEW i, NEW k,
         SpansOf("object", v, i, k) \subseteq C, FromValue("object", v) \subseteq R,
         NEW j \in 1..Len(v.props), DescribeProp(v.props[j], <<i, k, j>>) # None
  PROVE  FitsProp(C, R, DescribeProp(v.props[j], <<i, k, j>>))
<1> DEFINE p == v.props[j]
           f == <<i, k, j>>
<1>1. v.props \in Seq(Props)
  BY ValueFacts
<1>2. p \in Props
  BY <1>1
<1>3. p.is \in PropKinds /\ (p.is = "name" => p.name \in Names)
  BY <1>2 DEF Props
<1>4. FunctionsOf(v, i, k) = {<<i, k, l>> : l \in {l \in 1..Len(v.props) :
                                 v.props[l].is \in {"method", "thisMethod", "fn", "nested"}}}
  BY DEF FunctionsOf
<1>5. p.is \in {"method", "thisMethod", "fn"} => f \in C
  <2>1. SUFFICES ASSUME p.is \in {"method", "thisMethod", "fn"} PROVE f \in C
    OBVIOUS
  <2>2. f \in FunctionsOf(v, i, k)
    BY <1>4, <2>1
  <2>3. f[3] = j
    OBVIOUS
  <2>4. SpansOf("object", v, i, k) = {g \in FunctionsOf(v, i, k) : v.props[g[3]].is # "nested"}
    BY DEF SpansOf
  <2>5. v.props[f[3]].is # "nested"
    BY <2>1, <2>3
  <2> HIDE DEF f
  <2>6. QED
    BY <2>2, <2>4, <2>5
<1>6. p.is = "name" => <<"function", p.name>> \in R
  <2>1. SUFFICES ASSUME p.is = "name" PROVE <<"function", p.name>> \in R
    OBVIOUS
  <2>2. p.name \in NamesIn(v)
    BY <2>1 DEF NamesIn
  <2>3. FromValue("object", v) = {<<"function", n>> : n \in NamesIn(v)}
    BY DEF FromValue
  <2>4. QED
    BY <2>2, <2>3
<1> HIDE DEF p, f
<1> DEFINE d == DescribeProp(p, f)
<1>7. CASE p.is \in {"method", "thisMethod"}
  <2>1. d = AMethod(f)
    BY <1>7 DEF DescribeProp
  <2>2. d.is = "method" /\ d.span = f
    BY <2>1 DEF AMethod
  <2> HIDE DEF d
  <2>3. FitsProp(C, R, d)
    BY <1>5, <1>7, <2>2 DEF FitsProp
  <2>4. QED
    BY <2>3 DEF d, p, f
<1>8. CASE p.is = "fn"
  <2>1. d = AValue(AFunction(f))
    BY <1>8 DEF DescribeProp
  <2>2. d.is = "value" /\ d.shape.is = "function" /\ d.shape.span = f
    BY <2>1 DEF AValue, AFunction
  <2> HIDE DEF d
  <2>3. FitsProp(C, R, d)
    BY <1>5, <1>8, <2>2 DEF FitsProp, FitsValue, ShapeKinds
  <2>4. QED
    BY <2>3 DEF d, p, f
<1>9. CASE p.is = "nested"
  <2>1. d = AValue(AnObject(<<AValue(AFunction(f))>>))
    BY <1>9 DEF DescribeProp
  <2>2. d.is = "value" /\ d.shape.is = "object"
    BY <2>1 DEF AValue, AnObject
  <2> HIDE DEF d
  <2>3. FitsProp(C, R, d)
    BY <2>2 DEF FitsProp, FitsValue, ShapeKinds
  <2>4. QED
    BY <2>3 DEF d, p, f
<1>10. CASE p.is = "name"
  <2>1. d = AValue(AnAlias(p.name))
    BY <1>10 DEF DescribeProp
  <2>2. d.is = "value" /\ d.shape.is = "alias" /\ d.shape.name = p.name
    BY <2>1 DEF AValue, AnAlias
  <2> HIDE DEF d
  <2>3. FitsProp(C, R, d)
    BY <1>3, <1>6, <1>10, <2>2 DEF FitsProp, FitsValue, ShapeKinds
  <2>4. QED
    BY <2>3 DEF d, p, f
<1>11. CASE p.is = "spread"
  <2>1. d = Unsupported
    BY <1>11 DEF DescribeProp
  <2>2. d.is = "unsupported"
    BY <2>1 DEF Unsupported
  <2> HIDE DEF d
  <2>3. FitsProp(C, R, d)
    BY <2>2 DEF FitsProp
  <2>4. QED
    BY <2>3 DEF d, p, f
<1>12. CASE p.is = "marker"
  <2>1. d = None
    BY <1>12 DEF DescribeProp
  <2>2. QED
    BY <2>1 DEF p, f
<1>13. QED
  BY <1>3, <1>7, <1>8, <1>9, <1>10, <1>11, <1>12 DEF PropKinds

(* The shape of a value is collected for functions and names that the      *)
(* value consists of.                                                      *)
LEMMA DescribeFits ==
  ASSUME NEW C, NEW R, NEW v \in Values, NEW i, NEW k, NEW kinds,
         \A w \in Wanted(kinds) : SpansOf(w, v, i, k) \subseteq C /\ FromValue(w, v) \subseteq R,
         Describe(v, i, k) # None
  PROVE  Fits(C, R, Describe(v, i, k), kinds)
<1> DEFINE d == Describe(v, i, k)
<1>1. v.is \in ValueKinds /\ v.props \in Seq(Props) /\ (v.is = "name" => v.name \in Names)
  BY ValueFacts
<1>2. CASE v.is \in {"fn", "paren", "generated"}
  <2> DEFINE f == <<i, k, 0>>
  <2>1. d = AFunction(SpanAt(v, f))
    BY <1>2 DEF Describe
  <2>2. d.is = "function" /\ d.span = SpanAt(v, f)
    BY <2>1 DEF AFunction
  <2>3. FunctionsOf(v, i, k) = {f}
    BY <1>2 DEF FunctionsOf
  <2> HIDE DEF f
  <2>4. SpansOf("function", v, i, k) = {SpanAt(v, g) : g \in FunctionsOf(v, i, k)}
    BY <1>2 DEF SpansOf
  <2>5. kinds.function => SpanAt(v, f) \in C
    BY <2>3, <2>4, Sorted
  <2> HIDE DEF d
  <2>6. Fits(C, R, d, kinds)
    BY <2>2, <2>5 DEF Fits, ShapeKinds
  <2>7. QED
    BY <2>6 DEF d
<1>3. CASE v.is = "name"
  <2>1. d = AnAlias(v.name)
    BY <1>3 DEF Describe
  <2>2. d.is = "alias" /\ d.name = v.name
    BY <2>1 DEF AnAlias
  <2>3. \A w \in Wanted(kinds) : <<w, v.name>> \in R
    BY <1>3 DEF FromValue
  <2> HIDE DEF d
  <2>4. Fits(C, R, d, kinds)
    BY <1>1, <1>3, <2>2, <2>3 DEF Fits, ShapeKinds
  <2>5. QED
    BY <2>4 DEF d
<1>4. CASE v.is = "object"
  <2> DEFINE props == [j \in 1..Len(v.props) |-> DescribeProp(v.props[j], <<i, k, j>>)]
             places == {j \in 1..Len(props) : props[j] # None}
             r == Only(props, places)
  <2>1. d = AnObject(r)
    BY <1>4 DEF Describe
  <2>2. d.is = "object" /\ d.properties = r
    <3> HIDE DEF d, r
    <3>1. QED
      BY <2>1 DEF AnObject
  <2> DEFINE S == {props[j] : j \in 1..Len(v.props)}
  <2>3. Len(v.props) \in Nat
    BY <1>1
  <2>4. props \in Seq(S) /\ Len(props) = Len(v.props)
    <3>1. props \in [1..Len(v.props) -> S]
      OBVIOUS
    <3> HIDE DEF props, S
    <3>2. QED
      BY <2>3, <3>1
  <2>5. ASSUME kinds.object, NEW j \in places PROVE FitsProp(C, R, props[j])
    <3>1. j \in 1..Len(v.props) /\ props[j] = DescribeProp(v.props[j], <<i, k, j>>) /\ props[j] # None
      BY <2>4
    <3>2. SpansOf("object", v, i, k) \subseteq C /\ FromValue("object", v) \subseteq R
      BY <2>5, Sorted
    <3>3. QED
      BY <1>4, <3>1, <3>2, PropFits
  <2> HIDE DEF S, props, places
  <2>6. r \in Seq(S) /\ \E g : Picks(r, props, places \cap (1..Len(props)), g)
    BY <2>4, OnlyPicks
  <2>7. PICK g : Picks(r, props, places \cap (1..Len(props)), g)
    BY <2>6
  <2>8. \A n \in 1..Len(r) : g[n] \in places /\ r[n] = props[g[n]]
    BY <2>7 DEF Picks
  <2>9. kinds.object => FitsProps(C, R, r)
    BY <2>5, <2>8 DEF FitsProps
  <2> HIDE DEF d, r
  <2>10. \E T : d.properties \in Seq(T)
    BY <2>2, <2>6
  <2>11. Fits(C, R, d, kinds)
    BY <2>2, <2>9, <2>10 DEF Fits, ShapeKinds
  <2>12. QED
    BY <2>11 DEF d
<1>5. CASE v.is = "other"
  BY <1>5 DEF Describe
<1>6. QED
  BY <1>1, <1>2, <1>3, <1>4, <1>5 DEF ValueKinds

-----------------------------------------------------------------------------
(* The tables name the first or the second argument.                       *)
LEMMA HookTables ==
  ASSUME NEW ra3, NEW c \in DOMAIN FunctionHooks(ra3)
  PROVE  FunctionHooks(ra3)[c] \in Seq({1, 2})
<1>1. <<1>> \in Seq({1, 2}) /\ <<1, 2>> \in Seq({1, 2}) /\ <<2>> \in Seq({1, 2})
  OBVIOUS
<1>2. FunctionHooks(ra3)[c] \in {<<1>>, <<2>>, <<1, 2>>}
  BY DEF FunctionHooks
<1>3. QED
  BY <1>1, <1>2

(* The positions that collect looks at are arguments of the call.          *)
LEMMA PositionsIn ==
  ASSUME NEW item \in BodyItems, NEW ra3
  PROVE  /\ Positions(item, ra3) \in Seq(Nat)
         /\ \A n \in 1..Len(Positions(item, ra3)) : Positions(item, ra3)[n] \in 1..Len(item.args)
<1> DEFINE ps == Positions(item, ra3)
           L  == Len(item.args)
<1>1. L \in Nat
  BY BodyFacts
<1>2. CASE ps = AllPositions(item)
  <2>1. ps = [k \in 1..L |-> k]
    BY <1>2 DEF AllPositions
  <2> HIDE DEF ps, L
  <2>2. ps \in [1..L -> Nat] /\ \A k \in 1..L : ps[k] = k
    BY <2>1
  <2>3. ps \in Seq(Nat) /\ Len(ps) = L
    BY <1>1, <2>2
  <2>4. QED
    BY <2>2, <2>3 DEF ps, L
<1>3. CASE ps # AllPositions(item)
  <2> DEFINE hook == HookPositions(item, ra3)
             places == {n \in 1..Len(hook) : hook[n] <= L}
  <2>1. ps = Only(hook, places)
    BY <1>3 DEF Positions
  <2>2. hook \in Seq({1, 2})
    <3>1. <<1>> \in Seq({1, 2}) /\ << >> \in Seq({1, 2})
      OBVIOUS
    <3>2. QED
      BY <3>1, HookTables DEF HookPositions
  <2> HIDE DEF hook
  <2>3. Only(hook, places) \in Seq({1, 2}) /\ \E g : Picks(Only(hook, places), hook, places \cap (1..Len(hook)), g)
    BY <2>2, OnlyPicks
  <2> HIDE DEF ps
  <2>4. PICK g : Picks(ps, hook, places \cap (1..Len(hook)), g)
    BY <2>1, <2>3
  <2>5. ps \in Seq({1, 2})
    BY <2>1, <2>3
  <2>6. ASSUME NEW n \in 1..Len(ps) PROVE ps[n] \in Nat /\ ps[n] \in 1..L
    <3>1. g[n] \in places /\ ps[n] = hook[g[n]]
      BY <2>4 DEF Picks
    <3>2. hook[g[n]] \in {1, 2} /\ hook[g[n]] <= L
      BY <2>2, <3>1
    <3> HIDE DEF L
    <3>3. QED
      BY <1>1, <3>1, <3>2
  <2>7. ps \in Seq(Nat)
    <3>1. {1, 2} \subseteq Nat
      OBVIOUS
    <3>2. QED
      BY <2>5, <3>1
  <2>8. QED
    BY <2>6, <2>7 DEF ps
<1>4. QED
  BY <1>2, <1>3

(* The shapes that a name is given by its declarators and assignments.     *)
Given(items, n) ==
  {Describe(items[m].value, items[m].id, 0) :
     m \in {m \in 1..Len(items) : items[m].is \in {"var", "assign"} /\ items[m].name = n}} \ {None}

(* The record of Definitions is what its fields are.                       *)
IsDefinitions(d) ==
  d = [hand_written          |-> d.hand_written,
       function_declarations |-> d.function_declarations,
       declarators           |-> d.declarators,
       assignments           |-> d.assignments,
       rebound               |-> d.rebound,
       declarations          |-> d.declarations]

Declared(items, n, span) ==
  \E m \in 1..Len(items) : items[m].is = "fnDecl" /\ items[m].name = n /\ span = <<items[m].id, 0, 0>>

(* Definitions says nothing that is not in the program.                    *)
Defines(items, d) ==
  /\ IsDefinitions(d)
  /\ d.hand_written \subseteq Names /\ d.rebound \subseteq Names
  /\ \A n \in DOMAIN d.function_declarations : Declared(items, n, d.function_declarations[n])
  /\ \A n \in DOMAIN d.declarators : d.declarators[n] \in Given(items, n)
  /\ DOMAIN d.assignments \subseteq d.rebound
  /\ \A n \in DOMAIN d.assignments : d.assignments[n] \in Seq(Given(items, n))

(* The worklets that are written by hand in the first k items are known.   *)
KnowsHands(items, d, k) == \A m \in 1..k : items[m].is = "hash" => items[m].name \in d.hand_written

(* At first Definitions says nothing.                                      *)
LEMMA NoneDefined ==
  ASSUME NEW items
  PROVE  Defines(items, NoDefinitions) /\ KnowsHands(items, NoDefinitions, 0)
<1> DEFINE d == NoDefinitions
           none == << >>
<1>1. DOMAIN none = {}
  OBVIOUS
<1> HIDE DEF none
<1>2. d = [hand_written |-> {}, function_declarations |-> none, declarators |-> none,
           assignments |-> none, rebound |-> {}, declarations |-> {}]
  BY DEF NoDefinitions, none
<1> HIDE DEF d
<1>3. /\ d.hand_written = {} /\ d.function_declarations = none /\ d.declarators = none
      /\ d.assignments = none /\ d.rebound = {} /\ d.declarations = {}
  BY <1>2
<1>4. IsDefinitions(d)
  BY <1>2, <1>3 DEF IsDefinitions
<1>5. QED
  BY <1>1, <1>3, <1>4 DEF Defines, KnowsHands, d

(* One field of the record is replaced.                                    *)
LEMMA OneField ==
  ASSUME NEW d, IsDefinitions(d), NEW x
  PROVE  /\ [d EXCEPT !.hand_written = x] =
              [hand_written |-> x, function_declarations |-> d.function_declarations,
               declarators |-> d.declarators, assignments |-> d.assignments,
               rebound |-> d.rebound, declarations |-> d.declarations]
         /\ [d EXCEPT !.function_declarations = x] =
              [hand_written |-> d.hand_written, function_declarations |-> x,
               declarators |-> d.declarators, assignments |-> d.assignments,
               rebound |-> d.rebound, declarations |-> d.declarations]
         /\ [d EXCEPT !.declarators = x] =
              [hand_written |-> d.hand_written, function_declarations |-> d.function_declarations,
               declarators |-> x, assignments |-> d.assignments,
               rebound |-> d.rebound, declarations |-> d.declarations]
         /\ [d EXCEPT !.assignments = x] =
              [hand_written |-> d.hand_written, function_declarations |-> d.function_declarations,
               declarators |-> d.declarators, assignments |-> x,
               rebound |-> d.rebound, declarations |-> d.declarations]
         /\ [d EXCEPT !.rebound = x] =
              [hand_written |-> d.hand_written, function_declarations |-> d.function_declarations,
               declarators |-> d.declarators, assignments |-> d.assignments,
               rebound |-> x, declarations |-> d.declarations]
BY DEF IsDefinitions

(* A name that is declared once more is rebound by that.                   *)
LEMMA BindingDefines ==
  ASSUME NEW items, NEW d, Defines(items, d), NEW name \in Names
  PROVE  /\ Defines(items, Binding(d, name))
         /\ Binding(d, name).hand_written = d.hand_written
         /\ Binding(d, name).assignments = d.assignments
         /\ Binding(d, name).declarators = d.declarators
<1> DEFINE decls == d.declarations \cup {name}
           bound == IF name \in d.declarations THEN d.rebound \cup {name} ELSE d.rebound
           b == Binding(d, name)
<1>1. b = [[d EXCEPT !.declarations = decls] EXCEPT !.rebound = bound]
  BY DEF Binding, Defines, IsDefinitions
<1>2. d.rebound \subseteq bound /\ bound \subseteq Names
  BY DEF Defines
<1> HIDE DEF decls, bound
<1>3. b = [hand_written |-> d.hand_written, function_declarations |-> d.function_declarations,
           declarators |-> d.declarators, assignments |-> d.assignments,
           rebound |-> bound, declarations |-> decls]
  BY <1>1 DEF Defines, IsDefinitions
<1> HIDE DEF b
<1>4. /\ b.hand_written = d.hand_written /\ b.function_declarations = d.function_declarations
      /\ b.declarators = d.declarators /\ b.assignments = d.assignments
      /\ b.rebound = bound /\ b.declarations = decls
  BY <1>3
<1>5. IsDefinitions(b)
  BY <1>3, <1>4 DEF IsDefinitions
<1>6. Defines(items, b)
  BY <1>2, <1>4, <1>5 DEF Defines
<1>7. QED
  BY <1>4, <1>6 DEF b

(* What is said stays in the program, whichever field is replaced.         *)
LEMMA HandDefines ==
  ASSUME NEW items, NEW d, Defines(items, d), NEW S \in SUBSET Names
  PROVE  Defines(items, [d EXCEPT !.hand_written = S]) /\ [d EXCEPT !.hand_written = S].hand_written = S
<1> DEFINE e == [d EXCEPT !.hand_written = S]
<1>1. e = [hand_written |-> S, function_declarations |-> d.function_declarations,
           declarators |-> d.declarators, assignments |-> d.assignments,
           rebound |-> d.rebound, declarations |-> d.declarations]
  BY OneField DEF Defines
<1> HIDE DEF e
<1>2. /\ e.hand_written = S /\ e.function_declarations = d.function_declarations
      /\ e.declarators = d.declarators /\ e.assignments = d.assignments
      /\ e.rebound = d.rebound /\ e.declarations = d.declarations
  BY <1>1
<1>3. IsDefinitions(e)
  BY <1>1, <1>2 DEF IsDefinitions
<1>4. Defines(items, e)
  BY <1>2, <1>3 DEF Defines
<1>5. QED
  BY <1>2, <1>4 DEF e

(* So it does when more names are rebound,                                 *)
LEMMA ReboundDefines ==
  ASSUME NEW items, NEW d, Defines(items, d), NEW S \in SUBSET Names, d.rebound \subseteq S
  PROVE  /\ Defines(items, [d EXCEPT !.rebound = S]) /\ [d EXCEPT !.rebound = S].rebound = S
         /\ [d EXCEPT !.rebound = S].hand_written = d.hand_written
         /\ [d EXCEPT !.rebound = S].assignments = d.assignments
<1> DEFINE e == [d EXCEPT !.rebound = S]
<1>1. e = [hand_written |-> d.hand_written, function_declarations |-> d.function_declarations,
           declarators |-> d.declarators, assignments |-> d.assignments,
           rebound |-> S, declarations |-> d.declarations]
  BY OneField DEF Defines
<1> HIDE DEF e
<1>2. /\ e.hand_written = d.hand_written /\ e.function_declarations = d.function_declarations
      /\ e.declarators = d.declarators /\ e.assignments = d.assignments
      /\ e.rebound = S /\ e.declarations = d.declarations
  BY <1>1
<1>3. IsDefinitions(e)
  BY <1>1, <1>2 DEF IsDefinitions
<1>4. Defines(items, e)
  BY <1>2, <1>3 DEF Defines
<1>5. QED
  BY <1>2, <1>4 DEF e

(* when a declared function is recorded,                                   *)
LEMMA FunctionDefines ==
  ASSUME NEW items, NEW d, Defines(items, d), NEW f, \A n \in DOMAIN f : Declared(items, n, f[n])
  PROVE  /\ Defines(items, [d EXCEPT !.function_declarations = f])
         /\ [d EXCEPT !.function_declarations = f].hand_written = d.hand_written
<1> DEFINE e == [d EXCEPT !.function_declarations = f]
<1>1. e = [hand_written |-> d.hand_written, function_declarations |-> f,
           declarators |-> d.declarators, assignments |-> d.assignments,
           rebound |-> d.rebound, declarations |-> d.declarations]
  BY OneField DEF Defines
<1> HIDE DEF e
<1>2. /\ e.hand_written = d.hand_written /\ e.function_declarations = f
      /\ e.declarators = d.declarators /\ e.assignments = d.assignments
      /\ e.rebound = d.rebound /\ e.declarations = d.declarations
  BY <1>1
<1>3. IsDefinitions(e)
  BY <1>1, <1>2 DEF IsDefinitions
<1>4. Defines(items, e)
  BY <1>2, <1>3 DEF Defines
<1>5. QED
  BY <1>2, <1>4 DEF e

(* when a declarator's shape is recorded,                                  *)
LEMMA DeclaratorDefines ==
  ASSUME NEW items, NEW d, Defines(items, d), NEW f, \A n \in DOMAIN f : f[n] \in Given(items, n)
  PROVE  /\ Defines(items, [d EXCEPT !.declarators = f])
         /\ [d EXCEPT !.declarators = f].hand_written = d.hand_written
<1> DEFINE e == [d EXCEPT !.declarators = f]
<1>1. e = [hand_written |-> d.hand_written, function_declarations |-> d.function_declarations,
           declarators |-> f, assignments |-> d.assignments,
           rebound |-> d.rebound, declarations |-> d.declarations]
  BY OneField DEF Defines
<1> HIDE DEF e
<1>2. /\ e.hand_written = d.hand_written /\ e.function_declarations = d.function_declarations
      /\ e.declarators = f /\ e.assignments = d.assignments
      /\ e.rebound = d.rebound /\ e.declarations = d.declarations
  BY <1>1
<1>3. IsDefinitions(e)
  BY <1>1, <1>2 DEF IsDefinitions
<1>4. Defines(items, e)
  BY <1>2, <1>3 DEF Defines
<1>5. QED
  BY <1>2, <1>4 DEF e

(* and when an assignment of a rebound name is.                            *)
LEMMA AssignmentDefines ==
  ASSUME NEW items, NEW d, Defines(items, d), NEW f, DOMAIN f \subseteq d.rebound, \A n \in DOMAIN f : f[n] \in Seq(Given(items, n))
  PROVE  /\ Defines(items, [d EXCEPT !.assignments = f])
         /\ [d EXCEPT !.assignments = f].hand_written = d.hand_written
<1> DEFINE e == [d EXCEPT !.assignments = f]
<1>1. e = [hand_written |-> d.hand_written, function_declarations |-> d.function_declarations,
           declarators |-> d.declarators, assignments |-> f,
           rebound |-> d.rebound, declarations |-> d.declarations]
  BY OneField DEF Defines
<1> HIDE DEF e
<1>2. /\ e.hand_written = d.hand_written /\ e.function_declarations = d.function_declarations
      /\ e.declarators = d.declarators /\ e.assignments = f
      /\ e.rebound = d.rebound /\ e.declarations = d.declarations
  BY <1>1
<1>3. IsDefinitions(e)
  BY <1>1, <1>2 DEF IsDefinitions
<1>4. Defines(items, e)
  BY <1>2, <1>3 DEF Defines
<1>5. QED
  BY <1>2, <1>4 DEF e

DefinitionsNow(k) == Defines(body, definitions) /\ KnowsHands(body, definitions, k)

(* One more item is known.                                                 *)
LEMMA OneMoreHand ==
  ASSUME NEW items, NEW d, NEW e, NEW k \in 1..Len(items), KnowsHands(items, d, k - 1),
         d.hand_written \subseteq e.hand_written,
         items[k].is = "hash" => items[k].name \in e.hand_written, Len(items) \in Nat
  PROVE  KnowsHands(items, e, k)
<1>1. \A m \in 1..k : m \in 1..(k - 1) \/ m = k
  OBVIOUS
<1>2. QED
  BY <1>1 DEF KnowsHands

(* The shape of an item's value is one that its name is given.             *)
LEMMA ShapeGiven ==
  ASSUME NEW items, NEW m \in 1..Len(items), items[m].is \in {"var", "assign"},
         Describe(items[m].value, items[m].id, 0) # None
  PROVE  Describe(items[m].value, items[m].id, 0) \in Given(items, items[m].name)
BY DEF Given

(* Recording an assignment says nothing that is not in the program.        *)
LEMMA AssignedDefines ==
  ASSUME NEW items, NEW d, Defines(items, d), NEW name \in Names, NEW shape,
         shape # None => shape \in Given(items, name)
  PROVE  /\ Defines(items, Assigned(d, name, shape))
         /\ Assigned(d, name, shape).hand_written = d.hand_written
<1> DEFINE b == Binding(d, name)
           S == b.rebound \cup {name}
           bound == [b EXCEPT !.rebound = S]
           before == IF name \in DOMAIN d.assignments THEN d.assignments[name] ELSE << >>
           f == With(bound.assignments, name, Append(before, shape))
           r == Assigned(d, name, shape)
<1>1. Defines(items, b) /\ b.hand_written = d.hand_written /\ b.assignments = d.assignments
  BY BindingDefines
<1>2. r = IF shape = None THEN bound ELSE [bound EXCEPT !.assignments = With(@, name, Append(before, shape))]
  BY DEF Assigned
<1>3. r = IF shape = None THEN bound ELSE [bound EXCEPT !.assignments = f]
  BY <1>2
<1> HIDE DEF b
<1>4. S \in SUBSET Names /\ b.rebound \subseteq S
  BY <1>1 DEF Defines
<1> HIDE DEF S
<1>5. /\ Defines(items, bound) /\ bound.rebound = S /\ bound.hand_written = b.hand_written
      /\ bound.assignments = b.assignments
  BY <1>1, <1>4, ReboundDefines
<1> HIDE DEF bound, r
<1>6. CASE shape = None
  BY <1>1, <1>3, <1>5, <1>6 DEF r
<1>7. CASE shape # None
  <2>1. before \in Seq(Given(items, name))
    <3>1. << >> \in Seq(Given(items, name))
      OBVIOUS
    <3>2. \A n \in DOMAIN d.assignments : d.assignments[n] \in Seq(Given(items, n))
      BY DEF Defines
    <3>3. QED
      BY <3>1, <3>2
  <2>2. Append(before, shape) \in Seq(Given(items, name))
    BY <1>7, <2>1, AppendProperties
  <2> HIDE DEF before
  <2> DEFINE more == Append(before, shape)
  <2> HIDE DEF more
  <2>3. more \in Seq(Given(items, name)) /\ f = With(bound.assignments, name, more)
    BY <2>2 DEF more
  <2> HIDE DEF f
  <2>4. DOMAIN f = DOMAIN bound.assignments \cup {name}
    BY <2>3 DEF With
  <2>5. DOMAIN f \subseteq bound.rebound
    BY <1>4, <1>5, <2>4 DEF Defines, S
  <2>6. \A n \in DOMAIN f : f[n] \in Seq(Given(items, n))
    <3>1. \A n \in DOMAIN f : f[n] = IF n = name THEN more ELSE bound.assignments[n]
      <4> DEFINE known == bound.assignments
      <4>1. f = [z \in DOMAIN known \cup {name} |-> IF z = name THEN more ELSE known[z]]
        BY <2>3 DEF With
      <4> HIDE DEF known
      <4>2. QED
        BY <4>1 DEF known
    <3>2. \A n \in DOMAIN bound.assignments : bound.assignments[n] \in Seq(Given(items, n))
      BY <1>5 DEF Defines
    <3>3. QED
      BY <2>3, <2>4, <3>1, <3>2
  <2>7. Defines(items, [bound EXCEPT !.assignments = f]) /\ [bound EXCEPT !.assignments = f].hand_written = bound.hand_written
    BY <1>5, <2>5, <2>6, AssignmentDefines
  <2>8. QED
    BY <1>1, <1>3, <1>5, <1>7, <2>7 DEF r
<1>8. QED
  BY <1>6, <1>7

(* One item after the other, the definitions of the program are known.     *)
LEMMA NextDefinitions ==
  ASSUME body \in Seq(BodyItems), phase = "definitions", at \in 1..(Len(body) + 1),
         DefinitionsNow(at - 1),
         VisitFnDecl \/ VisitVarDeclarator \/ VisitAssignExpr \/ VisitUpdateExpr \/ VisitMemberExpr \/ VisitOther
  PROVE  /\ at \in 1..Len(body) /\ at' = at + 1
         /\ phase' = phase /\ UNCHANGED <<build, source, body, callbacks, directives>>
         /\ Defines(body, definitions') /\ KnowsHands(body, definitions', at)
<1> DEFINE item == body[at]
           d == definitions
           e == definitions'
<1>1. /\ at <= Len(body) /\ at' = at + 1 /\ phase' = phase
      /\ UNCHANGED <<build, source, body, callbacks, directives>>
  BY DEF VisitFnDecl, VisitVarDeclarator, VisitAssignExpr, VisitUpdateExpr, VisitMemberExpr, VisitOther, Visit
<1>2. Len(body) \in Nat /\ at \in 1..Len(body)
  BY <1>1
<1>3. item \in BodyItems
  BY <1>2
<1>4. /\ item.is \in {"var", "assign", "update", "hash"} => item.name \in Names
      /\ item.value \in Values /\ item.id \in Nat
  BY <1>3, BodyFacts
<1>5. Defines(body, d) /\ KnowsHands(body, d, at - 1)
  BY DEF DefinitionsNow
<1>6. d.hand_written \subseteq Names /\ d.rebound \subseteq Names
  BY <1>5 DEF Defines
<1>7. CASE VisitFnDecl
  <2> DEFINE f == With(d.function_declarations, item.name, <<item.id, 0, 0>>)
  <2>1. item.is = "fnDecl" /\ e = IF IsFnDecl(item) THEN [d EXCEPT !.function_declarations = f] ELSE d
    BY <1>7 DEF VisitFnDecl, Visit
  <2>2. Declared(body, item.name, <<item.id, 0, 0>>)
    BY <1>2, <2>1 DEF Declared
  <2>3. \A n \in DOMAIN d.function_declarations : Declared(body, n, d.function_declarations[n])
    BY <1>5 DEF Defines
  <2> DEFINE span == <<item.id, 0, 0>>
             name == item.name
             known == d.function_declarations
  <2>4. f = With(known, name, span) /\ Declared(body, name, span) /\ \A n \in DOMAIN known : Declared(body, n, known[n])
    BY <2>2, <2>3
  <2> HIDE DEF f, span, name, known
  <2>5. \A n \in DOMAIN f : Declared(body, n, f[n])
    BY <2>4 DEF With
  <2>6. Defines(body, e) /\ e.hand_written = d.hand_written
    <3>1. CASE IsFnDecl(item)
      BY <1>5, <2>1, <2>5, <3>1, FunctionDefines
    <3>2. CASE ~IsFnDecl(item)
      BY <1>5, <2>1, <3>2
    <3>3. QED
      BY <3>1, <3>2
  <2>7. KnowsHands(body, e, at)
    BY <1>2, <1>5, <2>1, <2>6, OneMoreHand
  <2>8. QED
    BY <1>1, <1>2, <2>6, <2>7
<1>8. CASE VisitVarDeclarator
  <2> DEFINE b == Binding(d, item.name)
             shape == Describe(item.value, item.id, 0)
             f == With(b.declarators, item.name, shape)
  <2>1. item.is = "var" /\ e = IF shape = None THEN b ELSE [b EXCEPT !.declarators = f]
    BY <1>8 DEF VisitVarDeclarator, Visit
  <2>2. Defines(body, b) /\ b.hand_written = d.hand_written
    BY <1>4, <1>5, <2>1, BindingDefines
  <2>3. shape # None => shape \in Given(body, item.name)
    BY <1>2, <2>1, ShapeGiven
  <2>4. Defines(body, e) /\ e.hand_written = d.hand_written
    <3>1. CASE shape = None
      BY <2>1, <2>2, <3>1
    <3>2. CASE shape # None
      <4> DEFINE name == item.name
                 known == b.declarators
      <4>1. f = With(known, name, shape) /\ shape \in Given(body, name)
        BY <2>3, <3>2
      <4>2. \A n \in DOMAIN known : known[n] \in Given(body, n)
        BY <2>2 DEF Defines
      <4> HIDE DEF f, name, known, shape, b
      <4>3. \A n \in DOMAIN f : f[n] \in Given(body, n)
        BY <4>1, <4>2 DEF With
      <4>4. Defines(body, [b EXCEPT !.declarators = f]) /\ [b EXCEPT !.declarators = f].hand_written = b.hand_written
        BY <2>2, <4>3, DeclaratorDefines
      <4>5. QED
        BY <2>1, <2>2, <3>2, <4>4
    <3>3. QED
      BY <3>1, <3>2
  <2>5. KnowsHands(body, e, at)
    BY <1>2, <1>5, <2>1, <2>4, OneMoreHand
  <2>6. QED
    BY <1>1, <1>2, <2>4, <2>5
<1>9. CASE VisitAssignExpr
  <2> DEFINE shape == Describe(item.value, item.id, 0)
  <2>1. item.is = "assign" /\ e = Assigned(d, item.name, shape)
    BY <1>9 DEF VisitAssignExpr, Visit
  <2>2. shape # None => shape \in Given(body, item.name)
    BY <1>2, <2>1, ShapeGiven
  <2> HIDE DEF shape
  <2>3. Defines(body, e) /\ e.hand_written = d.hand_written
    BY <1>4, <1>5, <2>1, <2>2, AssignedDefines
  <2>4. KnowsHands(body, e, at)
    BY <1>2, <1>5, <2>1, <2>3, OneMoreHand
  <2>5. QED
    BY <1>1, <1>2, <2>3, <2>4
<1>10. CASE VisitUpdateExpr
  <2> DEFINE S == d.rebound \cup {item.name}
  <2>1. item.is = "update" /\ e = [d EXCEPT !.rebound = S]
    BY <1>10 DEF VisitUpdateExpr, Visit
  <2>2. S \in SUBSET Names /\ d.rebound \subseteq S
    BY <1>4, <1>6, <2>1
  <2>3. Defines(body, e) /\ e.hand_written = d.hand_written
    BY <1>5, <2>1, <2>2, ReboundDefines
  <2>4. KnowsHands(body, e, at)
    BY <1>2, <1>5, <2>1, <2>3, OneMoreHand
  <2>5. QED
    BY <1>1, <1>2, <2>3, <2>4
<1>11. CASE VisitMemberExpr
  <2> DEFINE S == d.hand_written \cup {item.name}
  <2>1. item.is = "hash" /\ e = [d EXCEPT !.hand_written = S]
    BY <1>11 DEF VisitMemberExpr, Visit
  <2>2. S \in SUBSET Names
    BY <1>4, <1>6, <2>1
  <2>3. Defines(body, e) /\ e.hand_written = S
    BY <1>5, <2>1, <2>2, HandDefines
  <2>4. KnowsHands(body, e, at)
    BY <1>2, <1>5, <2>3, OneMoreHand
  <2>5. QED
    BY <1>1, <1>2, <2>3, <2>4
<1>12. CASE VisitOther
  <2>1. item.is # "hash" /\ e = d
    BY <1>12 DEF VisitOther, Visit
  <2>2. KnowsHands(body, e, at)
    BY <1>2, <1>5, <2>1, OneMoreHand
  <2>3. QED
    BY <1>1, <1>2, <1>5, <2>1, <2>2
<1>13. QED
  BY <1>7, <1>8, <1>9, <1>10, <1>11, <1>12

IsSeq(s) == \E S : s \in Seq(S)

(* The calls of collect that argument k of the i-th item leads to.         *)
TracedTo(items, ra3, c, i, k) ==
  /\ items[i].is = "call" /\ k \in ToSet(Positions(items[i], ra3)) /\ k \in 1..Len(items[i].args)
  /\ Fits(CalledThrough(items, ra3, i, k), ReachableNames(items, ra3, i, k), c.shape, c.kinds)

Traced(items, ra3, c) == \E i \in 1..Len(items) : \E k : TracedTo(items, ra3, c, i, k)

AllTraced(items, ra3, calls) == IsSeq(calls) /\ \A n \in 1..Len(calls) : Traced(items, ra3, calls[n])

(* Of no calls, all are traced.                                            *)
LEMMA TracedNone == ASSUME NEW items, NEW ra3 PROVE AllTraced(items, ra3, << >>)
<1> DEFINE none == << >>
<1>1. none \in Seq({}) /\ Len(none) = 0
  OBVIOUS
<1> HIDE DEF none
<1>2. \A n \in 1..Len(none) : FALSE
  BY <1>1
<1>3. AllTraced(items, ra3, none)
  BY <1>1, <1>2 DEF AllTraced, IsSeq
<1>4. QED
  BY <1>3 DEF none

(* A single call that is traced.                                           *)
LEMMA TracedOne ==
  ASSUME NEW items, NEW ra3, NEW c, Traced(items, ra3, c)
  PROVE  AllTraced(items, ra3, <<c>>)
<1> DEFINE one == <<c>>
<1>1. one \in Seq({c}) /\ Len(one) = 1 /\ one[1] = c
  OBVIOUS
<1> HIDE DEF one
<1>2. \A n \in 1..Len(one) : one[n] = c
  BY <1>1
<1>3. AllTraced(items, ra3, one)
  BY <1>1, <1>2 DEF AllTraced, IsSeq
<1>4. QED
  BY <1>3 DEF one

(* The next call of a stack, and the rest of it.                           *)
LEMMA TracedTail ==
  ASSUME NEW items, NEW ra3, NEW calls, AllTraced(items, ra3, calls), calls # << >>
  PROVE  Traced(items, ra3, Head(calls)) /\ AllTraced(items, ra3, Tail(calls))
<1>1. PICK S : calls \in Seq(S)
  BY DEF AllTraced, IsSeq
<1>2. Len(calls) \in Nat /\ Len(calls) # 0
  BY <1>1
<1>3. Head(calls) = calls[1] /\ 1 \in 1..Len(calls)
  BY <1>1, <1>2
<1> DEFINE t == Tail(calls)
<1>4. t \in Seq(S) /\ Len(t) = Len(calls) - 1 /\ \A n \in 1..Len(t) : t[n] = calls[n + 1] /\ n + 1 \in 1..Len(calls)
  BY <1>1, <1>2
<1> HIDE DEF t
<1>5. AllTraced(items, ra3, t)
  BY <1>4 DEF AllTraced, IsSeq
<1>6. QED
  BY <1>3, <1>5 DEF AllTraced, t

(* Two stacks, one on top of the other.                                    *)
LEMMA TracedBoth ==
  ASSUME NEW items, NEW ra3, NEW c1, NEW c2, AllTraced(items, ra3, c1), AllTraced(items, ra3, c2)
  PROVE  AllTraced(items, ra3, c1 \o c2)
<1>1. PICK S1 : c1 \in Seq(S1)
  BY DEF AllTraced, IsSeq
<1>2. PICK S2 : c2 \in Seq(S2)
  BY DEF AllTraced, IsSeq
<1> DEFINE S == S1 \cup S2
           c == c1 \o c2
<1>3. c1 \in Seq(S) /\ c2 \in Seq(S)
  BY <1>1, <1>2
<1> HIDE DEF S
<1>4. /\ c \in Seq(S) /\ Len(c) = Len(c1) + Len(c2) /\ Len(c1) \in Nat /\ Len(c2) \in Nat
      /\ \A n \in 1..Len(c) : c[n] = IF n <= Len(c1) THEN c1[n] ELSE c2[n - Len(c1)]
  BY <1>3, ConcatProperties
<1> HIDE DEF c
<1>5. \A n \in 1..Len(c) : \/ n \in 1..Len(c1) /\ c[n] = c1[n]
                           \/ n - Len(c1) \in 1..Len(c2) /\ c[n] = c2[n - Len(c1)]
  BY <1>4
<1>6. \A n \in 1..Len(c) : Traced(items, ra3, c[n])
  BY <1>5 DEF AllTraced
<1>7. AllTraced(items, ra3, c)
  BY <1>4, <1>6 DEF AllTraced, IsSeq
<1>8. QED
  BY <1>7 DEF c

-----------------------------------------------------------------------------
(* The arguments of a call.                                                *)
LEMMA ArgumentsTraced ==
  ASSUME NEW items \in Seq(BodyItems), NEW ra3, NEW i \in 1..Len(items), items[i].is = "call"
  PROVE  AllTraced(items, ra3, Arguments(items[i], ra3))
<1> DEFINE item == items[i]
           positions == Positions(item, ra3)
           CallAt(n) == Call(Describe(item.args[positions[n]], item.id, positions[n]),
                             KindsOf(item, ra3), item.callee # "withCallback")
           calls == [n \in 1..Len(positions) |-> CallAt(n)]
           places == {n \in 1..Len(calls) : calls[n].shape # None}
           r == Only(calls, places)
           S == {CallAt(n) : n \in 1..Len(positions)}
<1>1. Arguments(item, ra3) = r
  BY DEF Arguments
<1>2. item \in BodyItems
  OBVIOUS
<1>3. /\ positions \in Seq(Nat) /\ \A n \in 1..Len(positions) : positions[n] \in 1..Len(item.args)
      /\ item.args \in Seq(Values)
  BY <1>2, PositionsIn, BodyFacts
<1>4. calls \in Seq(S) /\ Len(calls) = Len(positions)
  <2>1. calls \in [1..Len(positions) -> S] /\ Len(positions) \in Nat
    BY <1>3
  <2> HIDE DEF calls, S, positions
  <2>2. QED
    BY <2>1
<1>5. ASSUME NEW n \in places PROVE Traced(items, ra3, calls[n])
  <2> DEFINE k == positions[n]
             v == item.args[k]
             C == CalledThrough(items, ra3, i, k)
             R == ReachableNames(items, ra3, i, k)
             shape == Describe(v, item.id, k)
             kinds == KindsOf(item, ra3)
  <2>1. n \in 1..Len(positions) /\ calls[n] = CallAt(n)
    BY <1>4
  <2>2. calls[n].shape = shape /\ calls[n].kinds = kinds
    BY <2>1 DEF Call
  <2>3. shape # None
    BY <2>2
  <2>4. k \in 1..Len(item.args) /\ v \in Values
    BY <1>3, <2>1
  <2>5. k \in ToSet(positions)
    BY <1>3, <2>1 DEF ToSet
  <2>6. \A w \in Wanted(kinds) : SpansOf(w, v, item.id, k) \subseteq C
    BY DEF CalledThrough
  <2>7. StartNames(items, ra3, i, k) \subseteq R
    BY <2>4, Reaches
  <2>8. \A w \in Wanted(kinds) : FromValue(w, v) \subseteq R
    BY <2>7 DEF StartNames
  <2> DEFINE c == calls[n]
             id == item.id
  <2>9. c.shape = shape /\ c.kinds = kinds
    BY <2>2
  <2> HIDE DEF c, kinds, v, C, R, k, id, calls, places, S
  <2>10. Fits(C, R, Describe(v, id, k), kinds)
    BY <2>3, <2>4, <2>6, <2>8, DescribeFits DEF id
  <2>11. TracedTo(items, ra3, c, i, k)
    BY <2>4, <2>5, <2>9, <2>10 DEF TracedTo, C, R, id
  <2>12. QED
    BY <2>11 DEF Traced, c
<1> HIDE DEF calls, places, S
<1>6. r \in Seq(S) /\ \E g : Picks(r, calls, places \cap (1..Len(calls)), g)
  BY <1>4, OnlyPicks
<1>7. PICK g : Picks(r, calls, places \cap (1..Len(calls)), g)
  BY <1>6
<1>8. \A n \in 1..Len(r) : g[n] \in places /\ r[n] = calls[g[n]]
  BY <1>7 DEF Picks
<1> HIDE DEF r
<1>9. \A n \in 1..Len(r) : Traced(items, ra3, r[n])
  BY <1>5, <1>8
<1>10. AllTraced(items, ra3, r)
  BY <1>6, <1>9 DEF AllTraced, IsSeq
<1>11. QED
  BY <1>1, <1>10

(* What may be called through an argument may be called.                   *)
LEMMA CalledMayBe ==
  ASSUME NEW items, NEW ra3, NEW i \in 1..Len(items), items[i].is = "call",
         NEW k \in ToSet(Positions(items[i], ra3))
  PROVE  CalledThrough(items, ra3, i, k) \subseteq MayBeCalled(items, ra3)
<1>1. ASSUME NEW f \in CalledThrough(items, ra3, i, k) PROVE f \in MayBeCalled(items, ra3)
  <2>1. f \in UNION {CalledThrough(items, ra3, i, l) : l \in ToSet(Positions(items[i], ra3))}
    BY <1>1
  <2> DEFINE U(j) == UNION {CalledThrough(items, ra3, j, l) : l \in ToSet(Positions(items[j], ra3))}
  <2>2. f \in U(i) /\ i \in {j \in 1..Len(items) : items[j].is = "call"}
    BY <2>1
  <2>3. MayBeCalled(items, ra3) = UNION {U(j) : j \in {j \in 1..Len(items) : items[j].is = "call"}}
    BY DEF MayBeCalled
  <2> HIDE DEF U
  <2>4. QED
    BY <2>2, <2>3
<1>2. QED
  BY <1>1

(* A call of collect for a shape that is traced to the same argument.      *)
LEMMA TracedAlso ==
  ASSUME NEW items, NEW ra3, NEW i \in 1..Len(items), NEW k, NEW c, NEW d, TracedTo(items, ra3, c, i, k),
         Fits(CalledThrough(items, ra3, i, k), ReachableNames(items, ra3, i, k), d.shape, d.kinds)
  PROVE  Traced(items, ra3, d)
BY DEF Traced, TracedTo

(* A function that is collected may be called.                             *)
LEMMA FunctionTraced ==
  ASSUME NEW items, NEW ra3, NEW c, Traced(items, ra3, c), c.shape.is = "function", c.kinds.function
  PROVE  c.shape.span \in MayBeCalled(items, ra3)
<1>1. PICK i \in 1..Len(items) : \E k : TracedTo(items, ra3, c, i, k)
  BY DEF Traced
<1>2. PICK k : TracedTo(items, ra3, c, i, k)
  BY <1>1
<1>3. c.shape.span \in CalledThrough(items, ra3, i, k)
  BY <1>2 DEF TracedTo, Fits
<1>4. QED
  BY <1>2, <1>3, CalledMayBe DEF TracedTo

(* The elements of one kind.                                               *)
OfKind(properties, kind) == Only(properties, {n \in 1..Len(properties) : properties[n].is = kind})

(* They are properties of that kind.                                       *)
LEMMA OfKindFrom ==
  ASSUME NEW S, NEW properties \in Seq(S), NEW kind
  PROVE  /\ OfKind(properties, kind) \in Seq(S)
         /\ \A n \in 1..Len(OfKind(properties, kind)) :
              \E m \in 1..Len(properties) : /\ properties[m].is = kind
                                            /\ OfKind(properties, kind)[n] = properties[m]
<1> DEFINE places == {n \in 1..Len(properties) : properties[n].is = kind}
           r == Only(properties, places)
<1>1. places \subseteq 1..Len(properties) /\ \A m \in places : properties[m].is = kind
  OBVIOUS
<1>2. OfKind(properties, kind) = r
  BY DEF OfKind
<1> HIDE DEF places
<1>3. r \in Seq(S) /\ \E g : Picks(r, properties, places \cap (1..Len(properties)), g)
  BY OnlyPicks
<1>4. PICK g : Picks(r, properties, places \cap (1..Len(properties)), g)
  BY <1>3
<1> HIDE DEF r
<1>5. \A n \in 1..Len(r) : g[n] \in places /\ r[n] = properties[g[n]]
  BY <1>4 DEF Picks
<1>6. QED
  BY <1>1, <1>2, <1>3, <1>5 DEF r

(* The methods of an object are marked, its values are collected.          *)
LEMMA ObjectTraced ==
  ASSUME NEW items, NEW ra3, NEW c, Traced(items, ra3, c), c.shape.is = "object", c.kinds.object
  PROVE  /\ {p.span : p \in ToSet(OfKind(c.shape.properties, "method"))} \subseteq MayBeCalled(items, ra3)
         /\ AllTraced(items, ra3, [n \in 1..Len(OfKind(c.shape.properties, "value")) |->
                                     Call(OfKind(c.shape.properties, "value")[n].shape, FUNCTION, TRUE)])
<1>1. PICK i \in 1..Len(items) : \E k : TracedTo(items, ra3, c, i, k)
  BY DEF Traced
<1>2. PICK k : TracedTo(items, ra3, c, i, k)
  BY <1>1
<1> DEFINE C == CalledThrough(items, ra3, i, k)
           R == ReachableNames(items, ra3, i, k)
           ps == c.shape.properties
           methods == OfKind(ps, "method")
           values == OfKind(ps, "value")
           calls == [n \in 1..Len(values) |-> Call(values[n].shape, FUNCTION, TRUE)]
<1>3. (\E S : ps \in Seq(S)) /\ FitsProps(C, R, ps)
  BY <1>2 DEF TracedTo, Fits
<1>4. PICK S : ps \in Seq(S)
  BY <1>3
<1>5. C \subseteq MayBeCalled(items, ra3)
  BY <1>2, CalledMayBe DEF TracedTo
<1> HIDE DEF C, R, ps
<1>6. /\ methods \in Seq(S) /\ values \in Seq(S)
      /\ \A n \in 1..Len(methods) : \E m \in 1..Len(ps) : ps[m].is = "method" /\ methods[n] = ps[m]
      /\ \A n \in 1..Len(values) : \E m \in 1..Len(ps) : ps[m].is = "value" /\ values[n] = ps[m]
  BY <1>4, OfKindFrom
<1> HIDE DEF methods, values
<1>7. \A n \in 1..Len(methods) : methods[n].span \in C
  BY <1>3, <1>6 DEF FitsProps, FitsProp
<1>8. {p.span : p \in ToSet(methods)} \subseteq MayBeCalled(items, ra3)
  BY <1>5, <1>7 DEF ToSet
<1>9. ASSUME NEW n \in 1..Len(values) PROVE Traced(items, ra3, Call(values[n].shape, FUNCTION, TRUE))
  <2> DEFINE shape == values[n].shape
             d == Call(shape, FUNCTION, TRUE)
  <2>1. FitsValue(C, R, shape)
    BY <1>3, <1>6 DEF FitsProps, FitsProp
  <2>2. FUNCTION.function /\ ~FUNCTION.object
    BY DEF FUNCTION
  <2>3. Wanted(FUNCTION) = {"function"}
    BY <2>2 DEF Wanted
  <2> HIDE DEF shape
  <2>4. Fits(C, R, shape, FUNCTION)
    BY <2>1, <2>2, <2>3 DEF Fits, FitsValue
  <2>5. d.shape = shape /\ d.kinds = FUNCTION
    BY DEF Call
  <2> HIDE DEF d
  <2>6. Traced(items, ra3, d)
    BY <1>2, <2>4, <2>5, TracedAlso DEF C, R
  <2>7. QED
    BY <2>6 DEF d, shape
<1>10. IsSeq(calls) /\ Len(calls) = Len(values)
  <2> DEFINE T == {Call(values[n].shape, FUNCTION, TRUE) : n \in 1..Len(values)}
  <2>1. calls \in [1..Len(values) -> T]
    OBVIOUS
  <2>4. Len(values) \in Nat
    BY <1>6
  <2> HIDE DEF calls, T
  <2>2. calls \in Seq(T) /\ Len(calls) = Len(values)
    BY <2>1, <2>4
  <2>3. QED
    BY <2>2 DEF IsSeq
<1>11. AllTraced(items, ra3, calls)
  <2>1. \A n \in 1..Len(values) : calls[n] = Call(values[n].shape, FUNCTION, TRUE)
    OBVIOUS
  <2> HIDE DEF calls
  <2>2. QED
    BY <1>9, <1>10, <2>1 DEF AllTraced
<1>12. QED
  BY <1>8, <1>11 DEF ps, methods, values

-----------------------------------------------------------------------------
(* What a reachable name is may be called.                                 *)
LEMMA SpansCalled ==
  ASSUME NEW items, NEW ra3, NEW i, NEW k, NEW r \in ReachableNames(items, ra3, i, k)
  PROVE  SpansOfName(items, r) \subseteq CalledThrough(items, ra3, i, k)
<1>1. ASSUME NEW f \in SpansOfName(items, r) PROVE f \in CalledThrough(items, ra3, i, k)
  <2>1. f \in UNION {SpansOfName(items, q) : q \in ReachableNames(items, ra3, i, k)}
    OBVIOUS
  <2>2. QED
    BY <2>1 DEF CalledThrough
<1>2. QED
  BY <1>1

(* A name that is not a worklet by hand: the functions that are declared   *)
(* with it may be called, and what it is given is collected in turn.       *)
LEMMA DeclaredTraced ==
  ASSUME NEW items, NEW ra3, NEW c, Traced(items, ra3, c), c.shape.is = "alias", c.kinds.function,
         ~HandWritten(items, c.shape.name), NEW span, Declared(items, c.shape.name, span)
  PROVE  span \in MayBeCalled(items, ra3)
<1>1. PICK i \in 1..Len(items) : \E k : TracedTo(items, ra3, c, i, k)
  BY DEF Traced
<1>2. PICK k : TracedTo(items, ra3, c, i, k)
  BY <1>1
<1> DEFINE n == c.shape.name
           r == <<"function", n>>
<1>3. r \in ReachableNames(items, ra3, i, k)
  BY <1>2, Sorted DEF TracedTo, Fits
<1>4. r[2] = n
  OBVIOUS
<1>5. PICK m \in 1..Len(items) : items[m].is = "fnDecl" /\ items[m].name = n /\ span = <<items[m].id, 0, 0>>
  BY DEF Declared
<1>6. m \in Definers(items, n)
  BY <1>5 DEF Definers
<1> HIDE DEF r, n
<1>7. span \in SpansOfName(items, r)
  <2>1. ~HandWritten(items, r[2])
    BY <1>4 DEF n
  <2> DEFINE D(l) == IF items[l].is = "fnDecl" THEN {<<items[l].id, 0, 0>>}
                     ELSE SpansOf(r[1], items[l].value, items[l].id, 0)
  <2>2. SpansOfName(items, r) = UNION {D(l) : l \in Definers(items, r[2])}
    BY <2>1 DEF SpansOfName
  <2>3. span \in D(m)
    BY <1>5
  <2> HIDE DEF D
  <2>4. QED
    BY <1>4, <1>6, <2>2, <2>3
<1>8. span \in CalledThrough(items, ra3, i, k)
  BY <1>3, <1>7, SpansCalled
<1>9. QED
  BY <1>2, <1>8, CalledMayBe DEF TracedTo

(* What the name is given by a declarator or an assignment is traced to the*)
(* same argument.                                                          *)
LEMMA GivenTraced ==
  ASSUME NEW items \in Seq(BodyItems), NEW ra3, NEW c, Traced(items, ra3, c), c.shape.is = "alias",
         ~HandWritten(items, c.shape.name), NEW shape \in Given(items, c.shape.name), NEW follow
  PROVE  Traced(items, ra3, Call(shape, c.kinds, follow))
<1>1. PICK i \in 1..Len(items) : \E k : TracedTo(items, ra3, c, i, k)
  BY DEF Traced
<1>2. PICK k : TracedTo(items, ra3, c, i, k)
  BY <1>1
<1> DEFINE n == c.shape.name
           kinds == c.kinds
           C == CalledThrough(items, ra3, i, k)
           R == ReachableNames(items, ra3, i, k)
<1>3. \A w \in Wanted(kinds) : <<w, n>> \in R
  BY <1>2 DEF TracedTo, Fits
<1>4. PICK m \in 1..Len(items) : /\ items[m].is \in {"var", "assign"} /\ items[m].name = n
                                 /\ shape = Describe(items[m].value, items[m].id, 0) /\ shape # None
  BY DEF Given
<1> DEFINE v == items[m].value
           id == items[m].id
<1>5. items[m] \in BodyItems
  OBVIOUS
<1>6. v \in Values
  BY <1>5, BodyFacts
<1>7. m \in Definers(items, n) /\ items[m].is # "fnDecl"
  BY <1>4 DEF Definers
<1>8. k \in 1..Len(items[i].args)
  BY <1>2 DEF TracedTo
<1>9. \A r \in R : FromName(items, r) \subseteq R
  BY <1>8, Reaches
<1>10. \A r \in R : SpansOfName(items, r) \subseteq C
  BY SpansCalled
<1> HIDE DEF C, R, v, id
<1>11. ASSUME NEW w \in Wanted(kinds) PROVE SpansOf(w, v, id, 0) \subseteq C /\ FromValue(w, v) \subseteq R
  <2> DEFINE r == <<w, n>>
  <2>1. r \in R /\ r[1] = w /\ r[2] = n
    BY <1>3
  <2>2. m \in Definers(items, r[2]) /\ ~HandWritten(items, r[2])
    BY <1>7, <2>1
  <2> HIDE DEF r
  <2>3. SpansOf(r[1], v, id, 0) \subseteq SpansOfName(items, r)
    <3> DEFINE D(l) == IF items[l].is = "fnDecl" THEN {<<items[l].id, 0, 0>>}
                       ELSE SpansOf(r[1], items[l].value, items[l].id, 0)
    <3>1. SpansOfName(items, r) = UNION {D(l) : l \in Definers(items, r[2])}
      BY <2>2 DEF SpansOfName
    <3>2. D(m) = SpansOf(r[1], v, id, 0)
      BY <1>7 DEF v, id
    <3> HIDE DEF D
    <3>3. QED
      BY <2>2, <3>1, <3>2
  <2>4. FromValue(r[1], v) \subseteq FromName(items, r)
    BY <2>2 DEF FromName, v
  <2>5. QED
    BY <1>9, <1>10, <2>1, <2>3, <2>4
<1>12. shape = Describe(v, id, 0) /\ Describe(v, id, 0) # None
  BY <1>4 DEF v, id
<1> HIDE DEF kinds
<1>13. Fits(C, R, Describe(v, id, 0), kinds)
  BY <1>6, <1>11, <1>12, DescribeFits
<1> DEFINE d == Call(shape, kinds, follow)
<1>14. d.shape = shape /\ d.kinds = kinds
  BY DEF Call
<1> HIDE DEF d
<1>15. Traced(items, ra3, d)
  BY <1>2, <1>12, <1>13, <1>14, TracedAlso DEF C, R
<1>16. QED
  BY <1>15 DEF d, kinds

Callbacking == {"callbacks", "inject", "done"}

(* What is known in each phase, what is still to be collected, and what    *)
(* was found: nothing that does not come from a callback.                  *)
SearchAt(ph, b, items, pos, d, as, w, sn, st, err) ==
  /\ ph \in Early \cup Late /\ pos \in 1..(Len(items) + 1)
  /\ ph \in Early => pos = 1 /\ d = NoDefinitions
  /\ ph \in Late => Defines(items, d)
  /\ ph = "definitions" => KnowsHands(items, d, pos - 1)
  /\ ph \in Callbacking => KnowsHands(items, d, Len(items))
  /\ ph # "callbacks" => as = << >> /\ w = << >>
  /\ ph = "callbacks" => AllTraced(items, R3(b), as) /\ AllTraced(items, R3(b), w)
  /\ sn \subseteq Names /\ err \in BOOLEAN
  /\ ph \notin Callbacking => st = {}
  /\ st \subseteq MayBeCalled(items, R3(b))

SearchInv == SearchAt(phase, build, body, at, definitions, args, work, seen, sites, error)

(* The program is a sequence of items in every phase.                      *)
LEMMA BodyTypeAt ==
  ASSUME NEW ph, NEW b, NEW s, NEW items, NEW marks, NEW spans, BodyAt(ph, b, s, items, marks, spans)
  PROVE  items \in Seq(BodyItems) /\ Len(items) \in Nat
<1> DEFINE f == FiledOf(b, s)
<1>1. IsProgram(s) /\ ph \in Early \cup Late
  BY DEF BodyAt
<1>2. s \in Seq(Items) /\ f \in Seq(Items) /\ \E g : Ordered(f, s, Lgc(b), R3(b), g)
  BY <1>1, FiledOrdered DEF IsProgram, FiledOf
<1>3. PICK g : Ordered(f, s, Lgc(b), R3(b), g)
  BY <1>2
<1> HIDE DEF f
<1>4. s \in Seq(BodyItems) /\ f \in Seq(BodyItems)
  BY <1>2, ItemsBody
<1>5. Finished(f, Cls(b)) \in Seq(BodyItems)
  BY <1>1, <1>2, <1>3, FinishedPlaced
<1>6. items \in {s, f, Finished(f, Cls(b))}
  BY <1>1 DEF BodyAt, Early, FinishedOf, f
<1>7. items \in Seq(BodyItems)
  BY <1>4, <1>5, <1>6
<1>8. QED
  BY <1>7

(* The same of the current state.                                          *)
LEMMA BodyType == ASSUME BodyInv PROVE body \in Seq(BodyItems) /\ Len(body) \in Nat
BY BodyTypeAt DEF BodyInv

(* At first nothing is known, to be collected or found.                    *)
LEMMA InitSearch == ASSUME Init, BodyInv PROVE SearchInv
<1>1. /\ phase = "file" /\ at = 1 /\ definitions = NoDefinitions /\ args = << >> /\ work = << >>
      /\ seen = {} /\ sites = {} /\ error = FALSE
  BY DEF Init
<1>2. 1 \in 1..(Len(body) + 1)
  BY BodyType
<1>3. QED
  BY <1>1, <1>2 DEF SearchInv, SearchAt, Early, Late, Callbacking

-----------------------------------------------------------------------------
(* The steps of collect.                                                   *)
CollectStep == CollectFunction \/ CollectObject \/ CollectAlias

(* The next call of collect is traced, and so are those below it.          *)
LEMMA TopTraced ==
  ASSUME SearchInv, phase = "callbacks", work # << >>
  PROVE  Traced(body, RA3, Top) /\ AllTraced(body, RA3, Tail(work))
<1>1. AllTraced(body, RA3, work)
  BY OptionsOf DEF SearchInv, SearchAt
<1>2. QED
  BY <1>1, TracedTail DEF Top

(* Collecting a function keeps what is found and still to be collected     *)
(* traced.                                                                 *)
LEMMA NextFunction ==
  ASSUME BodyInv, SearchInv, CollectFunction
  PROVE  /\ sites' \subseteq MayBeCalled(body, RA3) /\ AllTraced(body, RA3, work')
         /\ seen' \subseteq Names /\ error' \in BOOLEAN
<1>1. phase = "callbacks" /\ work # << >> /\ Top.shape.is = "function"
  BY DEF CollectFunction, Collect
<1>2. Traced(body, RA3, Top) /\ AllTraced(body, RA3, Tail(work))
  BY <1>1, TopTraced
<1>3. sites \subseteq MayBeCalled(body, RA3) /\ seen \subseteq Names /\ error \in BOOLEAN
  BY OptionsOf DEF SearchInv, SearchAt
<1>4. Top.kinds.function => Top.shape.span \in MayBeCalled(body, RA3)
  BY <1>1, <1>2, FunctionTraced
<1>5. QED
  BY <1>2, <1>3, <1>4 DEF CollectFunction

(* So does collecting an object,                                           *)
LEMMA NextObject ==
  ASSUME BodyInv, SearchInv, CollectObject
  PROVE  /\ sites' \subseteq MayBeCalled(body, RA3) /\ AllTraced(body, RA3, work')
         /\ seen' \subseteq Names /\ error' \in BOOLEAN
<1>1. phase = "callbacks" /\ work # << >> /\ Top.shape.is = "object"
  BY DEF CollectObject, Collect
<1>2. Traced(body, RA3, Top) /\ AllTraced(body, RA3, Tail(work))
  BY <1>1, TopTraced
<1>3. sites \subseteq MayBeCalled(body, RA3) /\ seen \subseteq Names /\ error \in BOOLEAN
  BY OptionsOf DEF SearchInv, SearchAt
<1>4. seen' = seen
  BY DEF CollectObject
<1>5. CASE ~Top.kinds.object
  BY <1>2, <1>3, <1>4, <1>5 DEF CollectObject
<1>6. CASE Top.kinds.object
  <2> DEFINE ps == Top.shape.properties
             found == {p.span : p \in ToSet(OfKind(ps, "method"))}
             calls == [n \in 1..Len(OfKind(ps, "value")) |->
                         Call(OfKind(ps, "value")[n].shape, FUNCTION, TRUE)]
  <2>1. /\ sites' = sites \cup found
        /\ error' = (error \/ OfKind(ps, "unsupported") # << >>)
        /\ work' = calls \o Tail(work)
    BY <1>6 DEF CollectObject, OfKind
  <2>2. found \subseteq MayBeCalled(body, RA3) /\ AllTraced(body, RA3, calls)
    BY <1>1, <1>2, <1>6, ObjectTraced
  <2> HIDE DEF calls, found
  <2>3. AllTraced(body, RA3, work')
    BY <1>2, <2>1, <2>2, TracedBoth
  <2>4. QED
    BY <1>3, <1>4, <2>1, <2>2, <2>3
<1>7. QED
  BY <1>5, <1>6

(* What a name leads to.                                                   *)
LEMMA FollowedTraced ==
  ASSUME body \in Seq(BodyItems), Defines(body, definitions), NEW c, Traced(body, RA3, c),
         c.shape.is = "alias", ~HandWritten(body, c.shape.name)
  PROVE  AllTraced(body, RA3, Followed(c.shape.name, c.kinds))
<1> DEFINE n == c.shape.name
           kinds == c.kinds
           last == LastAssignment(n, kinds)
           definition == IF n \in definitions.rebound THEN last
                         ELSE IF n \in DOMAIN definitions.declarators
                              THEN definitions.declarators[n] ELSE None
           follow == n \notin definitions.rebound
<1>1. last = None \/ last \in Given(body, n)
  <2> DEFINE fitting == Fitting(n, kinds)
  <2>1. CASE n \notin DOMAIN definitions.assignments
    <3>1. fitting = << >>
      BY <2>1 DEF Fitting
    <3>2. QED
      BY <3>1 DEF LastAssignment
  <2>2. CASE n \in DOMAIN definitions.assignments
    <3> DEFINE assigned == definitions.assignments[n]
               S == Given(body, n)
               places == {l \in 1..Len(assigned) : HasShape(assigned[l], kinds)}
    <3>1. assigned \in Seq(S)
      BY <2>2 DEF Defines
    <3>2. fitting = Only(assigned, places)
      BY <2>2 DEF Fitting
    <3> HIDE DEF assigned, places, S
    <3>3. Only(assigned, places) \in Seq(S)
      BY <3>1, OnlyPicks
    <3> HIDE DEF fitting
    <3>4. fitting \in Seq(S)
      BY <3>2, <3>3
    <3>5. fitting # << >> => Len(fitting) \in 1..Len(fitting)
      BY <3>4
    <3>6. fitting # << >> => Last(fitting) \in S
      BY <3>4, <3>5 DEF Last
    <3>7. last = IF fitting = << >> THEN None ELSE Last(fitting)
      BY DEF LastAssignment, fitting
    <3>8. QED
      BY <3>6, <3>7 DEF S
  <2>3. QED
    BY <2>1, <2>2
<1> HIDE DEF last
<1>2. definition = None \/ definition \in Given(body, n)
  BY <1>1 DEF Defines
<1>3. Followed(n, kinds) = IF definition = None THEN << >> ELSE <<Call(definition, kinds, follow)>>
  BY DEF Followed, last
<1> HIDE DEF definition, follow
<1>4. CASE definition = None
  BY <1>3, <1>4, TracedNone
<1>5. CASE definition # None
  <2>1. Traced(body, RA3, Call(definition, kinds, follow))
    BY <1>2, <1>5, GivenTraced
  <2>2. AllTraced(body, RA3, <<Call(definition, kinds, follow)>>)
    BY <2>1, TracedOne
  <2>3. QED
    BY <1>3, <1>5, <2>2
<1>6. QED
  BY <1>4, <1>5

(* and so does following a name.                                           *)
LEMMA NextAlias ==
  ASSUME BodyInv, SearchInv, CollectAlias
  PROVE  /\ sites' \subseteq MayBeCalled(body, RA3) /\ AllTraced(body, RA3, work')
         /\ seen' \subseteq Names /\ error' \in BOOLEAN
<1> DEFINE name == Top.shape.name
           kinds == Top.kinds
           fds == definitions.function_declarations
<1>1. phase = "callbacks" /\ work # << >> /\ Top.shape.is = "alias"
  BY DEF CollectAlias, Collect
<1>2. Traced(body, RA3, Top) /\ AllTraced(body, RA3, Tail(work))
  BY <1>1, TopTraced
<1>3. sites \subseteq MayBeCalled(body, RA3) /\ seen \subseteq Names /\ error \in BOOLEAN
  BY OptionsOf DEF SearchInv, SearchAt
<1>4. name \in Names
  <2>1. \E i, k : TracedTo(body, RA3, Top, i, k)
    BY <1>2 DEF Traced
  <2>2. QED
    BY <1>1, <2>1 DEF TracedTo, Fits
<1>5. Defines(body, definitions) /\ KnowsHands(body, definitions, Len(body)) /\ body \in Seq(BodyItems)
  BY <1>1, BodyType DEF SearchInv, SearchAt, Late, Callbacking
<1>6. seen' \subseteq Names /\ error' \in BOOLEAN
  BY <1>3, <1>4 DEF CollectAlias
<1>7. CASE ~Top.follow \/ StopsAt(name)
  BY <1>2, <1>3, <1>6, <1>7 DEF CollectAlias
<1>8. CASE ~(~Top.follow \/ StopsAt(name))
  <2>1. ~HandWritten(body, name)
    BY <1>5, <1>8 DEF StopsAt, HandWritten, KnowsHands
  <2> DEFINE IsFunction == kinds.function /\ name \in DOMAIN fds
             more == IF IsFunction THEN << >> ELSE Followed(name, kinds)
  <2>2. /\ sites' = IF IsFunction THEN sites \cup {fds[name]} ELSE sites
        /\ work' = more \o Tail(work)
    BY <1>8 DEF CollectAlias
  <2>3. IsFunction => fds[name] \in MayBeCalled(body, RA3)
    <3>1. IsFunction => Declared(body, name, fds[name])
      BY <1>5 DEF Defines
    <3>2. QED
      BY <1>1, <1>2, <2>1, <3>1, DeclaredTraced
  <2>4. AllTraced(body, RA3, Followed(name, kinds))
    BY <1>1, <1>2, <1>5, <2>1, FollowedTraced
  <2>5. AllTraced(body, RA3, more)
    BY <2>4, TracedNone
  <2> HIDE DEF more, IsFunction
  <2>6. AllTraced(body, RA3, work')
    BY <1>2, <2>2, <2>5, TracedBoth
  <2>7. QED
    BY <1>3, <1>6, <2>2, <2>3, <2>6
<1>9. QED
  BY <1>7, <1>8

(* Every step keeps what is known, to be collected and found within the    *)
(* program's callbacks.                                                    *)
LEMMA NextSearch == ASSUME BodyInv, BodyInv', SearchInv, [Next]_vars PROVE SearchInv'
<1>1. body \in Seq(BodyItems) /\ Len(body) \in Nat
  BY BodyType
<1>2. body' \in Seq(BodyItems) /\ Len(body') \in Nat
  BY BodyTypeAt DEF BodyInv
<1>3. /\ phase \in Early \cup Late /\ at \in 1..(Len(body) + 1)
      /\ seen \subseteq Names /\ error \in BOOLEAN /\ sites \subseteq MayBeCalled(body, R3(build))
  BY DEF SearchInv, SearchAt
<1>4. RA3 = R3(build)
  BY OptionsOf
<1>5. CASE ProcessFile
  <2>1. /\ phase = "file" /\ phase' = "classes"
        /\ UNCHANGED <<build, at, definitions, args, work, seen, sites, error>>
    BY <1>5 DEF ProcessFile, callbacks
  <2>2. at = 1 /\ definitions = NoDefinitions /\ args = << >> /\ work = << >> /\ sites = {}
    BY <2>1 DEF SearchInv, SearchAt, Early, Callbacking
  <2>3. at' \in 1..(Len(body') + 1)
    BY <1>2, <2>1, <2>2
  <2>4. QED
    BY <1>3, <2>1, <2>2, <2>3 DEF SearchInv, SearchAt, Early, Late, Callbacking
<1>6. CASE ProcessClasses
  <2>1. /\ phase = "classes" /\ phase' = "definitions"
        /\ UNCHANGED <<build, at, definitions, args, work, seen, sites, error>>
    BY <1>6 DEF ProcessClasses, callbacks
  <2>2. at = 1 /\ definitions = NoDefinitions /\ args = << >> /\ work = << >> /\ sites = {}
    BY <2>1 DEF SearchInv, SearchAt, Early, Callbacking
  <2>3. at' \in 1..(Len(body') + 1) /\ at' - 1 = 0
    BY <1>2, <2>1, <2>2
  <2>4. Defines(body', definitions') /\ KnowsHands(body', definitions', at' - 1)
    BY <2>1, <2>2, <2>3, NoneDefined
  <2>5. QED
    BY <1>3, <2>1, <2>2, <2>3, <2>4 DEF SearchInv, SearchAt, Early, Late, Callbacking
<1>7. CASE VisitFnDecl \/ VisitVarDeclarator \/ VisitAssignExpr \/ VisitUpdateExpr \/ VisitMemberExpr \/ VisitOther
  <2>1. phase = "definitions"
    BY <1>7 DEF VisitFnDecl, VisitVarDeclarator, VisitAssignExpr, VisitUpdateExpr, VisitMemberExpr, VisitOther, Visit
  <2>2. DefinitionsNow(at - 1) /\ args = << >> /\ work = << >> /\ sites = {}
    BY <2>1 DEF SearchInv, SearchAt, DefinitionsNow, Late, Callbacking
  <2>3. /\ at \in 1..Len(body) /\ at' = at + 1 /\ phase' = phase
        /\ UNCHANGED <<build, source, body, callbacks, directives>>
        /\ Defines(body, definitions') /\ KnowsHands(body, definitions', at)
    BY <1>1, <1>3, <1>7, <2>1, <2>2, NextDefinitions
  <2>4. at' \in 1..(Len(body) + 1) /\ at' - 1 = at
    BY <1>1, <2>3
  <2>5. /\ body' = body /\ build' = build /\ args' = args /\ work' = work /\ seen' = seen
        /\ sites' = sites /\ error' = error
    BY <2>3 DEF callbacks
  <2>6. KnowsHands(body', definitions', at' - 1) /\ Defines(body', definitions') /\ at' \in 1..(Len(body') + 1)
    BY <2>3, <2>4, <2>5
  <2>7. QED
    BY <1>3, <2>1, <2>2, <2>3, <2>5, <2>6 DEF SearchInv, SearchAt, Early, Late, Callbacking
<1>8. CASE EndDefinitions
  <2>1. /\ phase = "definitions" /\ at > Len(body) /\ phase' = "callbacks" /\ at' = 1
        /\ UNCHANGED <<build, body, definitions, args, work, seen, sites, error>>
    BY <1>8 DEF EndDefinitions, callbacks
  <2>2. Defines(body, definitions) /\ KnowsHands(body, definitions, at - 1) /\ args = << >> /\ work = << >>
    BY <2>1 DEF SearchInv, SearchAt, Late
  <2>3. at - 1 = Len(body) /\ at' \in 1..(Len(body) + 1)
    BY <1>1, <1>3, <2>1
  <2>4. AllTraced(body, R3(build), << >>)
    BY TracedNone
  <2>5. QED
    BY <1>3, <2>1, <2>2, <2>3, <2>4 DEF SearchInv, SearchAt, Early, Late, Callbacking
<1>9. CASE VisitCall
  <2> DEFINE found == IF body[at].is = "call" THEN Arguments(body[at], RA3) ELSE << >>
  <2>1. /\ phase = "callbacks" /\ at <= Len(body) /\ phase' = phase /\ at' = at + 1 /\ args' = found
        /\ UNCHANGED <<build, body, definitions, work, seen, sites, error>>
    BY <1>9 DEF VisitCall
  <2>2. at \in 1..Len(body) /\ at' \in 1..(Len(body) + 1)
    BY <1>1, <1>3, <2>1
  <2>3. AllTraced(body, R3(build), found)
    BY <1>1, <1>4, <2>2, ArgumentsTraced, TracedNone
  <2> HIDE DEF found
  <2>4. QED
    BY <1>3, <2>1, <2>2, <2>3 DEF SearchInv, SearchAt, Early, Late, Callbacking
<1>10. CASE CollectArgument
  <2>1. /\ phase = "callbacks" /\ args # << >> /\ phase' = phase
        /\ work' = <<Head(args)>> /\ args' = Tail(args) /\ seen' = {}
        /\ UNCHANGED <<build, body, at, definitions, sites, error>>
    BY <1>10 DEF CollectArgument
  <2>2. AllTraced(body, R3(build), args)
    BY <2>1 DEF SearchInv, SearchAt
  <2>3. Traced(body, R3(build), Head(args)) /\ AllTraced(body, R3(build), Tail(args))
    BY <2>1, <2>2, TracedTail
  <2>4. AllTraced(body, R3(build), <<Head(args)>>)
    BY <2>3, TracedOne
  <2>5. QED
    BY <1>3, <2>1, <2>3, <2>4 DEF SearchInv, SearchAt, Early, Late, Callbacking
<1>11. CASE CollectStep
  <2>1. /\ phase = "callbacks" /\ phase' = phase /\ UNCHANGED <<build, body, at, definitions, args>>
    BY <1>11 DEF CollectStep, CollectFunction, CollectObject, CollectAlias, Collect
  <2>2. /\ sites' \subseteq MayBeCalled(body, RA3) /\ AllTraced(body, RA3, work')
        /\ seen' \subseteq Names /\ error' \in BOOLEAN
    BY <1>11, NextFunction, NextObject, NextAlias DEF CollectStep
  <2>3. QED
    BY <1>3, <1>4, <2>1, <2>2 DEF SearchInv, SearchAt, Early, Late, Callbacking
<1>12. CASE EndCallbacks
  <2>1. /\ phase = "callbacks" /\ args = << >> /\ work = << >> /\ phase' = "inject"
        /\ UNCHANGED <<build, body, at, definitions, args, work, seen, sites, error>>
    BY <1>12 DEF EndCallbacks, callbacks
  <2>2. QED
    BY <1>3, <2>1 DEF SearchInv, SearchAt, Early, Late, Callbacking
<1>13. CASE Inject
  <2>1. /\ phase = "inject" /\ phase' = "done"
        /\ UNCHANGED <<build, body, at, definitions, args, work, seen, sites, error>>
    BY <1>13 DEF Inject, callbacks
  <2>2. QED
    BY <1>3, <2>1 DEF SearchInv, SearchAt, Early, Late, Callbacking
<1>14. CASE UNCHANGED vars
  BY <1>14 DEF vars, callbacks, SearchInv
<1>15. QED
  BY <1>5, <1>6, <1>7, <1>8, <1>9, <1>10, <1>11, <1>12, <1>13, <1>14 DEF Next, CollectStep, Terminated

(* Both invariants hold in every state.                                    *)
LEMMA AlwaysSearch == Spec => [](BodyInv /\ SearchInv)
<1>1. Init => BodyInv /\ SearchInv
  BY InitBody, InitSearch
<1>2. BodyInv /\ SearchInv /\ [Next]_vars => (BodyInv /\ SearchInv)'
  BY NextBody, NextSearch
<1>3. QED
  BY <1>1, <1>2, PTL DEF Spec

-----------------------------------------------------------------------------
(* Items of the finished program that hold functions and were written at   *)
(* one place are one item.                                                 *)
LEMMA OnePlace ==
  ASSUME NEW s, IsProgram(s), NEW legacy, NEW ra3, NEW classes, NEW r, NEW p, NEW o,
         Placed(r, s, legacy, ra3, classes, p, o), NEW i \in 1..Len(r), NEW f \in FunctionsIn(r[i])
  PROVE  LET item == AsFiled(s, p[i], legacy, ra3)
         IN  /\ ~IsLowered(item, classes) => r[i] = item
             /\ IsLowered(item, classes) => r[i] = Factory(item)
<1> DEFINE item == AsFiled(s, p[i], legacy, ra3)
           x == IF item.export = "default" THEN "no" ELSE item.export
<1>1. item \in Items
  BY PlacedItem, FiledItem
<1>2. CASE ~IsLowered(item, classes)
  BY <1>2, PlacedItem
<1>3. CASE IsLowered(item, classes)
  <2>1. r[i] = Factory(item) \/ r[i] = CallOf(item, x) \/ r[i] = DefaultOf(item)
    BY <1>3, PlacedItem
  <2>2. IsWorkletClass(item)
    BY <1>3 DEF IsLowered
  <2>3. x \in Exports
    BY <1>1, ItemFacts DEF Exports
  <2>4. /\ CallOf(item, x).is = "var" /\ CallOf(item, x).value = Other /\ CallOf(item, x).args = << >>
        /\ DefaultOf(item).is = "exportDefault" /\ DefaultOf(item).args = << >>
        /\ DefaultOf(item).value = Value("name", item.name, << >>)
    BY <1>1, <2>2, <2>3, CallItem, DefaultItem
  <2>5. \A y : y.args = << >> /\ y.is # "fnDecl" /\ y.value.is \in {"name", "other"} => FunctionsIn(y) = {}
    <3>1. \A v, a, b : v.is \in {"name", "other"} => FunctionsOf(v, a, b) = {}
      BY DEF FunctionsOf
    <3>2. \A y : y.args = << >> => {FunctionsOf(y.args[k], y.id, k) : k \in 1..Len(y.args)} = {}
      <4>1. Len(<< >>) = 0
        OBVIOUS
      <4>2. QED
        BY <4>1
    <3>3. QED
      BY <3>1, <3>2 DEF FunctionsIn
  <2>6. Value("name", item.name, << >>).is = "name" /\ Other.is = "other"
    BY OtherValue DEF Value
  <2>7. FunctionsIn(CallOf(item, x)) = {} /\ FunctionsIn(DefaultOf(item)) = {}
    BY <2>4, <2>5, <2>6
  <2>8. QED
    BY <1>3, <2>1, <2>7
<1>4. QED
  BY <1>2, <1>3

(* A function of an item has the item's id.                                *)
LEMMA FunctionIds ==
  ASSUME NEW item, NEW f \in FunctionsIn(item)
  PROVE  f[1] = item.id
<1>1. \A v, k : \A g \in FunctionsOf(v, item.id, k) : g[1] = item.id
  BY DEF FunctionsOf
<1>2. QED
  BY <1>1 DEF FunctionsIn

(* OnlyCallbacksMarked follows from the two invariants.                    *)
LEMMA SearchOnly == ASSUME BodyInv, SearchInv PROVE OnlyCallbacksMarked
<1> SUFFICES ASSUME phase = "done", ~HasFileDirective(source),
                    NEW i \in 1..Len(body), NEW f \in FunctionsIn(body[i]), f \in directives
             PROVE  SpanIn(body[i], f) \in MayBeCalled(body, RA3) \/ body[i].name \notin Names \cup {None}
  BY DEF OnlyCallbacksMarked
<1>1. phase \in Late /\ IsProgram(source) /\ build \in Build
  BY DEF Late, BodyInv, BodyAt
<1>p. PICK p : \E o : PlacedNow(p, o)
  BY <1>1, BodyPlaced
<1>2. PICK o : PlacedNow(p, o)
  BY <1>p
<1>3. Placed(body, source, Lgc(build), R3(build), Cls(build), p, o)
  BY <1>2 DEF PlacedNow
<1>4. directives = MarkedOf(build, source) \cup SiteFunctions(body, sites)
  BY DEF BodyInv, BodyAt
<1>5. sites \subseteq MayBeCalled(body, RA3)
  BY OptionsOf DEF SearchInv, SearchAt
<1> DEFINE At(j) == AsFiled(source, p[j], Lgc(build), R3(build))
<1>6. p[i] \in Kept(source) /\ body[i].id = p[i] /\ f[1] = p[i]
  BY <1>1, <1>3, PlacedItem, FunctionIds
<1>7. At(i) \in Items /\ At(i).id = p[i]
  BY <1>1, <1>6, FiledItem
<1>8. CASE f \in SiteFunctions(body, sites)
  <2>1. PICK j \in 1..Len(body) : f \in FunctionsIn(body[j]) /\ SpanIn(body[j], f) \in sites
    BY <1>8 DEF SiteFunctions
  <2>2. p[j] = p[i]
    BY <1>1, <1>3, <1>6, <2>1, PlacedItem, FunctionIds
  <2>3. /\ ~IsLowered(At(i), Cls(build)) => body[i] = At(i)
        /\ IsLowered(At(i), Cls(build)) => body[i] = Factory(At(i))
    BY <1>1, <1>3, OnePlace
  <2>4. /\ ~IsLowered(At(j), Cls(build)) => body[j] = At(j)
        /\ IsLowered(At(j), Cls(build)) => body[j] = Factory(At(j))
    BY <1>1, <1>3, <2>1, OnePlace
  <2>5. At(i) = At(j)
    BY <2>2
  <2> HIDE DEF At
  <2>6. body[i] = body[j]
    BY <2>3, <2>4, <2>5
  <2>7. QED
    BY <1>5, <2>1, <2>6
<1>9. CASE f \in MarkedOf(build, source)
  <2> DEFINE filed == FiledOf(build, source)
             L == {l \in 1..Len(filed) : IsWorkletClass(filed[l])}
  <2>1. f \in LoweredIn(filed, Cls(build))
    BY <1>9 DEF MarkedOf, Injections
  <2>2. Cls(build) /\ \E l \in L : f = <<filed[l].id, 0, 0>>
    BY <2>1 DEF LoweredIn
  <2>3. PICK l \in 1..Len(filed) : IsWorkletClass(filed[l]) /\ f = <<filed[l].id, 0, 0>>
    BY <2>2
  <2>4. filed = source
    BY DEF FiledOf, Filed
  <2>5. filed[l].id = l /\ l = p[i]
    BY <1>1, <1>6, <2>3, <2>4 DEF IsProgram
  <2>6. At(i) = filed[l]
    BY <2>4, <2>5 DEF AsFiled
  <2>7. IsLowered(At(i), Cls(build))
    BY <2>2, <2>3, <2>6 DEF IsLowered
  <2>8. body[i] = Factory(At(i))
    BY <1>1, <1>3, <2>7, OnePlace
  <2>9. body[i].name \in FactoryNames
    BY <1>7, <2>7, <2>8, FactoryItem DEF IsLowered
  <2>10. QED
    BY <2>9, FactoryAssumption DEF FactoryNames
<1>10. QED
  BY <1>4, <1>8, <1>9

(* Unless the file says so, nothing becomes a worklet but the factories of *)
(* classes and what may reach a callback without going through a worklet   *)
(* that was written by hand.                                               *)
THEOREM OnlyCallbacksAlwaysMarked == Spec => []OnlyCallbacksMarked
BY AlwaysSearch, SearchOnly, PTL

AllFunctions(items) == UNION {FunctionsIn(items[m]) : m \in 1..Len(items)}

(* The marker that an object gets does not lose a function.                *)
LEMMA MarkerFunctions ==
  ASSUME NEW v \in Values, NEW i, NEW k
  PROVE  FunctionsOf(v, i, k) \subseteq FunctionsOf(WithMarker(v), i, k)
<1> DEFINE w == WithMarker(v)
           kinds == {"method", "thisMethod", "fn", "nested"}
<1>1. w.is = v.is /\ Len(w.props) >= Len(v.props) /\ \A j \in 1..Len(v.props) : w.props[j] = v.props[j]
  BY MarkerValue
<1>2. w \in Values
  BY MarkerValue
<1>3. Len(v.props) \in Nat /\ Len(w.props) \in Nat
  BY <1>2, ValueFacts
<1> HIDE DEF w
<1>4. CASE v.is = "object"
  <2>1. \A j \in 1..Len(v.props) : j \in 1..Len(w.props) /\ w.props[j].is = v.props[j].is
    BY <1>1, <1>3
  <2>2. FunctionsOf(v, i, k) = {<<i, k, j>> : j \in {j \in 1..Len(v.props) : v.props[j].is \in kinds}}
    BY <1>4 DEF FunctionsOf
  <2>3. FunctionsOf(w, i, k) = {<<i, k, j>> : j \in {j \in 1..Len(w.props) : w.props[j].is \in kinds}}
    BY <1>1, <1>4 DEF FunctionsOf
  <2>4. FunctionsOf(v, i, k) \subseteq FunctionsOf(w, i, k)
    BY <2>1, <2>2, <2>3
  <2>5. QED
    BY <2>4 DEF w
<1>5. CASE v.is # "object"
  <2>1. FunctionsOf(v, i, k) \subseteq FunctionsOf(w, i, k)
    BY <1>1, <1>5 DEF FunctionsOf
  <2>2. QED
    BY <2>1 DEF w
<1>6. QED
  BY <1>4, <1>5

(* What the file directive marks is in the items that it leaves.           *)
LEMMA InjectedFunctions ==
  ASSUME NEW s, IsProgram(s), HasFileDirective(s), NEW legacy, NEW ra3, NEW m \in 1..Len(s),
         NEW f \in InjectedIn(s[m], ra3)
  PROVE  /\ m \in Kept(s) /\ s[m].is # "class"
         /\ f \in FunctionsIn(AsFiled(s, m, legacy, ra3))
<1> DEFINE item == AsFiled(s, m, legacy, ra3)
<1>1. s[m].is \in {"fnDecl", "var", "exportDefault"}
  BY DEF InjectedIn
<1>2. m \in Kept(s)
  BY <1>1 DEF Kept
<1>3. /\ item.id = m /\ item.is = s[m].is /\ item.value \in {s[m].value, WithMarker(s[m].value)}
      /\ s[m] \in Items /\ s[m].id = m
  BY <1>2, FiledItem, KeptRange
<1> HIDE DEF item
<1>4. CASE s[m].is = "fnDecl"
  <2>1. f = <<m, 0, 0>>
    BY <1>3, <1>4 DEF InjectedIn
  <2>2. f \in FunctionsIn(item)
    BY <1>3, <1>4, <2>1 DEF FunctionsIn
  <2>3. QED
    BY <1>1, <1>2, <2>2 DEF item
<1>5. CASE s[m].is \in {"var", "exportDefault"}
  <2> DEFINE v == s[m].value
  <2>1. v \in Values
    BY <1>3, ItemFacts
  <2>2. f \in FunctionsOf(v, m, 0)
    <3>1. f \in Injected(v, m, ra3)
      BY <1>3, <1>5 DEF InjectedIn
    <3>2. QED
      BY <3>1 DEF Injected
  <2>3. f \in FunctionsOf(item.value, m, 0)
    <3> HIDE DEF v
    <3>1. FunctionsOf(v, m, 0) \subseteq FunctionsOf(WithMarker(v), m, 0)
      BY <2>1, MarkerFunctions
    <3>2. QED
      BY <1>3, <2>2, <3>1 DEF v
  <2>4. f \in FunctionsIn(item)
    BY <1>3, <1>5, <2>3 DEF FunctionsIn
  <2>5. QED
    BY <1>1, <1>2, <2>4 DEF item
<1>6. QED
  BY <1>1, <1>4, <1>5

(* A function of an item is a function of the program.                     *)
LEMMA InAll ==
  ASSUME NEW items, NEW i \in 1..Len(items), NEW f \in FunctionsIn(items[i])
  PROVE  f \in AllFunctions(items)
BY DEF AllFunctions

(* After the file directive, whatever is marked is a function of the       *)
(* program.                                                                *)
LEMMA DirectivesBeforeClasses ==
  ASSUME NEW b, NEW s, IsProgram(s)
  PROVE  Injections(s, R3(b)) \subseteq AllFunctions(FiledOf(b, s))
<1> SUFFICES ASSUME NEW f \in Injections(s, R3(b)) PROVE f \in AllFunctions(FiledOf(b, s))
  OBVIOUS
<1>1. HasFileDirective(s) /\ \E m \in 1..Len(s) : f \in InjectedIn(s[m], R3(b))
  BY DEF Injections
<1>2. PICK m \in 1..Len(s) : f \in InjectedIn(s[m], R3(b))
  BY <1>1
<1> DEFINE items == FiledOf(b, s)
<1>3. \E g : Ordered(items, s, Lgc(b), R3(b), g)
  BY FiledOrdered DEF FiledOf
<1>4. PICK g : Ordered(items, s, Lgc(b), R3(b), g)
  BY <1>3
<1>5. m \in Kept(s) /\ f \in FunctionsIn(AsFiled(s, m, Lgc(b), R3(b)))
  BY <1>1, <1>2, InjectedFunctions
<1> HIDE DEF items
<1>6. PICK i \in 1..Len(items) : items[i] = AsFiled(s, m, Lgc(b), R3(b))
  BY <1>4, <1>5 DEF Ordered
<1>7. f \in AllFunctions(items)
  BY <1>5, <1>6, InAll
<1>8. QED
  BY <1>7 DEF items

(* After the classes as well.                                              *)
LEMMA DirectivesAfterClasses ==
  ASSUME NEW b, NEW s, IsProgram(s)
  PROVE  MarkedOf(b, s) \subseteq AllFunctions(FinishedOf(b, s))
<1> SUFFICES ASSUME NEW f \in MarkedOf(b, s) PROVE f \in AllFunctions(FinishedOf(b, s))
  OBVIOUS
<1> DEFINE filed == FiledOf(b, s)
           r == FinishedOf(b, s)
<1>1. filed \in Seq(Items) /\ \E g : Ordered(filed, s, Lgc(b), R3(b), g)
  BY FiledOrdered DEF FiledOf
<1>2. PICK g : Ordered(filed, s, Lgc(b), R3(b), g)
  BY <1>1
<1>3. r = Finished(filed, Cls(b))
  BY DEF FinishedOf
<1> HIDE DEF filed, r
<1>4. \E p, o : Placed(r, s, Lgc(b), R3(b), Cls(b), p, o)
  BY <1>1, <1>2, <1>3, FinishedPlaced
<1>p. PICK p : \E o : Placed(r, s, Lgc(b), R3(b), Cls(b), p, o)
  BY <1>4
<1>5. PICK o : Placed(r, s, Lgc(b), R3(b), Cls(b), p, o)
  BY <1>p
<1>6. CASE f \in Injections(s, R3(b))
  <2>1. HasFileDirective(s) /\ \E m \in 1..Len(s) : f \in InjectedIn(s[m], R3(b))
    BY <1>6 DEF Injections
  <2>2. PICK m \in 1..Len(s) : f \in InjectedIn(s[m], R3(b))
    BY <2>1
  <2> DEFINE item == AsFiled(s, m, Lgc(b), R3(b))
  <2>3. m \in Kept(s) /\ s[m].is # "class" /\ f \in FunctionsIn(item)
    BY <2>1, <2>2, InjectedFunctions
  <2>4. item.is = s[m].is
    BY <2>3, FiledItem
  <2>5. ~IsLowered(item, Cls(b))
    BY <2>3, <2>4 DEF IsLowered, IsWorkletClass
  <2>6. PICK i \in 1..Len(r) : r[i] = item
    BY <1>5, <2>3, <2>5, PlacedPart
  <2> HIDE DEF item
  <2>7. f \in AllFunctions(r)
    BY <2>3, <2>6, InAll
  <2>8. QED
    BY <2>7 DEF r
<1>7. CASE f \in LoweredIn(filed, Cls(b))
  <2> DEFINE L == {l \in 1..Len(filed) : IsWorkletClass(filed[l])}
  <2>1. Cls(b) /\ \E l \in L : f = <<filed[l].id, 0, 0>>
    BY <1>7 DEF LoweredIn
  <2>2. PICK l \in 1..Len(filed) : IsWorkletClass(filed[l]) /\ f = <<filed[l].id, 0, 0>>
    BY <2>1
  <2> DEFINE m == g[l]
             item == AsFiled(s, m, Lgc(b), R3(b))
  <2>3. m \in Kept(s) /\ filed[l] = item
    BY <1>2 DEF Ordered
  <2>4. item \in Items /\ IsWorkletClass(item) /\ IsLowered(item, Cls(b))
    BY <2>1, <2>2, <2>3, FiledItem DEF IsLowered
  <2>5. PICK i \in 1..Len(r) : r[i] = Factory(item)
    BY <1>5, <2>3, <2>4, PlacedPart
  <2>6. Factory(item).id = item.id /\ Factory(item).is = "fnDecl"
    BY <2>4, FactoryItem
  <2> HIDE DEF item, m
  <2>7. f \in FunctionsIn(r[i])
    BY <2>2, <2>3, <2>5, <2>6 DEF FunctionsIn
  <2>8. f \in AllFunctions(r)
    BY <2>7, InAll
  <2>9. QED
    BY <2>8 DEF r
<1>8. QED
  BY <1>6, <1>7 DEF MarkedOf, filed

(* Whatever is marked is a function of the program.                        *)
LEMMA DirectivesIn == ASSUME BodyInv PROVE directives \subseteq AllFunctions(body)
<1>1. phase \in Early \cup Late /\ IsProgram(source)
  BY DEF BodyInv, BodyAt
<1>2. CASE phase = "file"
  BY <1>2 DEF BodyInv, BodyAt
<1>3. CASE phase = "classes"
  BY <1>1, <1>3, DirectivesBeforeClasses DEF BodyInv, BodyAt
<1>4. CASE phase \in Late
  <2>1. body = FinishedOf(build, source) /\ MarkedOf(build, source) \subseteq AllFunctions(body)
    BY <1>1, <1>4, DirectivesAfterClasses DEF BodyInv, BodyAt
  <2>2. SiteFunctions(body, sites) \subseteq AllFunctions(body)
    BY DEF SiteFunctions, AllFunctions
  <2>3. directives \subseteq MarkedOf(build, source) \cup SiteFunctions(body, sites)
    BY <1>4 DEF BodyInv, BodyAt
  <2>4. QED
    BY <2>1, <2>2, <2>3
<1>5. QED
  BY <1>1, <1>2, <1>3, <1>4 DEF Early

(* TypeOK follows from the two invariants.                                 *)
LEMMA SearchType == ASSUME BodyInv, SearchInv PROVE TypeOK
<1>1. body \in Seq(BodyItems) /\ Len(body) \in Nat
  BY BodyType
<1>2. build \in Build /\ \A m \in 1..Len(source) : source[m].is \in ItemKinds
  <2>1. build \in Build /\ source \in Seq(Items)
    BY DEF BodyInv, BodyAt, IsProgram
  <2>2. \A m \in 1..Len(source) : source[m] \in Items
    BY <2>1
  <2>3. QED
    BY <2>1, <2>2, ItemFacts
<1>3. \A m \in 1..Len(body) : body[m].is \in ItemKinds
  <2>1. \A m \in 1..Len(body) : body[m] \in BodyItems
    BY <1>1
  <2>2. QED
    BY <2>1, BodyFacts
<1>4. /\ phase \in {"file", "classes", "definitions", "callbacks", "inject", "done"}
      /\ at \in 1..(Len(body) + 1) /\ seen \subseteq Names /\ error \in BOOLEAN
  BY DEF SearchInv, SearchAt, Early, Late
<1>5. Defines(body, definitions)
  BY NoneDefined DEF SearchInv, SearchAt, Early, Late
<1>6. /\ definitions.rebound \subseteq Names /\ definitions.hand_written \subseteq Names
      /\ DOMAIN definitions.assignments \subseteq definitions.rebound
  BY <1>5 DEF Defines
<1>7. AllTraced(body, R3(build), work)
  BY TracedNone DEF SearchInv, SearchAt
<1>8. ASSUME NEW n \in 1..Len(work) PROVE work[n].shape.is \in {"function", "object", "alias"}
  <2>1. \E i, k : TracedTo(body, R3(build), work[n], i, k)
    BY <1>7 DEF AllTraced, Traced
  <2>2. QED
    BY <2>1 DEF TracedTo, Fits, ShapeKinds
<1>9. directives \subseteq UNION {FunctionsIn(body[m]) : m \in 1..Len(body)}
  BY DirectivesIn DEF AllFunctions
<1>10. QED
  BY <1>2, <1>3, <1>4, <1>6, <1>8, <1>9 DEF TypeOK

(* Every variable has its type; above all, whatever is marked is a         *)
(* function of the program as it is then.                                  *)
THEOREM CallbacksTypeCorrect == Spec => []TypeOK
BY AlwaysSearch, SearchType, PTL

-----------------------------------------------------------------------------
(* The items that may change what a name is.                               *)
Touching(items, n) == {m \in 1..Len(items) : items[m].is \in {"var", "assign", "update"} /\ items[m].name = n}

(* Those that give it a value.                                             *)
Bindings(items, n) == {m \in 1..Len(items) : items[m].is \in {"var", "assign"} /\ items[m].name = n}

(* An item that does not touch a name leaves it what it is.                *)
LEMMA ExecuteOther ==
  ASSUME NEW item \in BodyItems, NEW env \in [Names -> RunValues], NEW n \in Names,
         ~(item.is \in {"var", "assign", "update"} /\ item.name = n)
  PROVE  Execute(item, env)[n] = env[n]
<1>1. CASE item.is \in {"var", "assign"}
  <2> DEFINE v == Evaluate(item.value, item.id, 0, env)
  <2>1. Execute(item, env) = [env EXCEPT ![item.name] = v]
    BY <1>1 DEF Execute
  <2> HIDE DEF v
  <2>2. QED
    BY <1>1, <2>1
<1>2. CASE item.is = "update"
  BY <1>2 DEF Execute
<1>3. CASE item.is \notin {"var", "assign", "update"}
  BY <1>3 DEF Execute
<1>4. QED
  BY <1>1, <1>2, <1>3

(* One that defines it gives it its value.                                 *)
LEMMA ExecuteOwn ==
  ASSUME NEW item \in BodyItems, NEW env \in [Names -> RunValues], NEW n \in Names,
         item.is \in {"var", "assign"}, item.name = n
  PROVE  Execute(item, env)[n] = Evaluate(item.value, item.id, 0, env)
<1> DEFINE v == Evaluate(item.value, item.id, 0, env)
<1>1. Execute(item, env) = [env EXCEPT ![item.name] = v]
  BY DEF Execute
<1> HIDE DEF v
<1>2. Execute(item, env)[n] = v
  BY <1>1
<1>3. QED
  BY <1>2 DEF v

(* A name keeps its value while no item touches it.                        *)
LEMMA Steady ==
  ASSUME NEW items \in Seq(BodyItems), NEW n \in Names, NEW s \in 0..Len(items), NEW t \in 0..Len(items), s <= t,
         \A m \in Touching(items, n) : m <= s \/ t < m
  PROVE  Environments(items)[t][n] = Environments(items)[s][n]
<1> DEFINE N == Len(items)
           T == {u \in 0..N : s <= u /\ u <= t => Environments(items)[u][n] = Environments(items)[s][n]}
<1>1. N \in Nat /\ \A m \in 1..N : items[m] \in BodyItems
  OBVIOUS
<1>2. /\ Environments(items) \in [0..N -> [Names -> RunValues]]
      /\ \A m \in 1..N : Environments(items)[m] = Execute(items[m], Environments(items)[m - 1])
  BY EnvironmentsDef
<1>3. 0 \in T
  <2>1. s <= 0 => s = 0
    BY <1>1
  <2>2. QED
    BY <1>1, <2>1
<1>4. ASSUME NEW u \in 1..N, u - 1 \in T PROVE u \in T
  <2> SUFFICES ASSUME s <= u, u <= t PROVE Environments(items)[u][n] = Environments(items)[s][n]
    BY <1>1
  <2>1. CASE u = s
    BY <2>1
  <2>2. CASE u # s
    <3>1. s <= u - 1 /\ u - 1 <= t /\ u - 1 \in 0..N
      BY <1>1, <2>2
    <3>2. Environments(items)[u - 1][n] = Environments(items)[s][n]
      BY <1>4, <3>1
    <3>3. u \notin Touching(items, n)
      BY <1>1, <2>2
    <3>4. ~(items[u].is \in {"var", "assign", "update"} /\ items[u].name = n)
      BY <3>3 DEF Touching
    <3> DEFINE env == Environments(items)[u - 1]
    <3>5. env \in [Names -> RunValues] /\ Environments(items)[u] = Execute(items[u], env)
      BY <1>2, <3>1
    <3> HIDE DEF env
    <3>6. Execute(items[u], env)[n] = env[n]
      BY <1>1, <3>4, <3>5, ExecuteOther
    <3>7. QED
      BY <3>2, <3>5, <3>6 DEF env
  <2>3. QED
    BY <2>1, <2>2
<1>5. \A u \in 0..N : u \in T
  <2> HIDE DEF T
  <2>1. QED
    BY <1>1, <1>3, <1>4, Throughout
<1>6. t \in T
  BY <1>5
<1>7. QED
  BY <1>6

(* A set of at most one place.                                             *)
LEMMA AtMostOne ==
  ASSUME NEW N \in Nat, NEW S \in SUBSET (1..N), Cardinality(S) <= 1, NEW a \in S, NEW b \in S
  PROVE  a = b
<1> SUFFICES ASSUME a # b PROVE FALSE
  OBVIOUS
<1>1. IsFiniteSet(1..N)
  BY FS_Interval
<1>2. IsFiniteSet(S)
  BY <1>1, FS_Subset
<1>3. IsFiniteSet({a}) /\ Cardinality({a}) = 1
  BY FS_Singleton
<1>4. Cardinality({a} \cup {b}) = 2
  <2>1. b \notin {a}
    OBVIOUS
  <2>2. Cardinality({a} \cup {b}) = Cardinality({a}) + 1
    BY <1>3, <2>1, FS_AddElement
  <2>3. QED
    BY <1>3, <2>2
<1>5. {a} \cup {b} \subseteq S
  OBVIOUS
<1>6. Cardinality({a} \cup {b}) <= Cardinality(S) /\ Cardinality(S) \in Nat
  BY <1>2, <1>5, FS_Subset, FS_CardinalityType
<1>7. QED
  BY <1>4, <1>6

(* What it means that a name can be traced.                                *)
LEMMA TraceableFacts ==
  ASSUME NEW items \in Seq(BodyItems), NEW n, Traceable(items, n)
  PROVE  /\ Indices(items, "hash", n) = {} /\ Touching(items, n) = Bindings(items, n)
         /\ \A m \in Indices(items, "assign", n) : items[m].value.is \notin {"name", "other"}
         /\ \A m \in Indices(items, "fnDecl", n), o \in Definers(items, n) : m = o
         /\ \A m, o \in Indices(items, "var", n) : m = o
         /\ \A m \in Indices(items, "var", n), o \in Indices(items, "assign", n) : m < o
         /\ \A m \in Bindings(items, n), u \in Uses(items, n) :
              u <= m => \A o \in Definers(items, n) : o = m
<1> DEFINE declared == Indices(items, "fnDecl", n)
           bound    == Indices(items, "var", n)
           assigned == Indices(items, "assign", n)
           definers == declared \cup bound \cup assigned
           N == Len(items)
<1>1. /\ Indices(items, "hash", n) = {} /\ Indices(items, "update", n) = {}
      /\ \A m \in assigned : items[m].value.is \notin {"name", "other"}
      /\ \/ Cardinality(definers) <= 1
         \/ /\ declared = {} /\ Cardinality(bound) <= 1
            /\ \A m \in definers, u \in Uses(items, n) : m < u
            /\ \A m \in bound, a \in assigned : m < a
  BY DEF Traceable
<1>2. N \in Nat /\ definers \in SUBSET (1..N) /\ bound \in SUBSET (1..N) /\ Uses(items, n) \in SUBSET (1..N)
  BY DEF Indices, Uses
<1>3. Bindings(items, n) = bound \cup assigned /\ Definers(items, n) = definers
  BY DEF Indices, Bindings, Definers
<1>4. Touching(items, n) = Bindings(items, n)
  BY <1>1 DEF Touching, Bindings, Indices
<1>5. \A m \in bound : m \notin assigned /\ m \notin declared
  BY DEF Indices
<1>6. \A m \in assigned : m \notin declared
  BY DEF Indices
<1> HIDE DEF declared, bound, assigned
<1>7. CASE Cardinality(definers) <= 1
  <2>1. \A m, o \in definers : m = o
    <3> HIDE DEF definers, N
    <3>1. QED
      BY <1>2, <1>7, AtMostOne
  <2>2. \A m \in bound, o \in assigned : FALSE
    BY <1>5, <2>1
  <2>3. QED
    BY <1>1, <1>3, <1>4, <2>1, <2>2 DEF declared, bound, assigned
<1>8. CASE ~(Cardinality(definers) <= 1)
  <2>1. /\ declared = {} /\ Cardinality(bound) <= 1
        /\ \A m \in definers, u \in Uses(items, n) : m < u
        /\ \A m \in bound, a \in assigned : m < a
    BY <1>1, <1>8
  <2>2. \A m, o \in bound : m = o
    <3> HIDE DEF N
    <3>1. QED
      BY <1>2, <2>1, AtMostOne
  <2>3. \A m \in definers, u \in Uses(items, n) : ~(u <= m)
    BY <1>2, <2>1
  <2>4. QED
    BY <1>1, <1>3, <1>4, <2>1, <2>2, <2>3 DEF declared, bound, assigned
<1>9. QED
  BY <1>7, <1>8

(* What a name is once the program has run.                                *)
ValueAt(items, n) == Environments(items)[Len(items)][n]

(* Where a name is used it has no value yet, or the one that it ends with. *)
LEMMA UsedEarly ==
  ASSUME NEW items \in Seq(BodyItems), NEW n \in Names, Traceable(items, n), NEW u \in Uses(items, n),
         NEW m \in Bindings(items, n), u <= m
  PROVE  Environments(items)[u - 1][n] = None
<1>1. Touching(items, n) = Bindings(items, n) /\ \A o \in Definers(items, n) : o = m
  BY TraceableFacts
<1>2. Len(items) \in Nat /\ u \in 1..Len(items) /\ m \in 1..Len(items) /\ items[m].is # "fnDecl"
  BY DEF Uses, Bindings
<1>3. \A o \in Touching(items, n) : u - 1 < o
  <2>1. \A o \in Touching(items, n) : o \in Definers(items, n)
    BY <1>1 DEF Definers, Bindings
  <2>2. QED
    BY <1>1, <1>2, <2>1
<1>4. 0 \in 0..Len(items) /\ u - 1 \in 0..Len(items) /\ 0 <= u - 1
  BY <1>2
<1>5. Environments(items)[u - 1][n] = Environments(items)[0][n]
  BY <1>3, <1>4, Steady
<1>6. Indices(items, "fnDecl", n) = {}
  <2>1. \A o \in Indices(items, "fnDecl", n) : o = m /\ items[o].is = "fnDecl"
    BY <1>1 DEF Definers, Indices
  <2>2. QED
    BY <1>2, <2>1
<1>7. Environments(items)[0][n] = Hoisted(items)[n] /\ Hoisted(items)[n] = None
  BY <1>6, EnvironmentsDef, HoistedCases
<1>8. QED
  BY <1>5, <1>7

(* After its last binding a name keeps what it ends with,                  *)
LEMMA UsedLate ==
  ASSUME NEW items \in Seq(BodyItems), NEW n \in Names, Traceable(items, n), NEW u \in 1..Len(items),
         \A m \in Bindings(items, n) : m < u
  PROVE  Environments(items)[u - 1][n] = ValueAt(items, n)
<1>1. Touching(items, n) = Bindings(items, n)
  BY TraceableFacts
<1>2. Len(items) \in Nat /\ \A m \in Bindings(items, n) : m \in 1..Len(items)
  BY DEF Bindings
<1>3. \A o \in Touching(items, n) : o <= u - 1
  BY <1>1, <1>2
<1>4. Len(items) \in 0..Len(items) /\ u - 1 \in 0..Len(items) /\ u - 1 <= Len(items)
  BY <1>2
<1>5. Environments(items)[Len(items)][n] = Environments(items)[u - 1][n]
  BY <1>3, <1>4, Steady
<1>6. QED
  BY <1>5 DEF ValueAt

(* so a name that has a value where it is used has the one it ends with.   *)
LEMMA UsedValue ==
  ASSUME NEW items \in Seq(BodyItems), NEW n \in Names, Traceable(items, n), NEW u \in Uses(items, n),
         Environments(items)[u - 1][n] # None
  PROVE  /\ Environments(items)[u - 1][n] = ValueAt(items, n)
         /\ \A m \in Bindings(items, n) : m < u
<1>1. u \in 1..Len(items) /\ \A m \in Bindings(items, n) : m \in 1..Len(items)
  BY DEF Uses, Bindings
<1>2. \A m \in Bindings(items, n) : ~(u <= m)
  BY UsedEarly
<1>3. \A m \in Bindings(items, n) : m < u
  BY <1>1, <1>2
<1>4. QED
  BY <1>1, <1>3, UsedLate

(* The value that a name ends with: the function it is declared as,        *)
LEMMA DeclaredValue ==
  ASSUME NEW items \in Seq(BodyItems), NEW n \in Names, Traceable(items, n), Bindings(items, n) = {},
         ValueAt(items, n) # None
  PROVE  \E m \in Indices(items, "fnDecl", n) : ValueAt(items, n) = AFunction(<<items[m].id, 0, 0>>)
<1>1. Touching(items, n) = {}
  BY TraceableFacts
<1>2. 0 \in 0..Len(items) /\ Len(items) \in 0..Len(items) /\ 0 <= Len(items)
  OBVIOUS
<1>3. ValueAt(items, n) = Environments(items)[0][n]
  BY <1>1, <1>2, Steady DEF ValueAt
<1>4. ValueAt(items, n) = Hoisted(items)[n]
  BY <1>3, EnvironmentsDef
<1>5. QED
  BY <1>4, HoistedCases

(* or what the last of the items that define it gives it.                  *)
LEMMA BoundValue ==
  ASSUME NEW items \in Seq(BodyItems), NEW n \in Names, Traceable(items, n), Bindings(items, n) # {}
  PROVE  \E q \in Bindings(items, n) :
           /\ \A m \in Bindings(items, n) : m <= q
           /\ ValueAt(items, n) = Evaluate(items[q].value, items[q].id, 0, Environments(items)[q - 1])
<1>1. Len(items) \in Nat /\ Bindings(items, n) \in SUBSET (1..Len(items))
  BY DEF Bindings
<1>2. PICK q \in Bindings(items, n) : \A m \in Bindings(items, n) : m <= q
  BY <1>1, Greatest
<1>3. Touching(items, n) = Bindings(items, n)
  BY TraceableFacts
<1>4. q \in 1..Len(items) /\ items[q].is \in {"var", "assign"} /\ items[q].name = n
  BY DEF Bindings
<1>5. Len(items) \in 0..Len(items) /\ q \in 0..Len(items) /\ q <= Len(items) /\ q - 1 \in 0..Len(items)
  BY <1>1, <1>4
<1>6. Environments(items)[Len(items)][n] = Environments(items)[q][n]
  BY <1>2, <1>3, <1>5, Steady
<1> DEFINE env == Environments(items)[q - 1]
<1>7. env \in [Names -> RunValues] /\ Environments(items)[q] = Execute(items[q], env) /\ items[q] \in BodyItems
  <2>1. /\ Environments(items) \in [0..Len(items) -> [Names -> RunValues]]
        /\ \A m \in 1..Len(items) : Environments(items)[m] = Execute(items[m], Environments(items)[m - 1])
    BY EnvironmentsDef
  <2>2. Environments(items)[q] = Execute(items[q], env)
    BY <1>4, <2>1
  <2>3. env \in [Names -> RunValues]
    BY <1>5, <2>1
  <2>4. QED
    BY <1>4, <2>2, <2>3
<1> HIDE DEF env
<1>8. Execute(items[q], env)[n] = Evaluate(items[q].value, items[q].id, 0, env)
  BY <1>4, <1>7, ExecuteOwn
<1>9. QED
  BY <1>2, <1>6, <1>7, <1>8 DEF ValueAt, env

(* Some function f has this span.                                          *)
Shows(items, f, span) == \E m \in 1..Len(items) : f \in FunctionsIn(items[m]) /\ span = SpanIn(items[m], f)

(* The function f is what a name ends with.                                *)
Means(items, n, f) == ValueAt(items, n) # None /\ ValueAt(items, n).is = "function" /\ ValueAt(items, n).span = f

(* Where a name is made another name for something.                        *)
Links(items, n) == {p \in Indices(items, "var", n) : items[p].value.is = "name"}
Link(items, n)  == IF Links(items, n) = {} THEN 0 ELSE CHOOSE p \in Links(items, n) : TRUE

(* A call of collect that leads to f when these names were followed: names *)
(* that mean f are linked before all of them.                              *)
LeadsTo(items, sn, f, c) ==
  \/ c.shape.is = "function" /\ Shows(items, f, c.shape.span)
  \/ /\ c.shape.is = "alias" /\ c.follow /\ c.shape.name \in Names /\ Means(items, c.shape.name, f)
     /\ \A x \in sn : Means(items, x, f) => Link(items, c.shape.name) < Link(items, x)

(* A property that leads to f.                                             *)
PropFor(items, f, p) ==
  \/ p.is = "method" /\ Shows(items, f, p.span)
  \/ p.is = "value" /\ LeadsTo(items, {}, f, Call(p.shape, FUNCTION, TRUE))

(* The shape of an object has all functions of its value at run time.      *)
ShapeOf(items, value, shape) ==
  /\ shape.is = "object" /\ IsSeq(shape.properties)
  /\ \A f \in value.functions : \E n \in 1..Len(shape.properties) : PropFor(items, f, shape.properties[n])
  /\ value.spread => \E n \in 1..Len(shape.properties) : shape.properties[n].is = "unsupported"

(* A link is the item of a variable that is given a name.                  *)
LEMMA LinkCases ==
  ASSUME NEW items \in Seq(BodyItems), NEW n
  PROVE  \/ Links(items, n) = {} /\ Link(items, n) = 0
         \/ /\ Link(items, n) \in Links(items, n) /\ Link(items, n) \in Bindings(items, n)
            /\ Link(items, n) \in 1..Len(items)
<1>1. CASE Links(items, n) = {}
  BY <1>1 DEF Link
<1>2. CASE Links(items, n) # {}
  <2>1. Link(items, n) \in Links(items, n)
    BY <1>2 DEF Link
  <2>2. QED
    BY <2>1 DEF Links, Indices, Bindings
<1>3. QED
  BY <1>1, <1>2

(* A link is a number.                                                     *)
LEMMA LinkType == ASSUME NEW items \in Seq(BodyItems), NEW n PROVE Link(items, n) \in Nat
<1>1. \A p \in 1..Len(items) : p \in Nat
  OBVIOUS
<1>2. QED
  BY <1>1, LinkCases

(* Values that the items of a program have: of an item itself, or passed   *)
(* to a hook.                                                              *)
HasValue(items, p, k, v) ==
  \/ k = 0 /\ items[p].is \in {"var", "assign"} /\ v = items[p].value
  \/ k \in 1..Len(items[p].args) /\ items[p].is = "call" /\ v = items[p].args[k]

(* Such a value is the item's own, and its names are used there.           *)
LEMMA HasValueFacts ==
  ASSUME NEW items \in Seq(BodyItems), NEW p \in 1..Len(items), NEW k, NEW v, HasValue(items, p, k, v)
  PROVE  /\ v \in Values /\ k \in Nat /\ items[p].id \in Nat /\ v = ValueOf(items[p], k)
         /\ \A n \in NamesIn(v) : p \in Uses(items, n)
         /\ FunctionsOf(v, items[p].id, k) \subseteq FunctionsIn(items[p])
         /\ items[p].is # "fnDecl"
<1> DEFINE item == items[p]
<1>1. item \in BodyItems
  OBVIOUS
<1>2. item.value \in Values /\ item.args \in Seq(Values) /\ item.id \in Nat /\ Len(item.args) \in Nat
  BY <1>1, BodyFacts
<1>3. CASE k = 0 /\ item.is \in {"var", "assign"} /\ v = item.value
  <2>1. FunctionsIn(item) = FunctionsOf(item.value, item.id, 0) \cup
                              UNION {FunctionsOf(item.args[l], item.id, l) : l \in 1..Len(item.args)}
    BY <1>3 DEF FunctionsIn
  <2>2. v = ValueOf(item, k)
    BY <1>3 DEF ValueOf
  <2>3. \A n \in NamesIn(v) : p \in Uses(items, n)
    BY <1>3 DEF Uses
  <2> HIDE DEF item
  <2>4. QED
    BY <1>2, <1>3, <2>1, <2>2, <2>3 DEF item
<1>4. CASE k \in 1..Len(item.args) /\ item.is = "call" /\ v = item.args[k]
  <2>1. FunctionsIn(item) = FunctionsOf(item.value, item.id, 0) \cup
                              UNION {FunctionsOf(item.args[l], item.id, l) : l \in 1..Len(item.args)}
    BY <1>4 DEF FunctionsIn
  <2>2. v = ValueOf(item, k)
    BY <1>2, <1>4 DEF ValueOf
  <2>3. \A n \in NamesIn(v) : p \in Uses(items, n)
    BY <1>4 DEF Uses
  <2> HIDE DEF item
  <2>4. FunctionsOf(item.args[k], item.id, k) \subseteq UNION {FunctionsOf(item.args[l], item.id, l) : l \in 1..Len(item.args)}
    BY <1>4
  <2>5. k \in Nat /\ v \in Values
    BY <1>2, <1>4
  <2>6. QED
    BY <1>2, <1>4, <2>1, <2>2, <2>3, <2>4, <2>5 DEF item
<1>5. QED
  BY <1>3, <1>4 DEF HasValue

(* The shape of a function has its span.                                   *)
LEMMA FunctionShape ==
  ASSUME NEW items \in Seq(BodyItems), NEW p \in 1..Len(items), NEW k, NEW v, HasValue(items, p, k, v),
         v.is \in FunctionKinds, NEW env
  PROVE  /\ Evaluate(v, items[p].id, k, env).is = "function"
         /\ Describe(v, items[p].id, k).is = "function"
         /\ Shows(items, Evaluate(v, items[p].id, k, env).span, Describe(v, items[p].id, k).span)
<1> DEFINE id == items[p].id
           f == <<id, k, 0>>
           x == Evaluate(v, id, k, env)
           d == Describe(v, id, k)
<1>1. /\ v \in Values /\ v = ValueOf(items[p], k) /\ FunctionsOf(v, id, k) \subseteq FunctionsIn(items[p])
      /\ items[p].is # "fnDecl"
  BY HasValueFacts
<1>2. x = AFunction(f)
  BY <1>1, EvaluateCases DEF FunctionKinds
<1>3. d = AFunction(SpanAt(v, f))
  BY DEF Describe, FunctionKinds
<1>4. x.is = "function" /\ x.span = f
  BY <1>2 DEF AFunction
<1>5. d.is = "function" /\ d.span = SpanAt(v, f)
  BY <1>3 DEF AFunction
<1>6. f \in FunctionsIn(items[p])
  <2>1. FunctionsOf(v, id, k) = {f}
    BY DEF FunctionsOf, FunctionKinds
  <2>2. QED
    BY <1>1, <2>1
<1>7. SpanIn(items[p], f) = SpanAt(v, f)
  <2>1. f[2] = k
    OBVIOUS
  <2>2. SpanIn(items[p], f) = SpanAt(ValueOf(items[p], f[2]), f)
    BY <1>1 DEF SpanIn
  <2>3. QED
    BY <1>1, <2>1, <2>2
<1> HIDE DEF x, d, f, id
<1>8. Shows(items, x.span, d.span)
  BY <1>4, <1>5, <1>6, <1>7 DEF Shows
<1>9. QED
  BY <1>4, <1>5, <1>8 DEF x, d, id

(* The properties that an object is described by.                          *)
LEMMA ObjectProps ==
  ASSUME NEW v \in Values, v.is = "object", NEW i, NEW k
  PROVE  LET d == Describe(v, i, k)
         IN  /\ d.is = "object" /\ IsSeq(d.properties)
             /\ \A j \in 1..Len(v.props) : DescribeProp(v.props[j], <<i, k, j>>) # None =>
                  \E n \in 1..Len(d.properties) : d.properties[n] = DescribeProp(v.props[j], <<i, k, j>>)
<1> DEFINE d == Describe(v, i, k)
           props == [j \in 1..Len(v.props) |-> DescribeProp(v.props[j], <<i, k, j>>)]
           places == {j \in 1..Len(props) : props[j] # None}
           r == Only(props, places)
<1>1. d = AnObject(r)
  BY DEF Describe
<1>2. d.is = "object" /\ d.properties = r
  <2> HIDE DEF d, r
  <2>1. QED
    BY <1>1 DEF AnObject
<1> DEFINE S == {props[j] : j \in 1..Len(v.props)}
<1>3. Len(v.props) \in Nat
  BY ValueFacts
<1>4. props \in Seq(S) /\ Len(props) = Len(v.props)
  <2>1. props \in [1..Len(v.props) -> S]
    OBVIOUS
  <2> HIDE DEF props, S
  <2>2. QED
    BY <1>3, <2>1
<1>5. \A j \in 1..Len(v.props) : DescribeProp(v.props[j], <<i, k, j>>) # None =>
        j \in places /\ j \in 1..Len(props) /\ props[j] = DescribeProp(v.props[j], <<i, k, j>>)
  BY <1>4
<1> HIDE DEF S, props, places
<1>6. r \in Seq(S) /\ \E g : Picks(r, props, places \cap (1..Len(props)), g)
  BY <1>4, OnlyPicks
<1>7. PICK g : Picks(r, props, places \cap (1..Len(props)), g)
  BY <1>6
<1>8. \A j \in places \cap (1..Len(props)) : \E n \in 1..Len(r) : g[n] = j /\ r[n] = props[g[n]]
  BY <1>7 DEF Picks
<1> HIDE DEF d, r
<1>9. IsSeq(r)
  BY <1>6 DEF IsSeq
<1>10. QED
  BY <1>2, <1>5, <1>8, <1>9 DEF d

(* The shapes of functions and names are not None.                         *)
LEMMA FunctionsAreSome ==
  ASSUME NEW f \in Spans
  PROVE  /\ AFunction(f) \in SimpleShapes /\ AFunction(f) # None
         /\ AMethod(f) \in PropShapes /\ AValue(AFunction(f)) \in PropShapes
         /\ AValue(AnObject(<<AValue(AFunction(f))>>)) \in PropShapes
<1>1. AFunction(f) \in SimpleShapes
  BY DEF AFunction, SimpleShapes
<1>2. AFunction(f) # None
  BY <1>1, NoneAssumption DEF Shapes
<1>3. AMethod(f) \in PropShapes
  BY DEF AMethod, PropShapes
<1>4. \A shape \in SimpleShapes : AValue(shape) \in [is : {"value"}, shape : SimpleShapes]
  BY DEF AValue
<1>5. \A shape \in SimpleShapes \cup NestedShapes : AValue(shape) \in PropShapes
  BY DEF AValue, PropShapes
<1> DEFINE inner == AValue(AFunction(f))
           one == <<inner>>
<1>6. inner \in [is : {"value"}, shape : SimpleShapes]
  BY <1>1, <1>4
<1> HIDE DEF inner
<1>7. one \in Seq([is : {"value"}, shape : SimpleShapes])
  BY <1>6
<1> HIDE DEF one
<1>8. AnObject(one) \in NestedShapes
  BY <1>7 DEF AnObject, NestedShapes
<1>9. AValue(AnObject(one)) \in PropShapes
  BY <1>5, <1>8
<1>10. AValue(AFunction(f)) \in PropShapes
  BY <1>1, <1>5
<1>11. QED
  BY <1>1, <1>2, <1>3, <1>9, <1>10 DEF one, inner

(* So are those of a name.                                                 *)
LEMMA NamesAreSome ==
  ASSUME NEW n \in Names
  PROVE  AnAlias(n) \in SimpleShapes /\ AnAlias(n) # None /\ AValue(AnAlias(n)) \in PropShapes
<1>1. AnAlias(n) \in SimpleShapes
  BY DEF AnAlias, SimpleShapes
<1>2. AnAlias(n) # None
  BY <1>1, NoneAssumption DEF Shapes
<1>3. \A shape \in SimpleShapes : AValue(shape) \in PropShapes
  BY DEF AValue, PropShapes
<1>4. QED
  BY <1>1, <1>2, <1>3

(* So are the properties of objects, all but the marker,                   *)
LEMMA PropIsSome ==
  ASSUME NEW p \in Props, NEW f \in Spans, p.is # "marker"
  PROVE  DescribeProp(p, f) \in PropShapes /\ DescribeProp(p, f) # None
<1>1. p.is \in PropKinds /\ (p.is = "name" => p.name \in Names)
  BY DEF Props
<1>2. Unsupported \in PropShapes
  BY DEF PropShapes
<1> DEFINE d == DescribeProp(p, f)
<1>3. d \in PropShapes
  <2>1. CASE p.is \in {"method", "thisMethod"}
    BY <2>1, FunctionsAreSome DEF DescribeProp
  <2>2. CASE p.is = "fn"
    BY <2>2, FunctionsAreSome DEF DescribeProp
  <2>3. CASE p.is = "nested"
    BY <2>3, FunctionsAreSome DEF DescribeProp
  <2>4. CASE p.is = "name"
    BY <1>1, <2>4, NamesAreSome DEF DescribeProp
  <2>5. CASE p.is = "spread"
    BY <1>2, <2>5 DEF DescribeProp
  <2>6. QED
    BY <1>1, <2>1, <2>2, <2>3, <2>4, <2>5 DEF PropKinds
<1>4. d # None
  BY <1>3, NoneAssumption
<1>5. QED
  BY <1>3, <1>4

(* The place of a function is a span.                                      *)
LEMMA SpanOf == ASSUME NEW i \in Nat, NEW k \in Nat, NEW j \in Nat PROVE <<i, k, j>> \in Spans
BY DEF Spans

(* and what an expression is described by, if it is a function, an object  *)
(* or a name.                                                              *)
LEMMA ValueIsSome ==
  ASSUME NEW v \in Values, NEW i \in Nat, NEW k \in Nat, v.is # "other"
  PROVE  Describe(v, i, k) # None
<1> DEFINE d == Describe(v, i, k)
<1>1. v.is \in ValueKinds /\ v.props \in Seq(Props) /\ (v.is = "name" => v.name \in Names)
  BY ValueFacts
<1>2. CASE v.is \in {"fn", "paren", "generated"}
  <2> DEFINE f == <<i, k, 0>>
  <2>1. d = AFunction(SpanAt(v, f))
    BY <1>2 DEF Describe
  <2>2. f \in Spans /\ Dummy \in Spans
    BY SpanOf DEF Dummy
  <2>3. SpanAt(v, f) \in Spans
    BY <2>2 DEF SpanAt
  <2> HIDE DEF f
  <2>4. QED
    BY <2>1, <2>3, FunctionsAreSome
<1>3. CASE v.is = "name"
  BY <1>1, <1>3, NamesAreSome DEF Describe
<1>4. CASE v.is = "object"
  <2> DEFINE props == [j \in 1..Len(v.props) |-> DescribeProp(v.props[j], <<i, k, j>>)]
             places == {j \in 1..Len(props) : props[j] # None}
             r == Only(props, places)
             S == {props[j] : j \in 1..Len(v.props)}
  <2>1. d = AnObject(r)
    BY <1>4 DEF Describe
  <2>2. Len(v.props) \in Nat
    BY <1>1
  <2>3. props \in Seq(S) /\ Len(props) = Len(v.props)
    <3>1. props \in [1..Len(v.props) -> S]
      OBVIOUS
    <3> HIDE DEF props, S
    <3>2. QED
      BY <2>2, <3>1
  <2>4. \A j \in places : props[j] \in PropShapes
    <3>1. SUFFICES ASSUME NEW j \in places PROVE props[j] \in PropShapes
      OBVIOUS
    <3>2. j \in 1..Len(v.props) /\ props[j] = DescribeProp(v.props[j], <<i, k, j>>) /\ props[j] # None
      BY <2>3
    <3>3. v.props[j] \in Props /\ j \in Nat
      BY <1>1, <3>2
    <3>4. <<i, k, j>> \in Spans
      BY <3>3, SpanOf
    <3> DEFINE f == <<i, k, j>>
               p == v.props[j]
    <3>5. p \in Props /\ f \in Spans /\ props[j] = DescribeProp(p, f) /\ props[j] # None
      BY <3>2, <3>3, <3>4
    <3> HIDE DEF f, p, props, places
    <3>6. p.is # "marker"
      BY <3>5 DEF DescribeProp
    <3>7. QED
      BY <3>5, <3>6, PropIsSome
  <2> HIDE DEF S, props, places
  <2>5. r \in Seq(S) /\ \E g : Picks(r, props, places \cap (1..Len(props)), g)
    BY <2>3, OnlyPicks
  <2>6. PICK g : Picks(r, props, places \cap (1..Len(props)), g)
    BY <2>5
  <2>7. \A n \in 1..Len(r) : r[n] \in PropShapes
    BY <2>4, <2>6 DEF Picks
  <2> HIDE DEF r, d
  <2>8. r \in Seq(PropShapes)
    BY <2>5, <2>7
  <2>9. d \in [is : {"object"}, properties : Seq(PropShapes)]
    BY <2>1, <2>8 DEF AnObject
  <2>10. d # None
    BY <2>9, NoneAssumption DEF Shapes
  <2>11. QED
    BY <2>10 DEF d
<1>5. QED
  BY <1>1, <1>2, <1>3, <1>4 DEF ValueKinds

(* A property leads to its function, a spread is not supported.            *)
LEMMA PropLeads ==
  ASSUME NEW items, NEW p \in Props, NEW g \in Spans, NEW f
  PROVE  LET d == DescribeProp(p, g)
         IN  /\ p.is \in {"method", "thisMethod", "fn"} /\ f = g /\ Shows(items, f, f) => PropFor(items, f, d)
             /\ p.is = "name" /\ Means(items, p.name, f) => PropFor(items, f, d)
             /\ p.is = "spread" => d.is = "unsupported"
<1> DEFINE d == DescribeProp(p, g)
<1>1. CASE p.is \in {"method", "thisMethod"}
  <2>1. d = AMethod(g)
    BY <1>1 DEF DescribeProp
  <2>2. d.is = "method" /\ d.span = g
    BY <2>1 DEF AMethod
  <2> HIDE DEF d
  <2>3. f = g /\ Shows(items, f, f) => PropFor(items, f, d)
    BY <2>2 DEF PropFor
  <2>4. QED
    BY <1>1, <2>3 DEF d
<1>2. CASE p.is = "fn"
  <2>1. d = AValue(AFunction(g))
    BY <1>2 DEF DescribeProp
  <2>2. d.is = "value" /\ d.shape = AFunction(g)
    BY <2>1 DEF AValue
  <2> HIDE DEF d
  <2> DEFINE c == Call(d.shape, FUNCTION, TRUE)
  <2>3. c.shape.is = "function" /\ c.shape.span = g
    BY <2>2 DEF Call, AFunction
  <2>4. f = g /\ Shows(items, f, f) => LeadsTo(items, {}, f, c)
    <3> HIDE DEF c
    <3>1. QED
      BY <2>3 DEF LeadsTo
  <2>5. f = g /\ Shows(items, f, f) => PropFor(items, f, d)
    BY <2>2, <2>4 DEF PropFor
  <2>6. QED
    BY <1>2, <2>5 DEF d
<1>3. CASE p.is = "name"
  <2>1. d = AValue(AnAlias(p.name)) /\ p.name \in Names
    BY <1>3 DEF DescribeProp, Props
  <2>2. d.is = "value" /\ d.shape = AnAlias(p.name)
    BY <2>1 DEF AValue
  <2> HIDE DEF d
  <2> DEFINE c == Call(d.shape, FUNCTION, TRUE)
  <2>3. c.shape.is = "alias" /\ c.shape.name = p.name /\ c.follow = TRUE
    BY <2>2 DEF Call, AnAlias
  <2>4. Means(items, p.name, f) => LeadsTo(items, {}, f, c)
    <3> HIDE DEF c
    <3>1. QED
      BY <2>1, <2>3 DEF LeadsTo
  <2>5. Means(items, p.name, f) => PropFor(items, f, d)
    BY <2>2, <2>4 DEF PropFor
  <2>6. QED
    BY <1>3, <2>5 DEF d
<1>4. CASE p.is = "spread"
  <2>1. d = Unsupported
    BY <1>4 DEF DescribeProp
  <2>2. d.is = "unsupported"
    BY <2>1 DEF Unsupported
  <2>3. QED
    BY <1>4, <2>2
<1>5. CASE p.is \notin {"method", "thisMethod", "fn", "name", "spread"}
  BY <1>5
<1>6. QED
  BY <1>1, <1>2, <1>3, <1>4, <1>5

(* The shape of an object leads to all functions of its value.             *)
LEMMA ObjectShape ==
  ASSUME NEW items \in Seq(BodyItems), PlainProgram(items), NEW p \in 1..Len(items), NEW k, NEW v,
         HasValue(items, p, k, v), v.is = "object"
  PROVE  LET value == Evaluate(v, items[p].id, k, Environments(items)[p - 1])
         IN  value.is = "object" /\ ShapeOf(items, value, Describe(v, items[p].id, k))
<1> DEFINE id == items[p].id
           env == Environments(items)[p - 1]
           value == Evaluate(v, id, k, env)
           d == Describe(v, id, k)
<1>1. /\ v \in Values /\ k \in Nat /\ id \in Nat /\ v = ValueOf(items[p], k)
      /\ \A n \in NamesIn(v) : p \in Uses(items, n)
      /\ FunctionsOf(v, id, k) \subseteq FunctionsIn(items[p]) /\ items[p].is # "fnDecl"
  BY HasValueFacts
<1>2. v.props \in Seq(Props)
  BY <1>1, ValueFacts
<1>3. \A j \in 1..Len(v.props) : v.props[j] \in Props /\ j \in Nat /\ <<id, k, j>> \in Spans
  BY <1>1, <1>2, SpanOf
<1>4. /\ d.is = "object" /\ IsSeq(d.properties)
      /\ \A j \in 1..Len(v.props) : DescribeProp(v.props[j], <<id, k, j>>) # None =>
           \E n \in 1..Len(d.properties) : d.properties[n] = DescribeProp(v.props[j], <<id, k, j>>)
  BY <1>1, ObjectProps
<1>5. value = AnObjectOf(OwnFunctions(v, id, k) \cup NamedFunctions(v, env), Spreads(v))
  <2>1. v \in Values
    BY <1>1
  <2> HIDE DEF id, env, value, d
  <2>2. Evaluate(v, id, k, env) = AnObjectOf(OwnFunctions(v, id, k) \cup NamedFunctions(v, env), Spreads(v))
    BY <2>1, EvaluateCases
  <2>3. QED
    BY <2>2 DEF value
<1>6. /\ value.is = "object" /\ value.functions = OwnFunctions(v, id, k) \cup NamedFunctions(v, env)
      /\ value.spread = Spreads(v)
  BY <1>5 DEF AnObjectOf
<1>7. \A j \in 1..Len(v.props) : v.props[j].is # "marker" =>
        \E n \in 1..Len(d.properties) : d.properties[n] = DescribeProp(v.props[j], <<id, k, j>>)
  BY <1>3, <1>4, PropIsSome
<1> HIDE DEF value, d, env, id
<1>8. ASSUME NEW f \in OwnFunctions(v, id, k)
      PROVE  \E n \in 1..Len(d.properties) : PropFor(items, f, d.properties[n])
  <2>1. PICK j \in 1..Len(v.props) : v.props[j].is \in {"method", "thisMethod", "fn"} /\ f = <<id, k, j>>
    BY <1>8 DEF OwnFunctions
  <2>2. f \in FunctionsOf(v, id, k) /\ f[2] = k
    BY <2>1 DEF FunctionsOf
  <2>3. SpanIn(items[p], f) = SpanAt(ValueOf(items[p], f[2]), f)
    BY <1>1 DEF SpanIn, id
  <2>4. SpanIn(items[p], f) = f
    BY <1>1, <2>2, <2>3 DEF SpanAt
  <2>5. Shows(items, f, f)
    BY <1>1, <2>2, <2>4 DEF Shows, id
  <2>6. PropFor(items, f, DescribeProp(v.props[j], <<id, k, j>>))
    BY <1>3, <2>1, <2>5, PropLeads
  <2>7. QED
    BY <1>7, <2>1, <2>6
<1>9. ASSUME NEW f \in NamedFunctions(v, env)
      PROVE  \E n \in 1..Len(d.properties) : PropFor(items, f, d.properties[n])
  <2>1. PICK j \in 1..Len(v.props) : /\ v.props[j].is = "name" /\ env[v.props[j].name] # None
                                     /\ env[v.props[j].name].is = "function" /\ f = env[v.props[j].name].span
    BY <1>9 DEF NamedFunctions
  <2> DEFINE n == v.props[j].name
  <2>2. n \in Names
    BY <1>3, <2>1 DEF Props
  <2>3. n \in NamesIn(v)
    BY <2>1 DEF NamesIn
  <2>4. Traceable(items, n) /\ p \in Uses(items, n)
    BY <1>1, <2>2, <2>3 DEF PlainProgram
  <2>5. env[n] = ValueAt(items, n)
    BY <2>1, <2>2, <2>4, UsedValue DEF env
  <2>6. Means(items, n, f)
    BY <2>1, <2>5 DEF Means
  <2>7. PropFor(items, f, DescribeProp(v.props[j], <<id, k, j>>))
    BY <1>3, <2>1, <2>6, PropLeads
  <2>8. QED
    BY <1>7, <2>1, <2>7
<1>10. value.spread => \E n \in 1..Len(d.properties) : d.properties[n].is = "unsupported"
  <2>1. SUFFICES ASSUME Spreads(v) PROVE \E n \in 1..Len(d.properties) : d.properties[n].is = "unsupported"
    BY <1>6
  <2>2. PICK j \in 1..Len(v.props) : v.props[j].is = "spread"
    BY <2>1 DEF Spreads
  <2>3. DescribeProp(v.props[j], <<id, k, j>>).is = "unsupported"
    BY <1>3, <2>2, PropLeads
  <2>4. QED
    BY <1>7, <2>2, <2>3
<1>11. ShapeOf(items, value, d)
  BY <1>4, <1>6, <1>8, <1>9, <1>10 DEF ShapeOf
<1>12. QED
  BY <1>6, <1>11 DEF value, d, env, id

(* What Definitions keeps of the value of an item.                         *)
ShapeAt(item) == Describe(item.value, item.id, 0)

(* The shapes that were assigned to a name so far.                         *)
AssignedBefore(d, name) == IF name \in DOMAIN d.assignments THEN d.assignments[name] ELSE << >>

(* What the visit of an item makes of Definitions, field by field.         *)
Visited(e, d, item) ==
  /\ e.function_declarations = IF IsFnDecl(item)
                               THEN With(d.function_declarations, item.name, <<item.id, 0, 0>>)
                               ELSE d.function_declarations
  /\ e.declarators = IF item.is = "var" /\ ShapeAt(item) # None
                     THEN With(d.declarators, item.name, ShapeAt(item)) ELSE d.declarators
  /\ e.assignments = IF item.is = "assign" /\ ShapeAt(item) # None
                     THEN With(d.assignments, item.name, Append(AssignedBefore(d, item.name), ShapeAt(item)))
                     ELSE d.assignments
  /\ e.rebound = IF item.is \in {"assign", "update"} \/ (item.is = "var" /\ item.name \in d.declarations)
                 THEN d.rebound \cup {item.name} ELSE d.rebound
  /\ e.declarations = IF item.is \in {"var", "assign"} THEN d.declarations \cup {item.name} ELSE d.declarations
  /\ e.hand_written = IF item.is = "hash" THEN d.hand_written \cup {item.name} ELSE d.hand_written

(* A binding only declares the name, and rebinds it if it was declared.    *)
LEMMA BindingFields ==
  ASSUME NEW d, IsDefinitions(d), NEW name
  PROVE  LET b == Binding(d, name)
         IN  /\ IsDefinitions(b) /\ b.hand_written = d.hand_written
             /\ b.function_declarations = d.function_declarations
             /\ b.declarators = d.declarators /\ b.assignments = d.assignments
             /\ b.rebound = IF name \in d.declarations THEN d.rebound \cup {name} ELSE d.rebound
             /\ b.declarations = d.declarations \cup {name}
<1> DEFINE decls == d.declarations \cup {name}
           bound == IF name \in d.declarations THEN d.rebound \cup {name} ELSE d.rebound
           b == Binding(d, name)
<1>1. b = [[d EXCEPT !.declarations = decls] EXCEPT !.rebound = bound]
  BY DEF Binding, IsDefinitions
<1> HIDE DEF decls, bound
<1>2. b = [hand_written |-> d.hand_written, function_declarations |-> d.function_declarations,
           declarators |-> d.declarators, assignments |-> d.assignments,
           rebound |-> bound, declarations |-> decls]
  BY <1>1 DEF IsDefinitions
<1> HIDE DEF b
<1>3. /\ b.hand_written = d.hand_written /\ b.function_declarations = d.function_declarations
      /\ b.declarators = d.declarators /\ b.assignments = d.assignments
      /\ b.rebound = bound /\ b.declarations = decls
  BY <1>2
<1>4. IsDefinitions(b)
  BY <1>2, <1>3 DEF IsDefinitions
<1>5. QED
  BY <1>3, <1>4 DEF b, bound, decls

(* One field is replaced, the others stay.                                 *)
LEMMA FieldFields ==
  ASSUME NEW d, IsDefinitions(d), NEW x
  PROVE  /\ LET e == [d EXCEPT !.hand_written = x]
            IN  /\ e.hand_written = x /\ e.function_declarations = d.function_declarations
                /\ e.declarators = d.declarators /\ e.assignments = d.assignments
                /\ e.rebound = d.rebound /\ e.declarations = d.declarations
         /\ LET e == [d EXCEPT !.function_declarations = x]
            IN  /\ e.hand_written = d.hand_written /\ e.function_declarations = x
                /\ e.declarators = d.declarators /\ e.assignments = d.assignments
                /\ e.rebound = d.rebound /\ e.declarations = d.declarations
         /\ LET e == [d EXCEPT !.declarators = x]
            IN  /\ e.hand_written = d.hand_written /\ e.function_declarations = d.function_declarations
                /\ e.declarators = x /\ e.assignments = d.assignments
                /\ e.rebound = d.rebound /\ e.declarations = d.declarations
         /\ LET e == [d EXCEPT !.assignments = x]
            IN  /\ e.hand_written = d.hand_written /\ e.function_declarations = d.function_declarations
                /\ e.declarators = d.declarators /\ e.assignments = x
                /\ e.rebound = d.rebound /\ e.declarations = d.declarations
         /\ LET e == [d EXCEPT !.rebound = x]
            IN  /\ e.hand_written = d.hand_written /\ e.function_declarations = d.function_declarations
                /\ e.declarators = d.declarators /\ e.assignments = d.assignments
                /\ e.rebound = x /\ e.declarations = d.declarations /\ IsDefinitions(e)
BY DEF IsDefinitions

(* An assignment rebinds its name and adds its shape.                      *)
LEMMA AssignedFields ==
  ASSUME NEW d, IsDefinitions(d), NEW name, NEW shape
  PROVE  LET e == Assigned(d, name, shape)
         IN  /\ e.hand_written = d.hand_written /\ e.function_declarations = d.function_declarations
             /\ e.declarators = d.declarators
             /\ e.assignments = IF shape # None
                                THEN With(d.assignments, name, Append(AssignedBefore(d, name), shape))
                                ELSE d.assignments
             /\ e.rebound = d.rebound \cup {name} /\ e.declarations = d.declarations \cup {name}
<1> DEFINE b == Binding(d, name)
           S == b.rebound \cup {name}
           bound == [b EXCEPT !.rebound = S]
           e == Assigned(d, name, shape)
           f == With(d.assignments, name, Append(AssignedBefore(d, name), shape))
<1>1. /\ IsDefinitions(b) /\ b.hand_written = d.hand_written
      /\ b.function_declarations = d.function_declarations
      /\ b.declarators = d.declarators /\ b.assignments = d.assignments
      /\ b.rebound = IF name \in d.declarations THEN d.rebound \cup {name} ELSE d.rebound
      /\ b.declarations = d.declarations \cup {name}
  BY BindingFields
<1>2. e = IF shape = None THEN bound
          ELSE [bound EXCEPT !.assignments = With(@, name, Append(AssignedBefore(d, name), shape))]
  BY DEF Assigned, AssignedBefore
<1>3. S = d.rebound \cup {name}
  BY <1>1
<1> HIDE DEF b, S
<1>4. /\ IsDefinitions(bound) /\ bound.hand_written = b.hand_written
      /\ bound.function_declarations = b.function_declarations
      /\ bound.declarators = b.declarators /\ bound.assignments = b.assignments
      /\ bound.rebound = S /\ bound.declarations = b.declarations
  BY <1>1, FieldFields
<1> HIDE DEF bound
<1>5. bound.assignments = d.assignments
  BY <1>1, <1>4
<1>6. e = IF shape = None THEN bound ELSE [bound EXCEPT !.assignments = f]
  <2>1. shape # None => e = [bound EXCEPT !.assignments = With(bound.assignments, name, Append(AssignedBefore(d, name), shape))]
    BY <1>2
  <2>2. QED
    BY <1>2, <1>5, <2>1
<1> HIDE DEF f, e
<1>7. CASE shape = None
  BY <1>1, <1>3, <1>4, <1>5, <1>6, <1>7 DEF e
<1>8. CASE shape # None
  <2>1. e = [bound EXCEPT !.assignments = f]
    BY <1>6, <1>8
  <2>2. /\ e.hand_written = bound.hand_written /\ e.function_declarations = bound.function_declarations
        /\ e.declarators = bound.declarators /\ e.assignments = f
        /\ e.rebound = bound.rebound /\ e.declarations = bound.declarations
    BY <1>4, <2>1, FieldFields
  <2>3. QED
    BY <1>1, <1>3, <1>4, <1>8, <2>2 DEF e, f
<1>9. QED
  BY <1>7, <1>8

(* Every visit of an item does that.                                       *)
LEMMA VisitFields ==
  ASSUME IsDefinitions(definitions),
         VisitFnDecl \/ VisitVarDeclarator \/ VisitAssignExpr \/ VisitUpdateExpr \/ VisitMemberExpr \/ VisitOther
  PROVE  Visited(definitions', definitions, body[at])
<1> DEFINE item == body[at]
           d == definitions
           e == definitions'
<1>1. CASE VisitFnDecl
  <2> DEFINE f == With(d.function_declarations, item.name, <<item.id, 0, 0>>)
  <2>1. item.is = "fnDecl" /\ e = IF IsFnDecl(item) THEN [d EXCEPT !.function_declarations = f] ELSE d
    BY <1>1 DEF VisitFnDecl, Visit
  <2> HIDE DEF f
  <2>2. /\ e.hand_written = d.hand_written
        /\ e.function_declarations = IF IsFnDecl(item) THEN f ELSE d.function_declarations
        /\ e.declarators = d.declarators /\ e.assignments = d.assignments
        /\ e.rebound = d.rebound /\ e.declarations = d.declarations
    BY <2>1, FieldFields
  <2>3. QED
    BY <2>1, <2>2 DEF Visited, f
<1>2. CASE VisitVarDeclarator
  <2> DEFINE name == item.name
             b == Binding(d, name)
             shape == ShapeAt(item)
             f == With(d.declarators, item.name, shape)
  <2>1. /\ IsDefinitions(b) /\ b.hand_written = d.hand_written
        /\ b.function_declarations = d.function_declarations
        /\ b.declarators = d.declarators /\ b.assignments = d.assignments
        /\ b.rebound = IF name \in d.declarations THEN d.rebound \cup {name} ELSE d.rebound
        /\ b.declarations = d.declarations \cup {name}
    <3> HIDE DEF name
    <3>1. QED
      BY BindingFields
  <2>2. item.is = "var" /\ e = IF shape = None THEN b ELSE [b EXCEPT !.declarators = With(b.declarators, item.name, shape)]
    BY <1>2 DEF VisitVarDeclarator, Visit, ShapeAt
  <2>3. e = IF shape = None THEN b ELSE [b EXCEPT !.declarators = f]
    BY <2>1, <2>2
  <2> HIDE DEF b, f, shape
  <2>4. /\ e.hand_written = b.hand_written /\ e.function_declarations = b.function_declarations
        /\ e.declarators = (IF shape # None THEN f ELSE b.declarators) /\ e.assignments = b.assignments
        /\ e.rebound = b.rebound /\ e.declarations = b.declarations
    <3>1. CASE shape = None
      BY <2>3, <3>1
    <3>2. CASE shape # None
      <4>1. e = [b EXCEPT !.declarators = f]
        BY <2>3, <3>2
      <4>2. QED
        BY <2>1, <3>2, <4>1, FieldFields
    <3>3. QED
      BY <3>1, <3>2
  <2>5. QED
    BY <2>1, <2>2, <2>4 DEF Visited, IsFnDecl, f, shape
<1>3. CASE VisitAssignExpr
  <2> DEFINE shape == ShapeAt(item)
  <2>1. item.is = "assign" /\ e = Assigned(d, item.name, shape)
    BY <1>3 DEF VisitAssignExpr, Visit, ShapeAt
  <2> HIDE DEF shape
  <2>2. /\ e.hand_written = d.hand_written /\ e.function_declarations = d.function_declarations
        /\ e.declarators = d.declarators
        /\ e.assignments = IF shape # None
                           THEN With(d.assignments, item.name, Append(AssignedBefore(d, item.name), shape))
                           ELSE d.assignments
        /\ e.rebound = d.rebound \cup {item.name} /\ e.declarations = d.declarations \cup {item.name}
    BY <2>1, AssignedFields
  <2>3. QED
    BY <2>1, <2>2 DEF Visited, IsFnDecl, shape
<1>4. CASE VisitUpdateExpr
  <2> DEFINE S == d.rebound \cup {item.name}
  <2>1. item.is = "update" /\ e = [d EXCEPT !.rebound = S]
    BY <1>4 DEF VisitUpdateExpr, Visit
  <2> HIDE DEF S
  <2>2. /\ e.hand_written = d.hand_written /\ e.function_declarations = d.function_declarations
        /\ e.declarators = d.declarators /\ e.assignments = d.assignments
        /\ e.rebound = S /\ e.declarations = d.declarations
    BY <2>1, FieldFields
  <2>3. QED
    BY <2>1, <2>2 DEF Visited, IsFnDecl, S
<1>5. CASE VisitMemberExpr
  <2> DEFINE S == d.hand_written \cup {item.name}
  <2>1. item.is = "hash" /\ e = [d EXCEPT !.hand_written = S]
    BY <1>5 DEF VisitMemberExpr, Visit
  <2> HIDE DEF S
  <2>2. /\ e.hand_written = S /\ e.function_declarations = d.function_declarations
        /\ e.declarators = d.declarators /\ e.assignments = d.assignments
        /\ e.rebound = d.rebound /\ e.declarations = d.declarations
    BY <2>1, FieldFields
  <2>3. QED
    BY <2>1, <2>2 DEF Visited, IsFnDecl, S
<1>6. CASE VisitOther
  <2>1. item.is \notin {"fnDecl", "var", "assign", "update", "hash"} /\ e = d
    BY <1>6 DEF VisitOther, Visit
  <2>2. QED
    BY <2>1 DEF Visited, IsFnDecl
<1>7. QED
  BY <1>1, <1>2, <1>3, <1>4, <1>5, <1>6

-----------------------------------------------------------------------------
(* Of the first k items every declaration is known, and of the assignments *)
(* of a name the last one; nothing else is.                                *)
KnowsFunctions(items, d, k) ==
  \A m \in 1..k : IsFnDecl(items[m]) => items[m].name \in DOMAIN d.function_declarations
KnowsDeclarators(items, d, k) ==
  \A m \in 1..k : items[m].is = "var" /\ ShapeAt(items[m]) # None => items[m].name \in DOMAIN d.declarators
KnowsRebound(items, d, k) ==
  /\ \A m \in 1..k : items[m].is = "assign" => items[m].name \in d.rebound
  /\ \A n \in d.rebound : \/ \E m \in 1..Len(items) : items[m].is \in {"assign", "update"} /\ items[m].name = n
                          \/ \E m, l \in Bindings(items, n) : m < l
KnowsNamed(items, d, k) ==
  /\ \A n \in d.hand_written : Indices(items, "hash", n) # {}
  /\ \A n \in d.declarations : \E m \in 1..k : m \in Bindings(items, n)

(* A later one of the first k items assigns the name of item q.            *)
Superseded(items, q, k) ==
  \E l \in 1..k : /\ q < l /\ items[l].is = "assign" /\ items[l].name = items[q].name
                  /\ ShapeAt(items[l]) # None

(* The last shape assigned to a name.                                      *)
EndsWith(d, name, shape) ==
  name \in DOMAIN d.assignments /\ Len(d.assignments[name]) > 0 /\ Last(d.assignments[name]) = shape
KnowsLast(items, d, k) ==
  \A q \in 1..k : items[q].is = "assign" /\ ShapeAt(items[q]) # None =>
    Superseded(items, q, k) \/ EndsWith(d, items[q].name, ShapeAt(items[q]))

Knows(items, d, k) ==
  /\ KnowsFunctions(items, d, k) /\ KnowsDeclarators(items, d, k) /\ KnowsRebound(items, d, k)
  /\ KnowsNamed(items, d, k) /\ KnowsLast(items, d, k)

(* A map that may get one more entry.                                      *)
LEMMA WithEntry ==
  ASSUME NEW f, NEW x, NEW y, NEW more \in BOOLEAN, NEW e, e = IF more THEN With(f, x, y) ELSE f
  PROVE  /\ DOMAIN f \subseteq DOMAIN e /\ (more => x \in DOMAIN e /\ e[x] = y)
         /\ \A z \in DOMAIN f : ~(more /\ z = x) => e[z] = f[z]
<1>1. CASE more
  <2>1. e = With(f, x, y)
    BY <1>1
  <2>2. DOMAIN e = DOMAIN f \cup {x}
    BY <2>1 DEF With
  <2>3. e[x] = y
    BY <2>1 DEF With
  <2>4. \A z \in DOMAIN f : z # x => e[z] = f[z]
    BY <2>1 DEF With
  <2>5. QED
    BY <1>1, <2>2, <2>3, <2>4
<1>2. CASE ~more
  BY <1>2
<1>3. QED
  BY <1>1, <1>2

(* At first nothing is known.                                              *)
LEMMA NothingKnown == ASSUME NEW items PROVE Knows(items, NoDefinitions, 0)
<1> DEFINE d == NoDefinitions
<1>1. d.rebound = {} /\ d.hand_written = {} /\ d.declarations = {}
  BY DEF NoDefinitions
<1> HIDE DEF d
<1>2. \A m \in 1..0 : FALSE
  OBVIOUS
<1>3. Knows(items, d, 0)
  BY <1>1, <1>2 DEF Knows, KnowsFunctions, KnowsDeclarators, KnowsRebound, KnowsNamed, KnowsLast
<1>4. QED
  BY <1>3 DEF d

(* One item more is known.                                                 *)
LEMMA OneMoreKnown ==
  ASSUME NEW items \in Seq(BodyItems), NEW k \in 1..Len(items), NEW d, NEW e,
         Visited(e, d, items[k]), Defines(items, d), Knows(items, d, k - 1)
  PROVE  Knows(items, e, k)
<1> DEFINE item == items[k]
<1>1. k \in Nat /\ Len(items) \in Nat
  OBVIOUS
<1>2. \A m \in 1..k : m \in 1..(k - 1) \/ m = k
  BY <1>1
<1>3. \A m \in 1..(k - 1) : m \in 1..k /\ m < k
  BY <1>1
<1>4. k \in 1..k
  BY <1>1
<1>5. KnowsFunctions(items, e, k)
  <2>1. e.function_declarations = IF IsFnDecl(item)
                                  THEN With(d.function_declarations, item.name, <<item.id, 0, 0>>)
                                  ELSE d.function_declarations
    BY DEF Visited
  <2>2. /\ DOMAIN d.function_declarations \subseteq DOMAIN e.function_declarations
        /\ IsFnDecl(item) => item.name \in DOMAIN e.function_declarations
    <3> DEFINE f == d.function_declarations
               x == item.name
               y == <<item.id, 0, 0>>
               more == IsFnDecl(item)
               g == e.function_declarations
    <3>1. g = (IF more THEN With(f, x, y) ELSE f) /\ more \in BOOLEAN
      BY <2>1 DEF IsFnDecl
    <3> HIDE DEF f, x, y, more, g
    <3>2. DOMAIN f \subseteq DOMAIN g /\ (more => x \in DOMAIN g)
      BY <3>1, WithEntry
    <3>3. QED
      BY <3>2 DEF f, x, more, g
  <2>3. KnowsFunctions(items, d, k - 1)
    BY DEF Knows
  <2>4. QED
    BY <1>2, <2>2, <2>3 DEF KnowsFunctions
<1>6. KnowsDeclarators(items, e, k)
  <2>1. e.declarators = IF item.is = "var" /\ ShapeAt(item) # None
                        THEN With(d.declarators, item.name, ShapeAt(item)) ELSE d.declarators
    BY DEF Visited
  <2>2. /\ DOMAIN d.declarators \subseteq DOMAIN e.declarators
        /\ item.is = "var" /\ ShapeAt(item) # None => item.name \in DOMAIN e.declarators
    <3> DEFINE f == d.declarators
               x == item.name
               y == ShapeAt(item)
               more == item.is = "var" /\ ShapeAt(item) # None
               g == e.declarators
    <3>1. g = (IF more THEN With(f, x, y) ELSE f) /\ more \in BOOLEAN
      BY <2>1
    <3> HIDE DEF f, x, y, more, g
    <3>2. DOMAIN f \subseteq DOMAIN g /\ (more => x \in DOMAIN g)
      BY <3>1, WithEntry
    <3>3. QED
      BY <3>2 DEF f, x, more, g
  <2>3. KnowsDeclarators(items, d, k - 1)
    BY DEF Knows
  <2>4. QED
    BY <1>2, <2>2, <2>3 DEF KnowsDeclarators
<1>7. KnowsRebound(items, e, k)
  <2>1. e.rebound = IF item.is \in {"assign", "update"} \/ (item.is = "var" /\ item.name \in d.declarations)
                    THEN d.rebound \cup {item.name} ELSE d.rebound
    BY DEF Visited
  <2>2. KnowsRebound(items, d, k - 1) /\ KnowsNamed(items, d, k - 1)
    BY DEF Knows
  <2>3. \A m \in 1..k : items[m].is = "assign" => items[m].name \in e.rebound
    BY <1>2, <2>1, <2>2 DEF KnowsRebound
  <2>4. ASSUME NEW n \in e.rebound, n \notin d.rebound
        PROVE  \/ \E m \in 1..Len(items) : items[m].is \in {"assign", "update"} /\ items[m].name = n
               \/ \E m, l \in Bindings(items, n) : m < l
    <3>1. n = item.name /\ (item.is \in {"assign", "update"} \/ (item.is = "var" /\ n \in d.declarations))
      BY <2>1, <2>4
    <3>2. CASE item.is \in {"assign", "update"}
      BY <3>1, <3>2
    <3>3. CASE item.is = "var" /\ n \in d.declarations
      <4>1. PICK m \in 1..(k - 1) : m \in Bindings(items, n)
        BY <2>2, <3>3 DEF KnowsNamed
      <4>2. k \in Bindings(items, n) /\ m < k
        BY <1>3, <3>1, <3>3 DEF Bindings
      <4>3. QED
        BY <4>1, <4>2
    <3>4. QED
      BY <3>1, <3>2, <3>3
  <2>5. QED
    BY <2>2, <2>3, <2>4 DEF KnowsRebound
<1>8. KnowsNamed(items, e, k)
  <2>1. /\ e.declarations = (IF item.is \in {"var", "assign"} THEN d.declarations \cup {item.name} ELSE d.declarations)
        /\ e.hand_written = IF item.is = "hash" THEN d.hand_written \cup {item.name} ELSE d.hand_written
    BY DEF Visited
  <2>2. KnowsNamed(items, d, k - 1)
    BY DEF Knows
  <2>3. item.is = "hash" => Indices(items, "hash", item.name) # {}
    BY DEF Indices
  <2>4. item.is \in {"var", "assign"} => k \in Bindings(items, item.name)
    BY DEF Bindings
  <2>5. \A n \in e.hand_written : Indices(items, "hash", n) # {}
    BY <2>1, <2>2, <2>3 DEF KnowsNamed
  <2>6. \A n \in e.declarations : \E m \in 1..k : m \in Bindings(items, n)
    BY <1>3, <1>4, <2>1, <2>2, <2>4 DEF KnowsNamed
  <2>7. QED
    BY <2>5, <2>6 DEF KnowsNamed
<1>9. KnowsLast(items, e, k)
  <2> SUFFICES ASSUME NEW q \in 1..k, items[q].is = "assign", ShapeAt(items[q]) # None, ~Superseded(items, q, k)
               PROVE  EndsWith(e, items[q].name, ShapeAt(items[q]))
    BY DEF KnowsLast
  <2>1. e.assignments = IF item.is = "assign" /\ ShapeAt(item) # None
                        THEN With(d.assignments, item.name, Append(AssignedBefore(d, item.name), ShapeAt(item)))
                        ELSE d.assignments
    BY DEF Visited
  <2>2. CASE q = k
    <3> DEFINE before == AssignedBefore(d, item.name)
               shape == ShapeAt(item)
               more == Append(before, shape)
    <3>1. before \in Seq(Given(items, item.name))
      <4>1. << >> \in Seq(Given(items, item.name))
        OBVIOUS
      <4>2. \A n \in DOMAIN d.assignments : d.assignments[n] \in Seq(Given(items, n))
        BY DEF Defines
      <4>3. QED
        BY <4>1, <4>2 DEF AssignedBefore
    <3>2. shape \in Given(items, item.name)
      BY <2>2 DEF Given, ShapeAt
    <3> HIDE DEF before, shape
    <3>3. more \in Seq(Given(items, item.name)) /\ Len(more) = Len(before) + 1 /\ more[Len(before) + 1] = shape
          /\ Len(before) \in Nat
      BY <3>1, <3>2, AppendProperties
    <3>4. Len(more) > 0 /\ Last(more) = shape
      BY <3>3 DEF Last
    <3>5. e.assignments = With(d.assignments, item.name, more)
      BY <2>1, <2>2 DEF before, shape
    <3> HIDE DEF more
    <3>6. item.name \in DOMAIN e.assignments /\ e.assignments[item.name] = more
      <4> DEFINE f == d.assignments
                 x == item.name
                 g == e.assignments
      <4>1. g = With(f, x, more)
        BY <3>5
      <4> HIDE DEF f, x, g
      <4>2. x \in DOMAIN g /\ g[x] = more
        BY <4>1 DEF With
      <4>3. QED
        BY <4>2 DEF x, g
    <3>7. QED
      BY <2>2, <3>4, <3>6 DEF EndsWith, shape
  <2>3. CASE q # k
    <3>1. q \in 1..(k - 1) /\ q < k
      BY <1>2, <1>3, <2>3
    <3>2. ~(item.is = "assign" /\ item.name = items[q].name /\ ShapeAt(item) # None)
      BY <1>4, <3>1 DEF Superseded
    <3>3. ~Superseded(items, q, k - 1)
      BY <1>3 DEF Superseded
    <3>4. KnowsLast(items, d, k - 1)
      BY DEF Knows
    <3>5. EndsWith(d, items[q].name, ShapeAt(items[q]))
      BY <3>1, <3>3, <3>4 DEF KnowsLast
    <3>6. /\ items[q].name \in DOMAIN e.assignments
          /\ e.assignments[items[q].name] = d.assignments[items[q].name]
      <4> DEFINE f == d.assignments
                 x == item.name
                 y == Append(AssignedBefore(d, item.name), ShapeAt(item))
                 more == item.is = "assign" /\ ShapeAt(item) # None
                 g == e.assignments
                 z == items[q].name
      <4>1. g = (IF more THEN With(f, x, y) ELSE f) /\ more \in BOOLEAN
        BY <2>1
      <4>2. z \in DOMAIN f /\ ~(more /\ z = x)
        BY <3>2, <3>5 DEF EndsWith
      <4> HIDE DEF f, x, y, more, g, z
      <4>3. z \in DOMAIN g /\ g[z] = f[z]
        BY <4>1, <4>2, WithEntry
      <4>4. QED
        BY <4>3 DEF f, g, z
    <3>7. QED
      BY <3>5, <3>6 DEF EndsWith
  <2>4. QED
    BY <2>2, <2>3
<1>10. QED
  BY <1>5, <1>6, <1>7, <1>8, <1>9 DEF Knows

(* Picking the last element, one ends with it.                             *)
LEMMA OnlyLast ==
  ASSUME NEW S, NEW s \in Seq(S), NEW places, Len(s) > 0, Len(s) \in places
  PROVE  Only(s, places) # << >> /\ Last(Only(s, places)) = Last(s)
<1> DEFINE r == Only(s, places)
           A == places \cap (1..Len(s))
<1>1. r \in Seq(S) /\ \E g : Picks(r, s, A, g)
  BY OnlyPicks
<1>2. PICK g : Picks(r, s, A, g)
  BY <1>1
<1>3. Len(s) \in A /\ Len(s) \in Nat /\ \A m \in A : m <= Len(s) /\ m \in Nat
  OBVIOUS
<1> HIDE DEF r, A
<1>4. /\ g \in [1..Len(r) -> A]
      /\ \A i \in 1..Len(r) : r[i] = s[g[i]]
      /\ \A i, j \in 1..Len(r) : i < j => g[i] < g[j]
      /\ \A m \in A : \E i \in 1..Len(r) : g[i] = m
  BY <1>2 DEF Picks
<1>5. PICK i \in 1..Len(r) : g[i] = Len(s)
  BY <1>3, <1>4
<1>6. Len(r) \in Nat /\ Len(r) \in 1..Len(r)
  <2>1. Len(r) \in Nat
    BY <1>1
  <2>2. QED
    BY <1>5, <2>1
<1>7. i = Len(r)
  <2>1. ~(i < Len(r))
    <3>1. SUFFICES ASSUME i < Len(r) PROVE FALSE
      OBVIOUS
    <3>2. g[i] < g[Len(r)] /\ g[Len(r)] \in A
      BY <1>4, <1>6, <3>1
    <3>3. QED
      BY <1>3, <1>5, <3>2
  <2>2. QED
    BY <1>6, <2>1
<1>8. r[Len(r)] = s[Len(s)]
  BY <1>4, <1>5, <1>7
<1>9. r # << >>
  <2>1. Len(<< >>) = 0
    OBVIOUS
  <2>2. QED
    BY <1>6, <2>1
<1>10. QED
  BY <1>8, <1>9 DEF Last, r

(* The shape is that of the value.                                         *)
IsFor(items, value, shape) ==
  /\ value.is = "function" => shape.is = "function" /\ Shows(items, value.span, shape.span)
  /\ value.is = "object" => ShapeOf(items, value, shape)

(* A call of collect for the value, or for a name with it that is linked   *)
(* before y.                                                               *)
Resolves(items, value, y, c) ==
  \/ IsFor(items, value, c.shape)
  \/ /\ c.shape.is = "alias" /\ c.follow /\ c.shape.name \in Names
     /\ ValueAt(items, c.shape.name) = value /\ Link(items, c.shape.name) < Link(items, y)

(* What a call of collect with these kinds looks for.                      *)
SortOf(value, kinds) == \/ value.is = "function" /\ kinds.function
                        \/ value.is = "object" /\ kinds.object

(* No name of a plain program is a worklet by hand.                        *)
LEMMA NotByHand ==
  ASSUME NEW items \in Seq(BodyItems), PlainProgram(items), NEW d, NEW k, Knows(items, d, k), NEW y \in Names
  PROVE  y \notin d.hand_written
<1>1. Traceable(items, y)
  BY DEF PlainProgram
<1>2. Indices(items, "hash", y) = {}
  BY <1>1, TraceableFacts
<1>3. QED
  BY <1>2 DEF Knows, KnowsNamed

(* The shape of an expression that is not a name.                          *)
LEMMA OwnShape ==
  ASSUME NEW items \in Seq(BodyItems), PlainProgram(items), NEW p \in 1..Len(items), NEW k, NEW v,
         HasValue(items, p, k, v), v.is \notin {"name", "other"}
  PROVE  LET value == Evaluate(v, items[p].id, k, Environments(items)[p - 1])
             shape == Describe(v, items[p].id, k)
         IN  /\ value.is \in {"function", "object"} /\ shape.is = value.is /\ shape # None
             /\ IsFor(items, value, shape)
<1> DEFINE id == items[p].id
           env == Environments(items)[p - 1]
           value == Evaluate(v, id, k, env)
           shape == Describe(v, id, k)
<1>1. v \in Values /\ k \in Nat /\ id \in Nat
  BY HasValueFacts
<1>2. v.is \in FunctionKinds \/ v.is = "object"
  <2>1. v.is \in ValueKinds
    BY <1>1, ValueFacts
  <2>2. QED
    BY <2>1 DEF ValueKinds, FunctionKinds
<1>3. shape # None
  <2> HIDE DEF id
  <2>1. QED
    BY <1>1, ValueIsSome
<1>4. CASE v.is \in FunctionKinds
  <2>1. value.is = "function" /\ shape.is = "function" /\ Shows(items, value.span, shape.span)
    BY <1>4, FunctionShape
  <2> HIDE DEF value, shape
  <2>2. IsFor(items, value, shape)
    BY <2>1 DEF IsFor
  <2>3. QED
    BY <1>3, <2>1, <2>2 DEF value, shape
<1>5. CASE v.is = "object"
  <2>1. value.is = "object" /\ ShapeOf(items, value, shape)
    BY <1>5, ObjectShape
  <2> HIDE DEF value, shape
  <2>2. IsFor(items, value, shape) /\ shape.is = "object"
    BY <2>1 DEF IsFor, ShapeOf
  <2>3. QED
    BY <1>3, <2>1, <2>2 DEF value, shape
<1>6. QED
  BY <1>2, <1>4, <1>5

(* What is declared as a function is known, unless it is default-exported, *)
LEMMA ResolveDeclared ==
  ASSUME NEW items \in Seq(BodyItems), PlainProgram(items), NEW d, Defines(items, d), Knows(items, d, Len(items)),
         NEW y \in Names, Bindings(items, y) = {}, ValueAt(items, y) # None
  PROVE  /\ ValueAt(items, y).is = "function"
         /\ \/ ValueAt(items, y).span \in DefaultFunctions(items)
            \/ /\ y \in DOMAIN d.function_declarations
               /\ Shows(items, ValueAt(items, y).span, d.function_declarations[y])
<1>1. Traceable(items, y)
  BY DEF PlainProgram
<1>2. PICK m \in Indices(items, "fnDecl", y) : ValueAt(items, y) = AFunction(<<items[m].id, 0, 0>>)
  BY <1>1, DeclaredValue
<1> DEFINE f == <<items[m].id, 0, 0>>
           V == ValueAt(items, y)
<1>3. m \in 1..Len(items) /\ items[m].is = "fnDecl" /\ items[m].name = y
  BY DEF Indices
<1>4. V.is = "function" /\ V.span = f
  BY <1>2 DEF AFunction
<1> HIDE DEF V
<1>5. CASE items[m].export = "default"
  <2>1. f \in DefaultFunctions(items)
    BY <1>3, <1>5 DEF DefaultFunctions
  <2>2. QED
    BY <1>4, <2>1 DEF V
<1>6. CASE items[m].export # "default"
  <2>1. y \in DOMAIN d.function_declarations
    BY <1>3, <1>6 DEF Knows, KnowsFunctions, IsFnDecl
  <2>2. PICK l \in 1..Len(items) : /\ items[l].is = "fnDecl" /\ items[l].name = y
                                   /\ d.function_declarations[y] = <<items[l].id, 0, 0>>
    BY <2>1 DEF Defines, Declared
  <2>3. l = m
    <3>1. l \in Definers(items, y)
      BY <2>2 DEF Definers
    <3>2. QED
      BY <1>1, <3>1, TraceableFacts
  <2>4. f \in FunctionsIn(items[m]) /\ SpanIn(items[m], f) = f
    BY <1>3 DEF FunctionsIn, SpanIn
  <2>5. Shows(items, f, f)
    BY <1>3, <2>4 DEF Shows
  <2>6. Shows(items, V.span, d.function_declarations[y])
    BY <1>4, <2>2, <2>3, <2>5
  <2>7. QED
    BY <1>4, <2>1, <2>6 DEF V
<1>7. QED
  BY <1>5, <1>6

(* and what is bound: it is no declared function, and known by the shape   *)
(* that it is given last.                                                  *)
LEMMA BoundOnly ==
  ASSUME NEW items \in Seq(BodyItems), PlainProgram(items), NEW d, Defines(items, d),
         NEW y \in Names, NEW q \in Bindings(items, y)
  PROVE  y \notin DOMAIN d.function_declarations
<1>1. Traceable(items, y)
  BY DEF PlainProgram
<1>2. q \in Definers(items, y) /\ items[q].is # "fnDecl"
  BY DEF Bindings, Definers
<1>3. \A m \in Indices(items, "fnDecl", y) : m = q
  BY <1>1, <1>2, TraceableFacts
<1>4. Declared(items, y, d.function_declarations[y]) => \E m \in Indices(items, "fnDecl", y) : items[m].is = "fnDecl"
  BY DEF Declared, Indices
<1>5. QED
  BY <1>2, <1>3, <1>4 DEF Defines

(* A name that is assigned last is followed to that assignment.            *)
LEMMA AssignedLast ==
  ASSUME NEW items \in Seq(BodyItems), Defines(items, definitions), Knows(items, definitions, Len(items)),
         NEW q \in 1..Len(items), items[q].is = "assign", \A m \in Bindings(items, items[q].name) : m <= q,
         ShapeAt(items[q]) # None, NEW kinds, HasShape(ShapeAt(items[q]), kinds)
  PROVE  Followed(items[q].name, kinds) = <<Call(ShapeAt(items[q]), kinds, FALSE)>>
<1> DEFINE y == items[q].name
           shape == ShapeAt(items[q])
           assigned == definitions.assignments[y]
           places == {n \in 1..Len(assigned) : HasShape(assigned[n], kinds)}
           S == Given(items, y)
<1>1. Len(items) \in Nat /\ q \in Nat
  OBVIOUS
<1>2. y \in definitions.rebound
  BY DEF Knows, KnowsRebound
<1>3. ~Superseded(items, q, Len(items))
  <2>1. \A l \in 1..Len(items) : items[l].is = "assign" /\ items[l].name = y => l \in Bindings(items, y)
    BY DEF Bindings
  <2>2. \A l \in 1..Len(items) : l \in Nat
    BY <1>1
  <2>3. \A l \in 1..Len(items) : items[l].is = "assign" /\ items[l].name = y => ~(q < l)
    BY <1>1, <2>1, <2>2
  <2>4. QED
    BY <2>3 DEF Superseded
<1>4. EndsWith(definitions, y, shape)
  BY <1>3 DEF Knows, KnowsLast
<1>5. y \in DOMAIN definitions.assignments /\ Len(assigned) > 0 /\ Last(assigned) = shape
  BY <1>4 DEF EndsWith
<1>6. assigned \in Seq(S)
  BY <1>5 DEF Defines
<1>7. Fitting(y, kinds) = Only(assigned, places)
  BY <1>5 DEF Fitting
<1> HIDE DEF y, shape, assigned, S
<1>8. Len(assigned) \in places
  <2>1. assigned[Len(assigned)] = shape
    BY <1>5 DEF Last
  <2>2. Len(assigned) \in 1..Len(assigned)
    BY <1>5, <1>6
  <2>3. HasShape(shape, kinds)
    BY DEF shape
  <2>4. QED
    BY <2>1, <2>2, <2>3
<1> HIDE DEF places
<1>9. Only(assigned, places) # << >> /\ Last(Only(assigned, places)) = Last(assigned)
  BY <1>5, <1>6, <1>8, OnlyLast
<1>10. LastAssignment(y, kinds) = shape
  BY <1>5, <1>7, <1>9 DEF LastAssignment
<1>11. shape # None
  BY DEF shape
<1>12. Followed(y, kinds) = <<Call(shape, kinds, FALSE)>>
  <2>1. (y \notin definitions.rebound) = FALSE
    BY <1>2
  <2> DEFINE definition == LastAssignment(y, kinds)
  <2>2. Followed(y, kinds) = IF definition = None THEN << >> ELSE <<Call(definition, kinds, y \notin definitions.rebound)>>
    BY <1>2 DEF Followed
  <2> HIDE DEF definition
  <2>3. definition = shape
    BY <1>10 DEF definition
  <2>4. QED
    BY <1>11, <2>1, <2>2, <2>3
<1>13. QED
  BY <1>12 DEF y, shape

(* A variable that is bound once is followed to its declarator.            *)
LEMMA BoundOnce ==
  ASSUME NEW items \in Seq(BodyItems), PlainProgram(items), Defines(items, definitions),
         Knows(items, definitions, Len(items)),
         NEW q \in 1..Len(items), items[q].is = "var", items[q].name \in Names,
         \A m \in Bindings(items, items[q].name) : m = q,
         ShapeAt(items[q]) # None, NEW kinds
  PROVE  Followed(items[q].name, kinds) = <<Call(ShapeAt(items[q]), kinds, TRUE)>>
<1> DEFINE shape == ShapeAt(items[q])
           y == items[q].name
<1>1. Traceable(items, y)
  BY DEF PlainProgram
<1>2. q \in Nat
  OBVIOUS
<1>3. \A m \in Touching(items, y) : m = q
  BY <1>1, TraceableFacts
<1>4. y \notin definitions.rebound
  <2>1. \A m \in 1..Len(items) : items[m].is \in {"assign", "update"} /\ items[m].name = y => m \in Touching(items, y)
    BY DEF Touching
  <2>2. \A m \in 1..Len(items) : ~(items[m].is \in {"assign", "update"} /\ items[m].name = y)
    BY <1>3, <2>1
  <2>3. \A m, l \in Bindings(items, y) : ~(m < l)
    BY <1>2
  <2>4. QED
    BY <2>2, <2>3 DEF Knows, KnowsRebound
<1>5. y \in DOMAIN definitions.declarators
  BY <1>2 DEF Knows, KnowsDeclarators
<1>6. definitions.declarators[y] = shape
  <2>1. definitions.declarators[y] \in Given(items, y)
    BY <1>5 DEF Defines
  <2>2. PICK m \in Bindings(items, y) : definitions.declarators[y] = Describe(items[m].value, items[m].id, 0)
    BY <2>1 DEF Given, Bindings
  <2>3. m = q
    OBVIOUS
  <2>4. QED
    BY <2>2, <2>3 DEF ShapeAt
<1>7. shape # None
  OBVIOUS
<1> HIDE DEF shape
<1> DEFINE definition == definitions.declarators[y]
<1>8. Followed(y, kinds) = IF definition = None THEN << >> ELSE <<Call(definition, kinds, y \notin definitions.rebound)>>
  BY <1>4, <1>5 DEF Followed
<1>9. (y \notin definitions.rebound) = TRUE
  BY <1>4
<1> HIDE DEF definition
<1>10. definition = shape
  BY <1>6 DEF definition
<1>11. Followed(y, kinds) = <<Call(shape, kinds, TRUE)>>
  BY <1>7, <1>8, <1>9, <1>10
<1>12. QED
  BY <1>11 DEF shape

(* The name's calls resolve its value.                                     *)
FollowsTo(items, y, value, kinds) ==
  \E c : Followed(y, kinds) = <<c>> /\ c.kinds = kinds /\ Resolves(items, value, y, c)

(* One call shows what a name is followed to.                              *)
LEMMA FollowsOne ==
  ASSUME NEW items, NEW y, NEW value, NEW kinds, NEW c, Followed(y, kinds) = <<c>>, c.kinds = kinds,
         Resolves(items, value, y, c)
  PROVE  FollowsTo(items, y, value, kinds)
BY DEF FollowsTo

(* A name with a value that is looked for is followed to it.               *)
LEMMA ResolveBound ==
  ASSUME NEW items \in Seq(BodyItems), PlainProgram(items), Defines(items, definitions),
         Knows(items, definitions, Len(items)),
         NEW y \in Names, Bindings(items, y) # {}, ValueAt(items, y) # None,
         NEW kinds, SortOf(ValueAt(items, y), kinds)
  PROVE  FollowsTo(items, y, ValueAt(items, y), kinds)
<1> DEFINE V == ValueAt(items, y)
<1>1. Traceable(items, y) /\ Len(items) \in Nat
  BY DEF PlainProgram
<1>2. PICK q \in Bindings(items, y) :
        /\ \A m \in Bindings(items, y) : m <= q
        /\ V = Evaluate(items[q].value, items[q].id, 0, Environments(items)[q - 1])
  BY <1>1, BoundValue
<1>3. q \in 1..Len(items) /\ items[q].is \in {"var", "assign"} /\ items[q].name = y
  BY DEF Bindings
<1> DEFINE v == items[q].value
           id == items[q].id
           env == Environments(items)[q - 1]
           shape == ShapeAt(items[q])
<1>4. HasValue(items, q, 0, v)
  BY <1>3 DEF HasValue
<1>5. v \in Values /\ id \in Nat /\ \A n \in NamesIn(v) : q \in Uses(items, n)
  BY <1>3, <1>4, HasValueFacts
<1>6. v.is # "other" /\ (v.is = "name" => V = env[v.name])
  <2>1. V = Evaluate(v, id, 0, env)
    BY <1>2
  <2>2. V # None
    OBVIOUS
  <2> HIDE DEF v, id, env, V
  <2>3. QED
    BY <1>5, <2>1, <2>2, EvaluateCases
<1>7. v.is \notin {"name", "other"} =>
        V.is \in {"function", "object"} /\ shape.is = V.is /\ shape # None /\ IsFor(items, V, shape)
  BY <1>2, <1>3, <1>4, OwnShape DEF ShapeAt
<1>8. v.is \notin {"name", "other"} => HasShape(shape, kinds)
  BY <1>7 DEF HasShape, SortOf
<1>9. CASE items[q].is = "assign"
  <2>1. q \in Indices(items, "assign", y)
    BY <1>3, <1>9 DEF Indices
  <2>2. v.is \notin {"name", "other"}
    BY <1>1, <2>1, TraceableFacts
  <2>3. Followed(y, kinds) = <<Call(shape, kinds, FALSE)>>
    BY <1>2, <1>3, <1>7, <1>8, <1>9, <2>2, AssignedLast
  <2> DEFINE c == Call(shape, kinds, FALSE)
  <2>4. c.shape = shape /\ c.kinds = kinds
    <3> HIDE DEF shape
    <3>1. QED
      BY DEF Call
  <2>5. IsFor(items, V, shape)
    BY <1>7, <2>2
  <2>6. Followed(y, kinds) = <<c>>
    BY <2>3
  <2> HIDE DEF c, V, shape
  <2>7. Resolves(items, V, y, c)
    BY <2>4, <2>5 DEF Resolves
  <2>8. FollowsTo(items, y, V, kinds)
    BY <2>4, <2>6, <2>7, FollowsOne
  <2>9. QED
    BY <2>8 DEF V
<1>10. CASE items[q].is = "var"
  <2>1. Bindings(items, y) = {q}
    <3>1. q \in Indices(items, "var", y)
      BY <1>3, <1>10 DEF Indices
    <3>2. \A m \in Bindings(items, y) : m \in Indices(items, "var", y) \/ m \in Indices(items, "assign", y)
      BY DEF Bindings, Indices
    <3>3. \A m \in Indices(items, "assign", y) : q < m
      BY <1>1, <3>1, TraceableFacts
    <3>4. \A m \in Indices(items, "var", y) : m = q
      BY <1>1, <3>1, TraceableFacts
    <3>5. \A m \in Bindings(items, y) : m \in Nat /\ q \in Nat
      BY <1>3 DEF Bindings
    <3>6. \A m \in Bindings(items, y) : m = q
      BY <1>2, <3>2, <3>3, <3>4, <3>5
    <3>7. QED
      BY <3>6
  <2>2. shape # None
    <3> HIDE DEF v, id
    <3>1. Describe(v, id, 0) # None
      BY <1>5, <1>6, ValueIsSome
    <3>2. QED
      BY <3>1 DEF v, id, ShapeAt
  <2> DEFINE c == Call(shape, kinds, TRUE)
  <2>3. Followed(y, kinds) = <<c>>
    <3>1. ShapeAt(items[q]) # None
      BY <2>2
    <3>2. items[q].name \in Names /\ \A m \in Bindings(items, items[q].name) : m = q
      BY <1>3, <2>1
    <3> HIDE DEF shape, v, id, env, V
    <3>3. Followed(items[q].name, kinds) = <<Call(ShapeAt(items[q]), kinds, TRUE)>>
      BY <1>3, <1>10, <3>1, <3>2, BoundOnce
    <3>4. QED
      BY <1>3, <3>3 DEF shape
  <2>4. c.shape = shape /\ c.kinds = kinds /\ c.follow = TRUE
    <3> HIDE DEF shape
    <3>1. QED
      BY DEF Call
  <2>5. Resolves(items, V, y, c)
    <3>1. CASE v.is \notin {"name", "other"}
      <4>1. IsFor(items, V, shape)
        BY <1>7, <3>1
      <4> HIDE DEF c, V, shape
      <4>2. QED
        BY <2>4, <4>1 DEF Resolves
    <3>2. CASE v.is = "name"
      <4> DEFINE z == v.name
      <4>1. z \in Names /\ z \in NamesIn(v)
        BY <1>5, <3>2 DEF Values, NamesIn
      <4>2. Traceable(items, z) /\ q \in Uses(items, z)
        BY <1>5, <4>1 DEF PlainProgram
      <4>3. env[z] = V /\ V # None
        BY <1>6, <3>2
      <4>4. ValueAt(items, z) = V /\ \A m \in Bindings(items, z) : m < q
        <5> HIDE DEF z, V
        <5>1. Environments(items)[q - 1][z] # None
          BY <4>3
        <5>2. QED
          BY <4>1, <4>2, <4>3, <5>1, UsedValue
      <4>5. shape = AnAlias(z)
        BY <3>2 DEF ShapeAt, Describe
      <4>6. q \in Links(items, y)
        BY <1>3, <1>10, <3>2 DEF Links, Indices
      <4>7. Link(items, y) = q
        BY <2>1, <4>6, LinkCases
      <4>8. Link(items, z) < q
        <5>1. 0 < q
          BY <1>3
        <5>2. Link(items, z) = 0 \/ Link(items, z) \in Bindings(items, z)
          BY LinkCases
        <5>3. QED
          BY <4>4, <5>1, <5>2
      <4>9. c.shape.is = "alias" /\ c.shape.name = z
        <5> HIDE DEF c, shape, z
        <5>1. c.shape = AnAlias(z)
          BY <2>4, <4>5
        <5>2. QED
          BY <5>1 DEF AnAlias
      <4> HIDE DEF c, V, shape, z
      <4>10. QED
        BY <2>4, <4>1, <4>4, <4>7, <4>8, <4>9 DEF Resolves
    <3>3. QED
      BY <1>6, <3>1, <3>2
  <2> HIDE DEF c, V, shape
  <2>6. FollowsTo(items, y, V, kinds)
    BY <2>3, <2>4, <2>5, FollowsOne
  <2>7. QED
    BY <2>6 DEF V
<1>11. QED
  BY <1>3, <1>9, <1>10

(* c is one of these.                                                      *)
Has(calls, c) == \E n \in 1..Len(calls) : calls[n] = c

(* There is no call in no calls,                                           *)
LEMMA HasNone == ASSUME NEW c PROVE ~Has(<< >>, c)
<1> DEFINE none == << >>
<1>1. none \in Seq({}) /\ Len(none) = 0
  OBVIOUS
<1> HIDE DEF none
<1>2. ~Has(none, c)
  BY <1>1 DEF Has
<1>3. QED
  BY <1>2 DEF none

(* one in one,                                                             *)
LEMMA HasOne ==
  ASSUME NEW c
  PROVE  IsSeq(<<c>>) /\ <<c>> # << >> /\ Head(<<c>>) = c /\ Tail(<<c>>) = << >> /\ \A d : Has(<<c>>, d) <=> d = c
<1> DEFINE one == <<c>>
<1>1. one \in Seq({c}) /\ Len(one) = 1 /\ one[1] = c /\ Head(one) = c /\ Tail(one) = << >> /\ one # << >>
  OBVIOUS
<1> HIDE DEF one
<1>2. \A d : Has(one, d) <=> d = c
  BY <1>1 DEF Has
<1>3. IsSeq(one)
  BY <1>1 DEF IsSeq
<1>4. QED
  BY <1>1, <1>2, <1>3 DEF one

(* the first one and the rest,                                             *)
LEMMA HasTail ==
  ASSUME NEW calls, IsSeq(calls), calls # << >>
  PROVE  /\ IsSeq(Tail(calls)) /\ Has(calls, Head(calls))
         /\ \A c : Has(calls, c) <=> c = Head(calls) \/ Has(Tail(calls), c)
<1>1. PICK S : calls \in Seq(S)
  BY DEF IsSeq
<1> DEFINE t == Tail(calls)
<1>2. Len(calls) \in Nat /\ Len(calls) # 0 /\ Head(calls) = calls[1] /\ 1 \in 1..Len(calls)
  <2>1. Len(calls) \in Nat /\ Len(calls) # 0 /\ Head(calls) = calls[1]
    BY <1>1
  <2>2. QED
    BY <2>1
<1>3. t \in Seq(S) /\ Len(t) = Len(calls) - 1 /\ \A n \in 1..Len(t) : t[n] = calls[n + 1]
  BY <1>1, <1>2
<1>4. \A n \in 1..Len(t) : n + 1 \in 1..Len(calls)
  BY <1>2, <1>3
<1>5. \A n \in 1..Len(calls) : n = 1 \/ (n - 1 \in 1..Len(t) /\ (n - 1) + 1 = n)
  BY <1>2, <1>3
<1> HIDE DEF t
<1>6. IsSeq(t)
  BY <1>3 DEF IsSeq
<1>7. Has(calls, Head(calls))
  BY <1>2 DEF Has
<1>8. ASSUME NEW c, Has(calls, c) PROVE c = Head(calls) \/ Has(t, c)
  <2>1. PICK n \in 1..Len(calls) : calls[n] = c
    BY <1>8 DEF Has
  <2>2. CASE n = 1
    BY <1>2, <2>1, <2>2
  <2>3. CASE n # 1
    <3>1. n - 1 \in 1..Len(t) /\ t[n - 1] = calls[n]
      BY <1>3, <1>5, <2>3
    <3>2. QED
      BY <2>1, <3>1 DEF Has
  <2>4. QED
    BY <2>2, <2>3
<1>9. ASSUME NEW c, Has(t, c) PROVE Has(calls, c)
  BY <1>3, <1>4, <1>9 DEF Has
<1>10. QED
  BY <1>6, <1>7, <1>8, <1>9 DEF t

(* and those of both.                                                      *)
LEMMA HasBoth ==
  ASSUME NEW c1, NEW c2, IsSeq(c1), IsSeq(c2)
  PROVE  IsSeq(c1 \o c2) /\ \A c : Has(c1 \o c2, c) <=> Has(c1, c) \/ Has(c2, c)
<1>1. PICK S1 : c1 \in Seq(S1)
  BY DEF IsSeq
<1>2. PICK S2 : c2 \in Seq(S2)
  BY DEF IsSeq
<1> DEFINE S == S1 \cup S2
           r == c1 \o c2
<1>3. c1 \in Seq(S) /\ c2 \in Seq(S)
  BY <1>1, <1>2
<1> HIDE DEF S
<1>4. /\ r \in Seq(S) /\ Len(r) = Len(c1) + Len(c2) /\ Len(c1) \in Nat /\ Len(c2) \in Nat
      /\ \A n \in 1..Len(r) : r[n] = IF n <= Len(c1) THEN c1[n] ELSE c2[n - Len(c1)]
  BY <1>3, ConcatProperties
<1> HIDE DEF r
<1>5. \A n \in 1..Len(r) : \/ n \in 1..Len(c1) /\ r[n] = c1[n]
                           \/ n - Len(c1) \in 1..Len(c2) /\ r[n] = c2[n - Len(c1)]
  BY <1>4
<1>6. \A n \in 1..Len(c1) : n \in 1..Len(r) /\ r[n] = c1[n]
  BY <1>4
<1>7. \A n \in 1..Len(c2) : Len(c1) + n \in 1..Len(r) /\ r[Len(c1) + n] = c2[n]
  <2>1. \A n \in 1..Len(c2) : Len(c1) + n \in 1..Len(r) /\ ~(Len(c1) + n <= Len(c1)) /\ (Len(c1) + n) - Len(c1) = n
    BY <1>4
  <2>2. QED
    BY <1>4, <2>1
<1>8. \A c : Has(r, c) => Has(c1, c) \/ Has(c2, c)
  BY <1>5 DEF Has
<1>9. \A c : Has(c1, c) => Has(r, c)
  BY <1>6 DEF Has
<1>10. \A c : Has(c2, c) => Has(r, c)
  BY <1>7 DEF Has
<1>11. IsSeq(r)
  BY <1>4 DEF IsSeq
<1>12. QED
  BY <1>8, <1>9, <1>10, <1>11 DEF r

-----------------------------------------------------------------------------
(* What is marked, or has a default-exported name that is not known.       *)
Settled(items, st) == SiteFunctions(items, st) \cup DefaultFunctions(items)

(* f is marked, or a call that is still to be made leads to it.            *)
Awaits(items, f, calls, sn, st) ==
  f \in Settled(items, st) \/ \E c : Has(calls, c) /\ LeadsTo(items, sn, f, c)

(* All of the calls look for functions.                                    *)
ForFunctions(calls) == IsSeq(calls) /\ \A c : Has(calls, c) => c.kinds.function

(* The next call opens the object.                                         *)
Opens(items, value, calls, sn) ==
  \E c : /\ calls = <<c>> /\ c.kinds.object /\ \A x \in sn : ValueAt(items, x) = value
         /\ \/ IsFor(items, value, c.shape)
            \/ /\ c.shape.is = "alias" /\ c.follow /\ c.shape.name \in Names
               /\ ValueAt(items, c.shape.name) = value
               /\ \A x \in sn : Link(items, c.shape.name) < Link(items, x)

(* All functions of an object are awaited, and its spread was refused.     *)
AwaitsAll(items, value, calls, sn, st, err) ==
  /\ ForFunctions(calls) /\ \A f \in value.functions : Awaits(items, f, calls, sn, st)
  /\ value.spread => err

(* A function with a span that is collected is marked,                     *)
LEMMA MarkedShown ==
  ASSUME NEW items, NEW f, NEW span, NEW st, Shows(items, f, span), span \in st
  PROVE  f \in Settled(items, st)
BY DEF Shows, Settled, SiteFunctions

(* it stays marked,                                                        *)
LEMMA MarkedStays ==
  ASSUME NEW items, NEW st, NEW su, st \subseteq su
  PROVE  Settled(items, st) \subseteq Settled(items, su)
BY DEF Settled, SiteFunctions

(* and is awaited no longer than that,                                     *)
LEMMA AwaitsMarked ==
  ASSUME NEW items, NEW f, NEW calls, NEW sn, NEW st, f \in Settled(items, st)
  PROVE  Awaits(items, f, calls, sn, st)
BY DEF Awaits

(* or as long as a call leads to it.                                       *)
LEMMA AwaitsCall ==
  ASSUME NEW items, NEW f, NEW calls, NEW sn, NEW st, NEW c, Has(calls, c), LeadsTo(items, sn, f, c)
  PROVE  Awaits(items, f, calls, sn, st)
BY DEF Awaits

(* What the calls of a name that is followed next lead to.                 *)
NextLeads(items, f, y, c) ==
  \/ c.shape.is = "function" /\ Shows(items, f, c.shape.span)
  \/ /\ c.shape.is = "alias" /\ c.follow /\ c.shape.name \in Names /\ Means(items, c.shape.name, f)
     /\ Link(items, c.shape.name) < Link(items, y)

(* Following a name, one keeps a way to f or gets a new one.               *)
LEMMA LeadsOver ==
  ASSUME NEW items \in Seq(BodyItems), NEW f, NEW sn, NEW y, Means(items, y, f),
         NEW b, LeadsTo(items, sn, f, b), NEW c, NextLeads(items, f, y, c)
  PROVE  LeadsTo(items, sn \cup {y}, f, b) \/ LeadsTo(items, sn \cup {y}, f, c)
<1> DEFINE z == b.shape.name
<1>1. CASE b.shape.is = "function" /\ Shows(items, f, b.shape.span)
  BY <1>1 DEF LeadsTo
<1>2. CASE c.shape.is = "function" /\ Shows(items, f, c.shape.span)
  BY <1>2 DEF LeadsTo
<1>3. CASE /\ b.shape.is = "alias" /\ b.follow /\ z \in Names /\ Means(items, z, f)
           /\ \A x \in sn : Means(items, x, f) => Link(items, z) < Link(items, x)
  <2>1. CASE Link(items, z) < Link(items, y)
    BY <1>3, <2>1 DEF LeadsTo
  <2>2. CASE ~(Link(items, z) < Link(items, y)) /\ ~(c.shape.is = "function" /\ Shows(items, f, c.shape.span))
    <3> DEFINE a == c.shape.name
    <3>1. /\ c.shape.is = "alias" /\ c.follow /\ a \in Names /\ Means(items, a, f)
          /\ Link(items, a) < Link(items, y)
      BY <2>2 DEF NextLeads
    <3>2. \A x : Link(items, x) \in Nat
      BY LinkType
    <3>3. Link(items, a) < Link(items, z)
      BY <2>2, <3>1, <3>2
    <3>4. \A x \in sn : Means(items, x, f) => Link(items, a) < Link(items, x)
      BY <1>3, <3>2, <3>3
    <3>5. QED
      BY <3>1, <3>4 DEF LeadsTo
  <2>3. QED
    BY <1>2, <2>1, <2>2
<1>4. QED
  BY <1>1, <1>3 DEF LeadsTo

(* What a name with function f as its value is followed to.                *)
LEMMA FollowedOn ==
  ASSUME body \in Seq(BodyItems), PlainProgram(body), Defines(body, definitions),
         Knows(body, definitions, Len(body)), NEW y \in Names, NEW f, Means(body, y, f),
         NEW kinds, kinds.function
  PROVE  \/ f \in DefaultFunctions(body)
         \/ /\ y \in DOMAIN definitions.function_declarations
            /\ Shows(body, f, definitions.function_declarations[y])
         \/ /\ y \notin DOMAIN definitions.function_declarations
            /\ \E c : Followed(y, kinds) = <<c>> /\ c.kinds = kinds /\ NextLeads(body, f, y, c)
<1> DEFINE V == ValueAt(body, y)
<1>1. V # None /\ V.is = "function" /\ V.span = f
  BY DEF Means
<1>2. CASE Bindings(body, y) = {}
  BY <1>1, <1>2, ResolveDeclared
<1>3. CASE Bindings(body, y) # {}
  <2>1. y \notin DOMAIN definitions.function_declarations
    BY <1>3, BoundOnly
  <2>2. SortOf(V, kinds)
    BY <1>1 DEF SortOf
  <2>3. FollowsTo(body, y, V, kinds)
    BY <1>1, <1>3, <2>2, ResolveBound
  <2>4. PICK c : Followed(y, kinds) = <<c>> /\ c.kinds = kinds /\ Resolves(body, V, y, c)
    BY <2>3 DEF FollowsTo
  <2> HIDE DEF V
  <2>5. NextLeads(body, f, y, c)
    <3>1. CASE IsFor(body, V, c.shape)
      BY <1>1, <3>1 DEF IsFor, NextLeads
    <3>2. CASE /\ c.shape.is = "alias" /\ c.follow /\ c.shape.name \in Names
               /\ ValueAt(body, c.shape.name) = V /\ Link(body, c.shape.name) < Link(body, y)
      <4>1. Means(body, c.shape.name, f)
        BY <1>1, <3>2 DEF Means
      <4>2. QED
        BY <3>2, <4>1 DEF NextLeads
    <3>3. QED
      BY <2>4, <3>1, <3>2 DEF Resolves
  <2>6. QED
    BY <2>1, <2>4, <2>5
<1>4. QED
  BY <1>2, <1>3

(* The calls that a name is followed to look for the same.                 *)
LEMMA FollowedKinds ==
  ASSUME NEW y, NEW kinds
  PROVE  IsSeq(Followed(y, kinds)) /\ \A c : Has(Followed(y, kinds), c) => c.kinds = kinds
<1> DEFINE definition == IF y \in definitions.rebound THEN LastAssignment(y, kinds)
                         ELSE IF y \in DOMAIN definitions.declarators
                              THEN definitions.declarators[y] ELSE None
           follow == y \notin definitions.rebound
           c == Call(definition, kinds, follow)
<1>1. Followed(y, kinds) = IF definition = None THEN << >> ELSE <<c>>
  BY DEF Followed
<1>2. c.kinds = kinds
  <2> HIDE DEF definition, follow
  <2>1. QED
    BY DEF Call
<1> HIDE DEF c, definition
<1>3. CASE definition = None
  <2>1. IsSeq(<< >>)
    <3>1. << >> \in Seq({})
      OBVIOUS
    <3>2. QED
      BY <3>1 DEF IsSeq
  <2>2. QED
    BY <1>1, <1>3, <2>1, HasNone
<1>4. CASE definition # None
  BY <1>1, <1>2, <1>4, HasOne
<1>5. QED
  BY <1>3, <1>4

(* What is known while callbacks are collected.                            *)
KnownNow == /\ body \in Seq(BodyItems) /\ PlainProgram(body)
            /\ Defines(body, definitions) /\ Knows(body, definitions, Len(body))

(* Collecting a function does not lose one.                                *)
LEMMA FunctionAwaits ==
  ASSUME CollectFunction, ForFunctions(work), NEW f, Awaits(body, f, work, seen, sites)
  PROVE  ForFunctions(work') /\ Awaits(body, f, work', seen', sites')
<1>1. /\ work # << >> /\ Top.shape.is = "function" /\ work' = Tail(work) /\ seen' = seen
      /\ sites' = IF Top.kinds.function THEN sites \cup {Top.shape.span} ELSE sites
  BY DEF CollectFunction, Collect
<1>2. /\ IsSeq(Tail(work)) /\ Has(work, Top)
      /\ \A c : Has(work, c) <=> c = Top \/ Has(Tail(work), c)
  BY <1>1, HasTail DEF ForFunctions, Top
<1>3. ForFunctions(work') /\ Top.kinds.function
  BY <1>1, <1>2 DEF ForFunctions
<1>4. sites' = sites \cup {Top.shape.span}
  BY <1>1, <1>3
<1>5. CASE f \in Settled(body, sites)
  <2>1. f \in Settled(body, sites')
    BY <1>4, <1>5, MarkedStays
  <2>2. QED
    BY <1>3, <2>1, AwaitsMarked
<1>6. CASE f \notin Settled(body, sites)
  <2>1. PICK b : Has(work, b) /\ LeadsTo(body, seen, f, b)
    BY <1>6 DEF Awaits
  <2>2. CASE b = Top
    <3>1. Shows(body, f, Top.shape.span)
      BY <1>1, <2>1, <2>2 DEF LeadsTo
    <3>2. f \in Settled(body, sites')
      BY <1>4, <3>1, MarkedShown
    <3>3. QED
      BY <1>3, <3>2, AwaitsMarked
  <2>3. CASE b # Top
    <3>1. Has(work', b) /\ LeadsTo(body, seen', f, b)
      BY <1>1, <1>2, <2>1, <2>3
    <3>2. QED
      BY <1>3, <3>1, AwaitsCall
  <2>4. QED
    BY <2>2, <2>3
<1>7. QED
  BY <1>5, <1>6

(* The elements of one kind are all of them.                               *)
LEMMA OfKindHas ==
  ASSUME NEW properties, IsSeq(properties), NEW kind, NEW n \in 1..Len(properties), properties[n].is = kind
  PROVE  Has(OfKind(properties, kind), properties[n])
<1> DEFINE places == {m \in 1..Len(properties) : properties[m].is = kind}
           r == Only(properties, places)
<1>1. PICK S : properties \in Seq(S)
  BY DEF IsSeq
<1>2. n \in places \cap (1..Len(properties))
  OBVIOUS
<1>3. OfKind(properties, kind) = r
  BY DEF OfKind
<1> HIDE DEF places
<1>4. \E g : Picks(r, properties, places \cap (1..Len(properties)), g)
  BY <1>1, OnlyPicks
<1>5. PICK g : Picks(r, properties, places \cap (1..Len(properties)), g)
  BY <1>4
<1> HIDE DEF r
<1>6. \E i \in 1..Len(r) : r[i] = properties[n]
  BY <1>2, <1>5 DEF Picks
<1>7. QED
  BY <1>3, <1>6 DEF Has

(* The calls that an object leads to.                                      *)
ValueCalls(properties) ==
  [n \in 1..Len(OfKind(properties, "value")) |-> Call(OfKind(properties, "value")[n].shape, FUNCTION, TRUE)]

(* They are one call for a function for each value in it.                  *)
LEMMA ValueCallsHas ==
  ASSUME NEW properties, IsSeq(properties)
  PROVE  /\ ForFunctions(ValueCalls(properties))
         /\ \A p : Has(OfKind(properties, "value"), p) => Has(ValueCalls(properties), Call(p.shape, FUNCTION, TRUE))
<1> DEFINE values == OfKind(properties, "value")
           c == ValueCalls(properties)
           CallFor(p) == Call(p.shape, FUNCTION, TRUE)
           S == {CallFor(values[n]) : n \in 1..Len(values)}
<1>1. Len(values) \in Nat
  <2>1. PICK T : properties \in Seq(T)
    BY DEF IsSeq
  <2>2. values \in Seq(T)
    BY <2>1, OfKindFrom
  <2> HIDE DEF values
  <2>3. QED
    BY <2>2
<1>2. c = [n \in 1..Len(values) |-> CallFor(values[n])]
  BY DEF ValueCalls
<1>3. \A p : CallFor(p).kinds.function
  BY DEF Call, FUNCTION
<1> HIDE DEF c, CallFor, values
<1>4. c \in Seq(S) /\ Len(c) = Len(values)
  <2>1. c \in [1..Len(values) -> S]
    BY <1>2
  <2> HIDE DEF S
  <2>2. QED
    BY <1>1, <2>1
<1>5. \A n \in 1..Len(values) : c[n] = CallFor(values[n])
  BY <1>2
<1>6. \A d : Has(c, d) => d.kinds.function
  BY <1>3, <1>4, <1>5 DEF Has
<1> HIDE DEF S
<1>7. ForFunctions(c)
  BY <1>4, <1>6 DEF ForFunctions, IsSeq
<1>8. \A p : Has(values, p) => Has(c, CallFor(p))
  BY <1>4, <1>5 DEF Has
<1>9. QED
  BY <1>7, <1>8 DEF c, CallFor, values

(* Calls for functions, put together, are calls for functions.             *)
LEMMA ForBoth ==
  ASSUME NEW c1, NEW c2, ForFunctions(c1), ForFunctions(c2)
  PROVE  ForFunctions(c1 \o c2) /\ \A c : Has(c1 \o c2, c) <=> Has(c1, c) \/ Has(c2, c)
BY HasBoth DEF ForFunctions

(* What collecting an object does.                                         *)
LEMMA ObjectSteps ==
  ASSUME CollectObject
  PROVE  LET ps == Top.shape.properties
         IN  /\ work # << >> /\ Top.shape.is = "object" /\ seen' = seen
             /\ sites \subseteq sites' /\ (error => error')
             /\ Top.kinds.object =>
                  /\ sites' = sites \cup {p.span : p \in ToSet(OfKind(ps, "method"))}
                  /\ OfKind(ps, "unsupported") # << >> => error'
                  /\ work' = ValueCalls(ps) \o Tail(work)
             /\ ~Top.kinds.object => work' = Tail(work)
<1> DEFINE ps == Top.shape.properties
<1>1. work # << >> /\ Top.shape.is = "object" /\ seen' = seen
  BY DEF CollectObject, Collect
<1>2. CASE Top.kinds.object
  <2>1. /\ sites' = sites \cup {p.span : p \in ToSet(OfKind(ps, "method"))}
        /\ error' = (error \/ OfKind(ps, "unsupported") # << >>)
        /\ work' = ValueCalls(ps) \o Tail(work)
    BY <1>2 DEF CollectObject, OfKind, ValueCalls
  <2>2. QED
    BY <1>1, <1>2, <2>1
<1>3. CASE ~Top.kinds.object
  <2>1. work' = Tail(work) /\ sites' = sites /\ error' = error
    BY <1>3 DEF CollectObject
  <2>2. QED
    BY <1>1, <1>3, <2>1
<1>4. QED
  BY <1>2, <1>3

(* Collecting an object does not lose a function.                          *)
LEMMA ObjectAwaits ==
  ASSUME CollectObject, ForFunctions(work), Top.kinds.object => IsSeq(Top.shape.properties)
  PROVE  /\ ForFunctions(work')
         /\ \A f : Awaits(body, f, work, seen, sites) => Awaits(body, f, work', seen', sites')
<1> DEFINE ps == Top.shape.properties
<1>1. /\ work # << >> /\ Top.shape.is = "object" /\ seen' = seen /\ sites \subseteq sites'
      /\ Top.kinds.object => work' = ValueCalls(ps) \o Tail(work)
      /\ ~Top.kinds.object => work' = Tail(work)
  BY ObjectSteps
<1>2. /\ IsSeq(Tail(work)) /\ \A c : Has(work, c) <=> c = Top \/ Has(Tail(work), c)
  BY <1>1, HasTail DEF ForFunctions, Top
<1>3. ForFunctions(Tail(work))
  BY <1>2 DEF ForFunctions
<1>4. ForFunctions(work') /\ \A c : Has(Tail(work), c) => Has(work', c)
  <2>1. CASE Top.kinds.object
    <3>1. ForFunctions(ValueCalls(ps))
      BY <2>1, ValueCallsHas
    <3> DEFINE vs == ValueCalls(ps)
               t == Tail(work)
    <3> HIDE DEF vs, t
    <3>2. ForFunctions(vs \o t) /\ \A c : Has(t, c) => Has(vs \o t, c)
      <4>1. ForFunctions(vs) /\ ForFunctions(t)
        BY <1>3, <3>1 DEF vs, t
      <4>2. QED
        BY <4>1, ForBoth
    <3>3. QED
      BY <1>1, <2>1, <3>2 DEF vs, t
  <2>2. CASE ~Top.kinds.object
    BY <1>1, <1>3, <2>2
  <2>3. QED
    BY <2>1, <2>2
<1>5. ASSUME NEW f, Awaits(body, f, work, seen, sites) PROVE Awaits(body, f, work', seen', sites')
  <2>1. CASE f \in Settled(body, sites)
    <3>1. f \in Settled(body, sites')
      BY <1>1, <2>1, MarkedStays
    <3>2. QED
      BY <3>1, AwaitsMarked
  <2>2. CASE f \notin Settled(body, sites)
    <3>1. PICK b : Has(work, b) /\ LeadsTo(body, seen, f, b)
      BY <1>5, <2>2 DEF Awaits
    <3>2. b # Top
      BY <1>1, <3>1 DEF LeadsTo
    <3>3. Has(work', b) /\ LeadsTo(body, seen', f, b)
      BY <1>1, <1>2, <1>4, <3>1, <3>2
    <3>4. QED
      BY <3>3, AwaitsCall
  <2>3. QED
    BY <2>1, <2>2
<1>6. QED
  BY <1>4, <1>5

(* An object that is opened is replaced by its functions.                  *)
LEMMA ObjectOpens ==
  ASSUME CollectObject, NEW value, value # None, value.is = "object", Opens(body, value, work, seen)
  PROVE  AwaitsAll(body, value, work', seen', sites', error')
<1>1. PICK c : /\ work = <<c>> /\ c.kinds.object /\ \A x \in seen : ValueAt(body, x) = value
               /\ \/ IsFor(body, value, c.shape)
                  \/ /\ c.shape.is = "alias" /\ c.follow /\ c.shape.name \in Names
                     /\ ValueAt(body, c.shape.name) = value
                     /\ \A x \in seen : Link(body, c.shape.name) < Link(body, x)
  BY DEF Opens
<1>2. Top = c /\ Tail(work) = << >>
  BY <1>1, HasOne DEF Top
<1> DEFINE ps == c.shape.properties
<1>3. /\ c.shape.is = "object" /\ seen' = seen /\ sites \subseteq sites'
      /\ sites' = sites \cup {p.span : p \in ToSet(OfKind(ps, "method"))}
      /\ OfKind(ps, "unsupported") # << >> => error'
      /\ work' = ValueCalls(ps) \o << >>
  <2>1. /\ Top.shape.is = "object" /\ seen' = seen /\ sites \subseteq sites' /\ Top.kinds.object
        /\ sites' = sites \cup {p.span : p \in ToSet(OfKind(Top.shape.properties, "method"))}
        /\ OfKind(Top.shape.properties, "unsupported") # << >> => error'
        /\ work' = ValueCalls(Top.shape.properties) \o Tail(work)
    BY <1>1, <1>2, ObjectSteps
  <2>2. QED
    BY <1>2, <2>1
<1>4. ShapeOf(body, value, c.shape)
  BY <1>1, <1>3 DEF IsFor
<1>5. /\ IsSeq(ps)
      /\ \A f \in value.functions : \E n \in 1..Len(ps) : PropFor(body, f, ps[n])
      /\ value.spread => \E n \in 1..Len(ps) : ps[n].is = "unsupported"
  BY <1>4 DEF ShapeOf
<1> HIDE DEF ps
<1>6. ForFunctions(work') /\ \A d : Has(ValueCalls(ps), d) => Has(work', d)
  <2> DEFINE vs == ValueCalls(ps)
             none == << >>
  <2>1. ForFunctions(vs)
    BY <1>5, ValueCallsHas
  <2>2. ForFunctions(none)
    <3>1. none \in Seq({})
      OBVIOUS
    <3>2. IsSeq(none)
      BY <3>1 DEF IsSeq
    <3>3. QED
      BY <3>2, HasNone DEF ForFunctions
  <2>3. work' = vs \o none
    BY <1>3
  <2> HIDE DEF vs, none
  <2>4. ForFunctions(vs \o none) /\ \A d : Has(vs, d) => Has(vs \o none, d)
    BY <2>1, <2>2, ForBoth
  <2>5. QED
    BY <2>3, <2>4 DEF vs
<1>7. ASSUME NEW f \in value.functions PROVE Awaits(body, f, work', seen', sites')
  <2>1. PICK n \in 1..Len(ps) : PropFor(body, f, ps[n])
    BY <1>5
  <2> DEFINE p == ps[n]
  <2>2. CASE p.is = "method" /\ Shows(body, f, p.span)
    <3>1. Has(OfKind(ps, "method"), p)
      BY <1>5, <2>2, OfKindHas
    <3>2. p \in ToSet(OfKind(ps, "method"))
      BY <3>1 DEF Has, ToSet
    <3>3. p.span \in sites'
      BY <1>3, <3>2
    <3>4. f \in Settled(body, sites')
      BY <2>2, <3>3, MarkedShown
    <3>5. QED
      BY <3>4, AwaitsMarked
  <2>3. CASE p.is = "value" /\ LeadsTo(body, {}, f, Call(p.shape, FUNCTION, TRUE))
    <3> DEFINE d == Call(p.shape, FUNCTION, TRUE)
    <3>1. Has(OfKind(ps, "value"), p)
      BY <1>5, <2>3, OfKindHas
    <3>2. Has(work', d)
      BY <1>5, <1>6, <3>1, ValueCallsHas
    <3>3. LeadsTo(body, {}, f, d)
      BY <2>3
    <3> HIDE DEF d
    <3>4. \A x \in seen' : ~Means(body, x, f)
      <4>1. "object" # "function"
        OBVIOUS
      <4>2. QED
        BY <1>1, <1>3, <4>1 DEF Means
    <3>5. LeadsTo(body, seen', f, d)
      BY <3>3, <3>4 DEF LeadsTo
    <3>6. QED
      BY <3>2, <3>5, AwaitsCall
  <2>4. QED
    BY <2>1, <2>2, <2>3 DEF PropFor
<1>8. value.spread => error'
  <2>1. SUFFICES ASSUME value.spread PROVE OfKind(ps, "unsupported") # << >>
    BY <1>3 DEF ps
  <2>2. PICK n \in 1..Len(ps) : ps[n].is = "unsupported"
    BY <1>5, <2>1
  <2>3. Has(OfKind(ps, "unsupported"), ps[n])
    BY <1>5, <2>2, OfKindHas
  <2>4. QED
    BY <2>3, HasNone
<1>9. QED
  BY <1>6, <1>7, <1>8 DEF AwaitsAll

(* What following a name does.                                             *)
LEMMA AliasSteps ==
  ASSUME CollectAlias
  PROVE  LET name == Top.shape.name
             fds  == definitions.function_declarations
             told == Top.kinds.function /\ name \in DOMAIN fds
         IN  /\ work # << >> /\ Top.shape.is = "alias" /\ error' = error /\ sites \subseteq sites'
             /\ seen' = IF Top.follow THEN seen \cup {name} ELSE seen
             /\ ~Top.follow \/ StopsAt(name) => work' = Tail(work)
             /\ Top.follow /\ ~StopsAt(name) /\ told => sites' = sites \cup {fds[name]} /\ work' = << >> \o Tail(work)
             /\ Top.follow /\ ~StopsAt(name) /\ ~told => work' = Followed(name, Top.kinds) \o Tail(work)
<1> DEFINE name == Top.shape.name
           fds == definitions.function_declarations
           told == Top.kinds.function /\ name \in DOMAIN fds
<1>1. /\ work # << >> /\ Top.shape.is = "alias" /\ error' = error
      /\ seen' = IF Top.follow THEN seen \cup {name} ELSE seen
  BY DEF CollectAlias, Collect
<1>2. CASE ~Top.follow \/ StopsAt(name)
  <2>1. work' = Tail(work) /\ sites' = sites
    BY <1>2 DEF CollectAlias
  <2>2. QED
    BY <1>1, <1>2, <2>1
<1>3. CASE Top.follow /\ ~StopsAt(name) /\ told
  <2>1. sites' = sites \cup {fds[name]} /\ work' = << >> \o Tail(work)
    BY <1>3 DEF CollectAlias
  <2>2. QED
    BY <1>1, <1>3, <2>1
<1>4. CASE Top.follow /\ ~StopsAt(name) /\ ~told
  <2>1. sites' = sites /\ work' = Followed(name, Top.kinds) \o Tail(work)
    BY <1>4 DEF CollectAlias
  <2>2. QED
    BY <1>1, <1>4, <2>1
<1>5. QED
  BY <1>2, <1>3, <1>4

(* No calls are calls for functions.                                       *)
LEMMA ForNone == ForFunctions(<< >>) /\ IsSeq(<< >>)
<1> DEFINE none == << >>
<1>1. none \in Seq({})
  OBVIOUS
<1>2. \A c : ~Has(none, c)
  BY HasNone
<1> HIDE DEF none
<1>3. IsSeq(none)
  BY <1>1 DEF IsSeq
<1>4. ForFunctions(none)
  BY <1>2, <1>3 DEF ForFunctions
<1>5. QED
  BY <1>3, <1>4 DEF none

(* Following a name keeps all calls but the one for it, and looks for      *)
(* functions if that one did.                                              *)
LEMMA AliasWork ==
  ASSUME CollectAlias, ForFunctions(work)
  PROVE  /\ ForFunctions(work') /\ Has(work, Top) /\ Top.kinds.function
         /\ \A c : Has(work, c) => c = Top \/ Has(work', c)
<1> DEFINE name == Top.shape.name
           told == Top.kinds.function /\ name \in DOMAIN definitions.function_declarations
           t == Tail(work)
<1>1. /\ work # << >>
      /\ ~Top.follow \/ StopsAt(name) => work' = t
      /\ Top.follow /\ ~StopsAt(name) /\ told => work' = << >> \o t
      /\ Top.follow /\ ~StopsAt(name) /\ ~told => work' = Followed(name, Top.kinds) \o t
  BY AliasSteps
<1>2. /\ IsSeq(t) /\ Has(work, Top)
      /\ \A c : Has(work, c) <=> c = Top \/ Has(t, c)
  BY <1>1, HasTail DEF ForFunctions, Top
<1>3. ForFunctions(t) /\ Top.kinds.function
  BY <1>2 DEF ForFunctions
<1> HIDE DEF t
<1>4. ForFunctions(work') /\ \A c : Has(t, c) => Has(work', c)
  <2>1. CASE work' = t
    BY <1>3, <2>1
  <2>2. CASE work' = << >> \o t
    <3> DEFINE none == << >>
    <3>1. ForFunctions(none)
      BY ForNone
    <3>2. work' = none \o t
      BY <2>2
    <3> HIDE DEF none
    <3>3. ForFunctions(none \o t) /\ \A c : Has(t, c) => Has(none \o t, c)
      BY <1>3, <3>1, ForBoth
    <3>4. QED
      BY <3>2, <3>3
  <2>3. CASE work' = Followed(name, Top.kinds) \o t
    <3> DEFINE more == Followed(name, Top.kinds)
    <3>1. ForFunctions(more)
      BY <1>3, FollowedKinds DEF ForFunctions
    <3>2. work' = more \o t
      BY <2>3
    <3> HIDE DEF more
    <3>3. ForFunctions(more \o t) /\ \A c : Has(t, c) => Has(more \o t, c)
      BY <1>3, <3>1, ForBoth
    <3>4. QED
      BY <3>2, <3>3
  <2>4. QED
    BY <1>1, <2>1, <2>2, <2>3
<1>5. QED
  BY <1>2, <1>3, <1>4

(* Following a name does not lose a function.                              *)
LEMMA AliasAwaits ==
  ASSUME CollectAlias, KnownNow, ForFunctions(work), Top.shape.name \in Names,
         NEW f, Awaits(body, f, work, seen, sites)
  PROVE  Awaits(body, f, work', seen', sites')
<1> DEFINE y == Top.shape.name
           kinds == Top.kinds
           fds == definitions.function_declarations
           told == kinds.function /\ y \in DOMAIN fds
<1>1. /\ work # << >> /\ Top.shape.is = "alias" /\ sites \subseteq sites'
      /\ seen' = IF Top.follow THEN seen \cup {y} ELSE seen
      /\ Top.follow /\ ~StopsAt(y) /\ told => sites' = sites \cup {fds[y]}
      /\ Top.follow /\ ~StopsAt(y) /\ ~told => work' = Followed(y, kinds) \o Tail(work)
  BY AliasSteps
<1>2. /\ ForFunctions(work') /\ kinds.function
      /\ \A c : Has(work, c) => c = Top \/ Has(work', c)
  BY AliasWork
<1>3. CASE f \in Settled(body, sites)
  <2>1. f \in Settled(body, sites')
    BY <1>1, <1>3, MarkedStays
  <2>2. QED
    BY <2>1, AwaitsMarked
<1>4. CASE f \notin Settled(body, sites)
  <2>1. PICK b : Has(work, b) /\ LeadsTo(body, seen, f, b)
    BY <1>4 DEF Awaits
  <2>2. body \in Seq(BodyItems)
    BY DEF KnownNow
  <2>3. \A x : Link(body, x) \in Nat
    BY <2>2, LinkType
  <2>4. b = Top => Top.follow /\ Means(body, y, f) /\ y \notin seen
    <3>1. SUFFICES ASSUME b = Top PROVE Top.follow /\ Means(body, y, f) /\ y \notin seen
      OBVIOUS
    <3>2. /\ Top.follow /\ Means(body, y, f)
          /\ \A x \in seen : Means(body, x, f) => Link(body, y) < Link(body, x)
      BY <1>1, <2>1, <3>1 DEF LeadsTo
    <3>3. ~(Link(body, y) < Link(body, y))
      BY <2>3
    <3>4. QED
      BY <3>2, <3>3
  <2>5. CASE b # Top /\ LeadsTo(body, seen', f, b)
    <3>1. Has(work', b)
      BY <1>2, <2>1, <2>5
    <3>2. QED
      BY <2>5, <3>1, AwaitsCall
  <2>6. CASE ~Top.follow \/ y \in seen
    <3>1. seen' = seen
      BY <1>1, <2>6
    <3>2. QED
      BY <2>1, <2>4, <2>5, <2>6, <3>1
  <2>7. CASE Top.follow /\ y \notin seen /\ ~Means(body, y, f)
    <3>1. seen' = seen \cup {y}
      BY <1>1, <2>7
    <3>2. LeadsTo(body, seen', f, b)
      BY <2>1, <2>7, <3>1 DEF LeadsTo
    <3>3. QED
      BY <2>4, <2>5, <2>7, <3>2
  <2>8. CASE Top.follow /\ y \notin seen /\ Means(body, y, f)
    <3>1. y \notin definitions.hand_written
      BY NotByHand DEF KnownNow
    <3>2. Top.follow /\ ~StopsAt(y)
      BY <2>8, <3>1 DEF StopsAt
    <3>3. seen' = seen \cup {y}
      BY <1>1, <2>8
    <3>4. \/ y \in DOMAIN fds /\ Shows(body, f, fds[y])
          \/ y \notin DOMAIN fds /\ \E c : Followed(y, kinds) = <<c>> /\ c.kinds = kinds /\ NextLeads(body, f, y, c)
      <4> HIDE DEF y, kinds
      <4>1. y \in Names /\ Means(body, y, f) /\ kinds.function
        BY <1>2, <2>8 DEF y
      <4>2. f \notin DefaultFunctions(body)
        BY <1>4 DEF Settled
      <4>3. QED
        BY <4>1, <4>2, FollowedOn DEF KnownNow
    <3>5. CASE y \in DOMAIN fds /\ Shows(body, f, fds[y])
      <4>1. sites' = sites \cup {fds[y]}
        BY <1>1, <1>2, <3>2, <3>5
      <4>2. f \in Settled(body, sites')
        BY <3>5, <4>1, MarkedShown
      <4>3. QED
        BY <4>2, AwaitsMarked
    <3>6. CASE y \notin DOMAIN fds /\ \E c : Followed(y, kinds) = <<c>> /\ c.kinds = kinds /\ NextLeads(body, f, y, c)
      <4>1. PICK c : Followed(y, kinds) = <<c>> /\ NextLeads(body, f, y, c)
        BY <3>6
      <4>2. work' = <<c>> \o Tail(work)
        BY <1>1, <3>2, <3>6, <4>1
      <4>3. Has(work', c)
        <5> DEFINE one == <<c>>
                   t == Tail(work)
        <5>1. IsSeq(one) /\ Has(one, c)
          BY HasOne
        <5>2. IsSeq(t)
          BY <1>1, HasTail DEF ForFunctions
        <5> HIDE DEF one, t
        <5>3. Has(one \o t, c)
          BY <5>1, <5>2, HasBoth
        <5>4. QED
          BY <4>2, <5>3 DEF one, t
      <4>4. LeadsTo(body, seen \cup {y}, f, b) \/ LeadsTo(body, seen \cup {y}, f, c)
        <5> HIDE DEF y
        <5>1. QED
          BY <2>1, <2>2, <2>8, <4>1, LeadsOver
      <4>5. CASE LeadsTo(body, seen', f, c)
        BY <4>3, <4>5, AwaitsCall
      <4>6. CASE LeadsTo(body, seen', f, b)
        <5>1. b # Top
          <6>1. SUFFICES ASSUME b = Top PROVE FALSE
            OBVIOUS
          <6>2. \A x \in seen' : Means(body, x, f) => Link(body, y) < Link(body, x)
            BY <1>1, <4>6, <6>1 DEF LeadsTo
          <6>3. Link(body, y) < Link(body, y)
            BY <2>8, <3>3, <6>2
          <6>4. QED
            BY <2>3, <6>3
        <5>2. QED
          BY <2>5, <4>6, <5>1
      <4>7. QED
        BY <3>3, <4>4, <4>5, <4>6
    <3>7. QED
      BY <3>4, <3>5, <3>6
  <2>9. QED
    BY <2>6, <2>7, <2>8
<1>5. QED
  BY <1>3, <1>4

(* A name for an object is followed to that.                               *)
LEMMA AliasOpens ==
  ASSUME CollectAlias, KnownNow, NEW value, value # None, value.is = "object", Opens(body, value, work, seen)
  PROVE  Opens(body, value, work', seen')
<1>1. PICK b : /\ work = <<b>> /\ b.kinds.object /\ \A x \in seen : ValueAt(body, x) = value
               /\ \/ IsFor(body, value, b.shape)
                  \/ /\ b.shape.is = "alias" /\ b.follow /\ b.shape.name \in Names
                     /\ ValueAt(body, b.shape.name) = value
                     /\ \A x \in seen : Link(body, b.shape.name) < Link(body, x)
  BY DEF Opens
<1>2. Top = b /\ Tail(work) = << >>
  BY <1>1, HasOne DEF Top
<1> DEFINE y == b.shape.name
           kinds == b.kinds
           fds == definitions.function_declarations
<1>3. b.shape.is = "alias" /\ Top.shape.name = y /\ Top.kinds = kinds
  BY <1>2, AliasSteps
<1>4. /\ b.follow /\ y \in Names /\ ValueAt(body, y) = value
      /\ \A x \in seen : Link(body, y) < Link(body, x)
  BY <1>1, <1>3 DEF IsFor, ShapeOf
<1>5. body \in Seq(BodyItems)
  BY DEF KnownNow
<1>6. \A x : Link(body, x) \in Nat
  BY <1>5, LinkType
<1>7. y \notin seen /\ y \notin definitions.hand_written
  <2>1. ~(Link(body, y) < Link(body, y))
    BY <1>6
  <2>2. y \notin definitions.hand_written
    BY <1>4, NotByHand DEF KnownNow
  <2>3. QED
    BY <1>4, <2>1, <2>2
<1>8. Bindings(body, y) # {}
  <2>1. SUFFICES ASSUME Bindings(body, y) = {} PROVE FALSE
    OBVIOUS
  <2>2. ValueAt(body, y).is = "function"
    BY <1>4, <2>1, ResolveDeclared DEF KnownNow
  <2>3. QED
    BY <1>4, <2>2
<1>9. y \notin DOMAIN fds
  BY <1>4, <1>8, BoundOnly DEF KnownNow
<1>10. FollowsTo(body, y, value, kinds)
  <2>1. SortOf(value, kinds)
    BY <1>1 DEF SortOf
  <2>2. FollowsTo(body, y, ValueAt(body, y), kinds)
    BY <1>4, <1>8, <2>1, ResolveBound DEF KnownNow
  <2>3. QED
    BY <1>4, <2>2
<1>11. PICK c : Followed(y, kinds) = <<c>> /\ c.kinds = kinds /\ Resolves(body, value, y, c)
  BY <1>10 DEF FollowsTo
<1>12. seen' = seen \cup {y} /\ work' = <<c>> \o << >>
  <2>1. Top.follow /\ ~StopsAt(y)
    BY <1>2, <1>4, <1>7 DEF StopsAt
  <2>2. seen' = seen \cup {y} /\ work' = Followed(y, kinds) \o Tail(work)
    <3>1. /\ seen' = IF Top.follow THEN seen \cup {Top.shape.name} ELSE seen
          /\ Top.follow /\ ~StopsAt(Top.shape.name)
             /\ ~(Top.kinds.function /\ Top.shape.name \in DOMAIN definitions.function_declarations)
             => work' = Followed(Top.shape.name, Top.kinds) \o Tail(work)
      BY AliasSteps
    <3>2. QED
      BY <1>3, <1>9, <2>1, <3>1
  <2>3. QED
    BY <1>2, <1>11, <2>2
<1>13. work' = <<c>>
  BY <1>12
<1>14. \A x \in seen' : ValueAt(body, x) = value
  BY <1>1, <1>4, <1>12
<1>15. \/ IsFor(body, value, c.shape)
       \/ /\ c.shape.is = "alias" /\ c.follow /\ c.shape.name \in Names
          /\ ValueAt(body, c.shape.name) = value
          /\ \A x \in seen' : Link(body, c.shape.name) < Link(body, x)
  <2>1. CASE /\ c.shape.is = "alias" /\ c.follow /\ c.shape.name \in Names
             /\ ValueAt(body, c.shape.name) = value /\ Link(body, c.shape.name) < Link(body, y)
    <3>1. \A x \in seen : Link(body, c.shape.name) < Link(body, x)
      BY <1>4, <1>6, <2>1
    <3>2. QED
      BY <1>12, <2>1, <3>1
  <2>2. QED
    BY <1>11, <2>1 DEF Resolves
<1>16. c.kinds.object
  BY <1>1, <1>11
<1> HIDE DEF y, kinds
<1>17. QED
  BY <1>13, <1>14, <1>15, <1>16 DEF Opens

-----------------------------------------------------------------------------
(* What a hook gets is marked; an object with a spread is refused.         *)
Handed(items, value, kinds, st, err) ==
  /\ value.is = "function" /\ kinds.function => value.span \in Settled(items, st)
  /\ value.is = "object" /\ kinds.object =>
       value.functions \subseteq Settled(items, st) /\ (value.spread => err)

(* The calls of collect still to be made see to that.                      *)
Serves(items, value, kinds, calls, sn, st, err) ==
  /\ value.is = "function" /\ kinds.function =>
       ForFunctions(calls) /\ Awaits(items, value.span, calls, sn, st)
  /\ value.is = "object" /\ kinds.object =>
       Opens(items, value, calls, sn) \/ AwaitsAll(items, value, calls, sn, st, err)

(* No call is left to make.                                                *)
LEMMA ServesEnd ==
  ASSUME NEW items, NEW value, NEW kinds, NEW sn, NEW st, NEW err,
         Serves(items, value, kinds, << >>, sn, st, err)
  PROVE  Handed(items, value, kinds, st, err)
<1> DEFINE none == << >>
<1>1. \A c : ~Has(none, c)
  BY HasNone
<1>2. ~Opens(items, value, none, sn)
  <2>1. \A c : << >> # <<c>>
    BY HasOne
  <2>2. QED
    BY <2>1 DEF Opens
<1> HIDE DEF none
<1>3. \A f : Awaits(items, f, none, sn, st) => f \in Settled(items, st)
  BY <1>1 DEF Awaits
<1>4. Serves(items, value, kinds, none, sn, st, err)
  BY DEF none
<1>5. QED
  BY <1>2, <1>3, <1>4 DEF Serves, Handed, AwaitsAll

(* What is marked stays marked.                                            *)
LEMMA HandedStays ==
  ASSUME NEW items, NEW value, NEW kinds, NEW st, NEW su, NEW err, NEW erf,
         st \subseteq su, err => erf, Handed(items, value, kinds, st, err)
  PROVE  Handed(items, value, kinds, su, erf)
<1>1. Settled(items, st) \subseteq Settled(items, su)
  BY MarkedStays
<1>2. QED
  BY <1>1 DEF Handed

(* The shape of the next call, and what collect may find in it.            *)
LEMMA TopShape ==
  ASSUME SearchInv, phase = "callbacks", work # << >>
  PROVE  /\ Top.shape.is = "alias" => Top.shape.name \in Names
         /\ Top.shape.is = "object" /\ Top.kinds.object => IsSeq(Top.shape.properties)
<1>1. Traced(body, RA3, Top)
  BY TopTraced
<1>2. PICK i \in 1..Len(body) : \E k : TracedTo(body, RA3, Top, i, k)
  BY <1>1 DEF Traced
<1>3. PICK k : TracedTo(body, RA3, Top, i, k)
  BY <1>2
<1>4. QED
  BY <1>3 DEF TracedTo, Fits, IsSeq

(* Collecting only adds to what is marked and refused.                     *)
LEMMA CollectGrows ==
  ASSUME CollectStep
  PROVE  sites \subseteq sites' /\ (error => error')
<1>1. CollectFunction => sites \subseteq sites' /\ error' = error
  BY DEF CollectFunction
<1>2. CollectObject => sites \subseteq sites' /\ (error => error')
  BY ObjectSteps
<1>3. CollectAlias => sites \subseteq sites' /\ error' = error
  BY AliasSteps
<1>4. QED
  BY <1>1, <1>2, <1>3 DEF CollectStep

(* No step of collect loses a function or the object that is opened.       *)
LEMMA CollectServes ==
  ASSUME SearchInv, KnownNow, CollectStep, NEW value, value # None, NEW kinds,
         Serves(body, value, kinds, work, seen, sites, error)
  PROVE  Serves(body, value, kinds, work', seen', sites', error')
<1>1. phase = "callbacks" /\ work # << >>
  BY DEF CollectStep, CollectFunction, CollectObject, CollectAlias, Collect
<1>2. /\ Top.shape.is = "alias" => Top.shape.name \in Names
      /\ Top.shape.is = "object" /\ Top.kinds.object => IsSeq(Top.shape.properties)
  BY <1>1, TopShape
<1>3. ASSUME NEW f, ForFunctions(work), Awaits(body, f, work, seen, sites)
      PROVE  ForFunctions(work') /\ Awaits(body, f, work', seen', sites')
  <2>1. CASE CollectFunction
    BY <1>3, <2>1, FunctionAwaits
  <2>2. CASE CollectObject
    <3>1. Top.shape.is = "object"
      BY <2>2 DEF CollectObject, Collect
    <3>2. QED
      BY <1>2, <1>3, <2>2, <3>1, ObjectAwaits
  <2>3. CASE CollectAlias
    <3>1. Top.shape.is = "alias"
      BY <2>3 DEF CollectAlias, Collect
    <3>2. QED
      BY <1>2, <1>3, <2>3, <3>1, AliasAwaits, AliasWork
  <2>4. QED
    BY <2>1, <2>2, <2>3 DEF CollectStep
<1>4. error => error'
  BY CollectGrows
<1>5. ASSUME AwaitsAll(body, value, work, seen, sites, error)
      PROVE  AwaitsAll(body, value, work', seen', sites', error')
  <2>1. ForFunctions(work)
    BY <1>5 DEF AwaitsAll
  <2>2. ForFunctions(work')
    <3>1. CASE CollectFunction
      <4>1. work # << >> /\ work' = Tail(work)
        BY <3>1 DEF CollectFunction, Collect
      <4>2. QED
        BY <2>1, <4>1, HasTail DEF ForFunctions
    <3>2. CASE CollectObject
      <4>1. Top.shape.is = "object"
        BY <3>2 DEF CollectObject, Collect
      <4>2. QED
        BY <1>2, <2>1, <3>2, <4>1, ObjectAwaits
    <3>3. CASE CollectAlias
      BY <2>1, <3>3, AliasWork
    <3>4. QED
      BY <3>1, <3>2, <3>3 DEF CollectStep
  <2>3. \A f \in value.functions : Awaits(body, f, work', seen', sites')
    BY <1>3, <1>5, <2>1 DEF AwaitsAll
  <2>4. QED
    BY <1>4, <1>5, <2>2, <2>3 DEF AwaitsAll
<1>6. ASSUME value.is = "object", Opens(body, value, work, seen)
      PROVE  Opens(body, value, work', seen') \/ AwaitsAll(body, value, work', seen', sites', error')
  <2>1. CASE CollectFunction
    <3>1. Top.shape.is = "function"
      BY <2>1 DEF CollectFunction, Collect
    <3>2. PICK c : /\ work = <<c>>
                   /\ IsFor(body, value, c.shape) \/ c.shape.is = "alias"
      BY <1>6 DEF Opens
    <3>3. Top = c
      BY <3>2, HasOne DEF Top
    <3>4. QED
      BY <1>6, <3>1, <3>2, <3>3 DEF IsFor, ShapeOf
  <2>2. CASE CollectObject
    BY <1>6, <2>2, ObjectOpens
  <2>3. CASE CollectAlias
    BY <1>6, <2>3, AliasOpens
  <2>4. QED
    BY <2>1, <2>2, <2>3 DEF CollectStep
<1>7. value.is = "function" /\ kinds.function =>
        ForFunctions(work') /\ Awaits(body, value.span, work', seen', sites')
  BY <1>3 DEF Serves
<1>8. value.is = "object" /\ kinds.object =>
        \/ Opens(body, value, work', seen')
        \/ AwaitsAll(body, value, work', seen', sites', error')
  BY <1>5, <1>6 DEF Serves
<1>9. QED
  BY <1>7, <1>8 DEF Serves

-----------------------------------------------------------------------------
(* What argument k of the i-th item is when the call is made, and whether  *)
(* it has to be a worklet then.                                            *)
Passed(items, i, k) == Evaluate(items[i].args[k], items[i].id, k, Environments(items)[i - 1])

(* It does if it is a value, unless withCallback only gets its name.       *)
Demanded(items, i, k) ==
  Passed(items, i, k) # None /\ (items[i].args[k].is = "name" => items[i].callee # "withCallback")

(* It is done when what was found has it marked or refused,                *)
Done(items, ra3, i, k, st, err) ==
  Demanded(items, i, k) => Handed(items, Passed(items, i, k), KindsOf(items[i], ra3), st, err)

(* and served when the calls still to be made see to that.                 *)
Served(items, ra3, i, k, calls, sn, st, err) ==
  Demanded(items, i, k) => Serves(items, Passed(items, i, k), KindsOf(items[i], ra3), calls, sn, st, err)

(* The call of collect that starts with the argument.                      *)
ArgumentAt(items, ra3, i, k) ==
  Call(Describe(items[i].args[k], items[i].id, k), KindsOf(items[i], ra3), items[i].callee # "withCallback")

(* An argument at a position of the table.                                 *)
LEMMA ArgumentValue ==
  ASSUME NEW items \in Seq(BodyItems), NEW ra3, NEW i \in 1..Len(items), items[i].is = "call",
         NEW k \in ToSet(Positions(items[i], ra3))
  PROVE  /\ k \in 1..Len(items[i].args) /\ items[i].args[k] \in Values
         /\ HasValue(items, i, k, items[i].args[k]) /\ items[i].id \in Nat
<1>1. items[i] \in BodyItems
  OBVIOUS
<1>2. /\ \A n \in 1..Len(Positions(items[i], ra3)) : Positions(items[i], ra3)[n] \in 1..Len(items[i].args)
      /\ items[i].args \in Seq(Values) /\ items[i].id \in Nat
  BY <1>1, PositionsIn, BodyFacts
<1>3. k \in 1..Len(items[i].args)
  BY <1>2 DEF ToSet
<1>4. QED
  BY <1>2, <1>3 DEF HasValue

(* An argument without a shape is nothing that has to be a worklet.        *)
LEMMA NoShape ==
  ASSUME NEW items \in Seq(BodyItems), NEW ra3, NEW i \in 1..Len(items), items[i].is = "call",
         NEW k \in ToSet(Positions(items[i], ra3)), Describe(items[i].args[k], items[i].id, k) = None
  PROVE  ~Demanded(items, i, k)
<1>1. k \in 1..Len(items[i].args) /\ items[i].args[k] \in Values /\ items[i].id \in Nat
  BY ArgumentValue
<1>2. items[i].args[k].is = "other"
  BY <1>1, ValueIsSome
<1> DEFINE v == items[i].args[k]
           id == items[i].id
           env == Environments(items)[i - 1]
<1>3. Passed(items, i, k) = Evaluate(v, id, k, env) /\ v \in Values /\ v.is = "other"
  BY <1>1, <1>2 DEF Passed
<1> HIDE DEF v, id, env
<1>4. Evaluate(v, id, k, env) = None
  BY <1>3, EvaluateCases
<1>5. QED
  BY <1>3, <1>4 DEF Demanded

(* The argument's call of collect sees to it.                              *)
LEMMA ArgumentServed ==
  ASSUME NEW items \in Seq(BodyItems), PlainProgram(items), NEW ra3, NEW i \in 1..Len(items),
         items[i].is = "call", NEW k \in ToSet(Positions(items[i], ra3)), NEW st, NEW err
  PROVE  Served(items, ra3, i, k, <<ArgumentAt(items, ra3, i, k)>>, {}, st, err)
<1> DEFINE v == items[i].args[k]
           value == Passed(items, i, k)
           shape == Describe(v, items[i].id, k)
           kinds == KindsOf(items[i], ra3)
           c == ArgumentAt(items, ra3, i, k)
<1> SUFFICES ASSUME Demanded(items, i, k) PROVE Serves(items, value, kinds, <<c>>, {}, st, err)
  BY DEF Served
<1>1. v \in Values /\ HasValue(items, i, k, v) /\ items[i].id \in Nat
  BY ArgumentValue
<1>2. value # None /\ (v.is = "name" => items[i].callee # "withCallback")
  BY DEF Demanded
<1>3. c.shape = shape /\ c.kinds = kinds /\ c.follow = (items[i].callee # "withCallback")
  BY DEF ArgumentAt, Call
<1>4. value = Evaluate(v, items[i].id, k, Environments(items)[i - 1])
  BY DEF Passed
<1> DEFINE id == items[i].id
           env == Environments(items)[i - 1]
<1>e. value = Evaluate(v, id, k, env)
  BY <1>4
<1> HIDE DEF value, c, kinds, id, env
<1>v. /\ v.is = "name" => value = env[v.name]
      /\ v.is = "other" => value = None
  <2> HIDE DEF v
  <2>1. QED
    BY <1>1, <1>e, EvaluateCases
<1>5. \/ IsFor(items, value, c.shape) /\ (value.is = "function" => LeadsTo(items, {}, value.span, c))
      \/ /\ c.shape.is = "alias" /\ c.follow /\ c.shape.name \in Names
         /\ ValueAt(items, c.shape.name) = value
  <2>1. CASE v.is = "name"
    <3>1. v.name \in Names /\ i \in Uses(items, v.name)
      BY <1>1, <2>1, ValueFacts, HasValueFacts DEF NamesIn
    <3>2. value = Environments(items)[i - 1][v.name]
      BY <1>v, <2>1 DEF env
    <3>3. Traceable(items, v.name)
      BY <3>1 DEF PlainProgram
    <3>4. value = ValueAt(items, v.name)
      BY <1>2, <3>1, <3>2, <3>3, UsedValue
    <3>5. shape = AnAlias(v.name)
      BY <2>1 DEF Describe
    <3>6. c.shape.is = "alias" /\ c.shape.name = v.name
      BY <1>3, <3>5 DEF AnAlias
    <3>7. QED
      BY <1>2, <1>3, <2>1, <3>1, <3>4, <3>6
  <2>2. CASE v.is = "other"
    BY <1>2, <1>v, <2>2
  <2>3. CASE v.is \notin {"name", "other"}
    <3>1. IsFor(items, value, shape)
      BY <1>1, <1>4, <2>3, OwnShape
    <3>2. QED
      BY <1>3, <3>1 DEF IsFor, LeadsTo
  <2>4. QED
    BY <2>1, <2>2, <2>3
<1>6. IsSeq(<<c>>) /\ \A d : Has(<<c>>, d) <=> d = c
  BY HasOne
<1>7. ASSUME value.is = "function", kinds.function
      PROVE  ForFunctions(<<c>>) /\ Awaits(items, value.span, <<c>>, {}, st)
  <2>1. LeadsTo(items, {}, value.span, c)
    BY <1>2, <1>5, <1>7 DEF LeadsTo, Means
  <2>2. QED
    BY <1>3, <1>6, <1>7, <2>1 DEF ForFunctions, Awaits
<1>8. ASSUME value.is = "object", kinds.object
      PROVE  Opens(items, value, <<c>>, {})
  BY <1>3, <1>5, <1>8 DEF Opens
<1>9. QED
  BY <1>7, <1>8 DEF Serves

(* Every argument with a shape is collected.                               *)
LEMMA ArgumentsHave ==
  ASSUME NEW items \in Seq(BodyItems), NEW ra3, NEW i \in 1..Len(items), items[i].is = "call",
         NEW k \in ToSet(Positions(items[i], ra3)), Describe(items[i].args[k], items[i].id, k) # None
  PROVE  Has(Arguments(items[i], ra3), ArgumentAt(items, ra3, i, k))
<1> DEFINE item == items[i]
           positions == Positions(item, ra3)
           CallAt(n) == Call(Describe(item.args[positions[n]], item.id, positions[n]),
                             KindsOf(item, ra3), item.callee # "withCallback")
           calls == [n \in 1..Len(positions) |-> CallAt(n)]
           places == {n \in 1..Len(calls) : calls[n].shape # None}
           r == Only(calls, places)
           S == {CallAt(n) : n \in 1..Len(positions)}
<1>1. Arguments(item, ra3) = r
  BY DEF Arguments
<1>2. item \in BodyItems
  OBVIOUS
<1>3. positions \in Seq(Nat)
  BY <1>2, PositionsIn
<1>4. calls \in Seq(S) /\ Len(calls) = Len(positions)
  <2>1. calls \in [1..Len(positions) -> S] /\ Len(positions) \in Nat
    BY <1>3
  <2> HIDE DEF calls, S, positions
  <2>2. QED
    BY <2>1
<1>5. PICK n \in 1..Len(positions) : positions[n] = k
  BY <1>3 DEF ToSet
<1>6. calls[n] = ArgumentAt(items, ra3, i, k)
  BY <1>5 DEF ArgumentAt
<1>7. calls[n].shape # None
  BY <1>6 DEF ArgumentAt, Call
<1>8. n \in places
  BY <1>4, <1>5, <1>7
<1> HIDE DEF calls, S
<1>9. r \in Seq(S) /\ \E g : Picks(r, calls, places \cap (1..Len(calls)), g)
  BY <1>4, OnlyPicks
<1>10. PICK g : Picks(r, calls, places \cap (1..Len(calls)), g)
  BY <1>9
<1>11. n \in places \cap (1..Len(calls))
  BY <1>8
<1> HIDE DEF places
<1>12. PICK l \in 1..Len(r) : g[l] = n /\ r[l] = calls[g[l]]
  BY <1>10, <1>11 DEF Picks
<1>13. QED
  BY <1>1, <1>6, <1>12 DEF Has

(* Nothing is left of an argument when no call is.                         *)
LEMMA ServedEnd ==
  ASSUME NEW items, NEW ra3, NEW i, NEW k, NEW sn, NEW st, NEW err,
         Served(items, ra3, i, k, << >>, sn, st, err)
  PROVE  Done(items, ra3, i, k, st, err)
<1> DEFINE none == << >>
<1>1. Served(items, ra3, i, k, none, sn, st, err)
  OBVIOUS
<1> HIDE DEF none
<1>2. Demanded(items, i, k) => Serves(items, Passed(items, i, k), KindsOf(items[i], ra3), none, sn, st, err)
  BY <1>1 DEF Served
<1>3. QED
  BY <1>2, ServesEnd DEF Done, none

(* An argument stays done.                                                 *)
LEMMA DoneStays ==
  ASSUME NEW items, NEW ra3, NEW i, NEW k, NEW st, NEW su, NEW err, NEW erf,
         st \subseteq su, err => erf, Done(items, ra3, i, k, st, err)
  PROVE  Done(items, ra3, i, k, su, erf)
BY HandedStays DEF Done

-----------------------------------------------------------------------------
(* What Definitions knows in each phase.                                   *)
KnowsAt(ph, items, pos, d) ==
  /\ ph = "definitions" => Knows(items, d, pos - 1)
  /\ ph \in Callbacking => Knows(items, d, Len(items))

(* Of the calls visited so far all callbacks are done, except that those   *)
(* of the last one may still have to be collected.                         *)
Reached(items, ra3, i, k, pos, as, w, sn, st, err) ==
  \/ Done(items, ra3, i, k, st, err)
  \/ i = pos - 1 /\ (Has(as, ArgumentAt(items, ra3, i, k)) \/ Served(items, ra3, i, k, w, sn, st, err))

(* All callbacks of the calls before pos are done or in work.              *)
AllReached(items, ra3, pos, as, w, sn, st, err) ==
  \A i \in 1..(pos - 1) : items[i].is = "call" =>
    \A k \in ToSet(Positions(items[i], ra3)) : Reached(items, ra3, i, k, pos, as, w, sn, st, err)

(* All callbacks of the first n items are done.                            *)
AllDone(items, ra3, n, st, err) ==
  \A i \in 1..n : items[i].is = "call" =>
    \A k \in ToSet(Positions(items[i], ra3)) : Done(items, ra3, i, k, st, err)

(* What holds of a plain program's callbacks in each phase.                *)
MarkAt(ph, items, ra3, pos, as, w, sn, st, err) ==
  /\ ph = "callbacks" => AllReached(items, ra3, pos, as, w, sn, st, err)
  /\ ph \in {"inject", "done"} => AllDone(items, ra3, Len(items), st, err)

(* The invariant: what Definitions knows, and that no callback is lost.    *)
MarkInv == /\ KnowsAt(phase, body, at, definitions)
           /\ PlainProgram(body) =>
                MarkAt(phase, body, R3(build), at, args, work, seen, sites, error)

(* With nothing left to collect, all callbacks are done.                   *)
LEMMA AllReachedDone ==
  ASSUME NEW items, NEW ra3, NEW pos, NEW sn, NEW st, NEW err,
         AllReached(items, ra3, pos, << >>, << >>, sn, st, err)
  PROVE  AllDone(items, ra3, pos - 1, st, err)
<1> DEFINE none == << >>
<1>1. AllReached(items, ra3, pos, none, none, sn, st, err)
  OBVIOUS
<1>2. \A c : ~Has(none, c)
  BY HasNone
<1>3. ASSUME NEW i, NEW k, Served(items, ra3, i, k, none, sn, st, err)
      PROVE  Done(items, ra3, i, k, st, err)
  BY <1>3, ServedEnd
<1> HIDE DEF none
<1>4. QED
  BY <1>1, <1>2, <1>3 DEF AllReached, AllDone, Reached

(* The next call is visited: its arguments are to be collected.            *)
LEMMA CallReached ==
  ASSUME NEW items \in Seq(BodyItems), NEW ra3, NEW pos \in 1..Len(items), NEW as, NEW sn, NEW st, NEW err,
         items[pos].is = "call" => as = Arguments(items[pos], ra3),
         AllReached(items, ra3, pos, << >>, << >>, sn, st, err)
  PROVE  AllReached(items, ra3, pos + 1, as, << >>, sn, st, err)
<1> DEFINE none == << >>
           next == pos + 1
<1>1. AllDone(items, ra3, pos - 1, st, err)
  BY AllReachedDone
<1>2. next - 1 = pos /\ pos \in 1..Len(items) /\ \A i \in 1..pos : i \in 1..(pos - 1) \/ i = pos
  OBVIOUS
<1> HIDE DEF none, next
<1>3. ASSUME NEW i \in 1..pos, items[i].is = "call", NEW k \in ToSet(Positions(items[i], ra3))
      PROVE  Reached(items, ra3, i, k, next, as, none, sn, st, err)
  <2>1. CASE i \in 1..(pos - 1)
    BY <1>1, <1>3, <2>1 DEF AllDone, Reached
  <2>2. CASE i = pos
    <3>1. i \in 1..Len(items)
      BY <1>2, <2>2
    <3>2. Describe(items[i].args[k], items[i].id, k) = None => Done(items, ra3, i, k, st, err)
      BY <1>3, <3>1, NoShape DEF Done
    <3>3. ASSUME Describe(items[i].args[k], items[i].id, k) # None
          PROVE  Has(as, ArgumentAt(items, ra3, i, k))
      <4>1. Has(Arguments(items[i], ra3), ArgumentAt(items, ra3, i, k))
        BY <1>3, <3>1, <3>3, ArgumentsHave
      <4>2. QED
        BY <1>3, <2>2, <4>1
    <3>4. QED
      BY <1>2, <2>2, <3>2, <3>3 DEF Reached
  <2>3. QED
    BY <1>2, <2>1, <2>2
<1>4. AllReached(items, ra3, next, as, none, sn, st, err)
  BY <1>2, <1>3 DEF AllReached
<1>5. QED
  BY <1>4 DEF none, next

(* The next argument is collected.                                         *)
LEMMA ArgumentReached ==
  ASSUME NEW items \in Seq(BodyItems), PlainProgram(items), NEW ra3, NEW pos \in 1..(Len(items) + 1),
         NEW as, IsSeq(as), as # << >>, NEW sn, NEW st, NEW err,
         AllReached(items, ra3, pos, as, << >>, sn, st, err)
  PROVE  AllReached(items, ra3, pos, Tail(as), <<Head(as)>>, {}, st, err)
<1> DEFINE none == << >>
           first == <<Head(as)>>
           rest == Tail(as)
<1>1. AllReached(items, ra3, pos, as, none, sn, st, err)
  OBVIOUS
<1>2. ASSUME NEW i, NEW k, Served(items, ra3, i, k, none, sn, st, err)
      PROVE  Done(items, ra3, i, k, st, err)
  BY <1>2, ServedEnd
<1>3. \A c : Has(as, c) <=> c = Head(as) \/ Has(rest, c)
  BY HasTail
<1>4. ASSUME NEW i \in 1..Len(items), items[i].is = "call", NEW k \in ToSet(Positions(items[i], ra3)),
             ArgumentAt(items, ra3, i, k) = Head(as)
      PROVE  Served(items, ra3, i, k, first, {}, st, err)
  <2>1. Served(items, ra3, i, k, <<ArgumentAt(items, ra3, i, k)>>, {}, st, err)
    BY <1>4, ArgumentServed
  <2>2. QED
    BY <1>4, <2>1
<1> HIDE DEF none, first, rest
<1>5. SUFFICES ASSUME NEW i \in 1..(pos - 1), items[i].is = "call",
                      NEW k \in ToSet(Positions(items[i], ra3))
               PROVE  Reached(items, ra3, i, k, pos, rest, first, {}, st, err)
  BY DEF AllReached, first, rest
<1>6. i \in 1..Len(items)
  OBVIOUS
<1>7. Reached(items, ra3, i, k, pos, as, none, sn, st, err)
  BY <1>1, <1>5 DEF AllReached
<1>8. QED
  BY <1>2, <1>3, <1>4, <1>5, <1>6, <1>7 DEF Reached

(* A step of collect keeps what is done and what is seen to.               *)
LEMMA CollectReached ==
  ASSUME SearchInv, KnownNow, CollectStep,
         AllReached(body, RA3, at, args, work, seen, sites, error)
  PROVE  AllReached(body, RA3, at, args, work', seen', sites', error')
<1>1. sites \subseteq sites' /\ (error => error')
  BY CollectGrows
<1>2. ASSUME NEW i, NEW k, Done(body, RA3, i, k, sites, error)
      PROVE  Done(body, RA3, i, k, sites', error')
  BY <1>1, <1>2, DoneStays
<1>3. ASSUME NEW i, NEW k, Served(body, RA3, i, k, work, seen, sites, error)
      PROVE  Served(body, RA3, i, k, work', seen', sites', error')
  <2> SUFFICES ASSUME Demanded(body, i, k)
               PROVE  Serves(body, Passed(body, i, k), KindsOf(body[i], RA3), work', seen', sites', error')
    BY DEF Served
  <2> DEFINE value == Passed(body, i, k)
             kinds == KindsOf(body[i], RA3)
  <2>1. value # None /\ Serves(body, value, kinds, work, seen, sites, error)
    BY <1>3 DEF Served, Demanded
  <2> HIDE DEF value, kinds
  <2>2. Serves(body, value, kinds, work', seen', sites', error')
    BY <2>1, CollectServes
  <2>3. QED
    BY <2>2 DEF value, kinds
<1>4. QED
  BY <1>2, <1>3 DEF AllReached, Reached

(* At first nothing is known and nothing has to be.                        *)
LEMMA InitMark == ASSUME Init PROVE MarkInv
<1>1. phase = "file"
  BY DEF Init
<1>2. QED
  BY <1>1 DEF MarkInv, KnowsAt, MarkAt, Callbacking

(* Every step of the search for callbacks keeps those of the calls that it *)
(* has been through done, or sees to them.                                 *)
LEMMA NextMark == ASSUME BodyInv, SearchInv, MarkInv, [Next]_vars PROVE MarkInv'
<1>1. body \in Seq(BodyItems) /\ Len(body) \in Nat
  BY BodyType
<1>2. phase \in Early \cup Late /\ at \in 1..(Len(body) + 1) /\ RA3 = R3(build)
  BY OptionsOf DEF SearchInv, SearchAt
<1>3. CASE ProcessFile
  <2>1. phase' = "classes"
    BY <1>3 DEF ProcessFile
  <2>2. QED
    BY <2>1 DEF MarkInv, KnowsAt, MarkAt, Callbacking
<1>4. CASE ProcessClasses
  <2>1. phase = "classes" /\ phase' = "definitions" /\ UNCHANGED <<at, definitions>>
    BY <1>4 DEF ProcessClasses
  <2>2. at = 1 /\ definitions = NoDefinitions
    BY <2>1 DEF SearchInv, SearchAt, Early
  <2>3. Knows(body', definitions', at' - 1)
    BY <2>1, <2>2, NothingKnown
  <2>4. QED
    BY <2>1, <2>3 DEF MarkInv, KnowsAt, MarkAt, Callbacking
<1>5. CASE VisitFnDecl \/ VisitVarDeclarator \/ VisitAssignExpr \/ VisitUpdateExpr \/ VisitMemberExpr \/ VisitOther
  <2>1. phase = "definitions"
    BY <1>5 DEF VisitFnDecl, VisitVarDeclarator, VisitAssignExpr, VisitUpdateExpr, VisitMemberExpr, VisitOther, Visit
  <2>2. DefinitionsNow(at - 1)
    BY <2>1 DEF SearchInv, SearchAt, DefinitionsNow, Late
  <2>3. /\ at \in 1..Len(body) /\ at' = at + 1 /\ phase' = phase /\ body' = body
    BY <1>1, <1>2, <1>5, <2>1, <2>2, NextDefinitions
  <2>4. Defines(body, definitions) /\ Knows(body, definitions, at - 1)
    BY <2>1, <2>2 DEF DefinitionsNow, MarkInv, KnowsAt
  <2>5. Visited(definitions', definitions, body[at])
    BY <1>5, <2>4, VisitFields DEF Defines
  <2>6. Knows(body, definitions', at)
    BY <1>1, <2>3, <2>4, <2>5, OneMoreKnown
  <2>7. Knows(body', definitions', at' - 1)
    BY <2>3, <2>6
  <2>8. QED
    BY <2>1, <2>3, <2>7 DEF MarkInv, KnowsAt, MarkAt, Callbacking
<1>6. CASE EndDefinitions
  <2>1. /\ phase = "definitions" /\ at > Len(body) /\ phase' = "callbacks" /\ at' = 1
        /\ UNCHANGED <<build, body, definitions, callbacks>>
    BY <1>6 DEF EndDefinitions
  <2>2. at - 1 = Len(body)
    BY <1>1, <1>2, <2>1
  <2>3. Knows(body', definitions', Len(body'))
    BY <2>1, <2>2 DEF MarkInv, KnowsAt
  <2>4. 1..(at' - 1) = {}
    BY <2>1
  <2>5. AllReached(body', R3(build'), at', args', work', seen', sites', error')
    BY <2>4 DEF AllReached
  <2>6. QED
    BY <2>1, <2>3, <2>5 DEF MarkInv, KnowsAt, MarkAt, Callbacking
<1>7. CASE phase = "callbacks" /\ (VisitCall \/ CollectArgument \/ CollectStep)
  <2>1. phase' = phase /\ UNCHANGED <<build, body, definitions>>
    BY <1>7 DEF VisitCall, CollectArgument, CollectStep, CollectFunction, CollectObject, CollectAlias, Collect
  <2>2. Knows(body, definitions, Len(body)) /\ Defines(body, definitions)
    BY <1>7 DEF MarkInv, KnowsAt, Callbacking, SearchInv, SearchAt, Late
  <2>3. ASSUME PlainProgram(body)
        PROVE  AllReached(body, RA3, at', args', work', seen', sites', error')
    <3>1. AllReached(body, RA3, at, args, work, seen, sites, error)
      BY <1>2, <1>7, <2>3 DEF MarkInv, MarkAt
    <3>2. KnownNow
      BY <1>1, <2>2, <2>3 DEF KnownNow
    <3>3. CASE VisitCall
      <4>1. /\ args = << >> /\ work = << >> /\ at <= Len(body) /\ at' = at + 1
            /\ body[at].is = "call" => args' = Arguments(body[at], RA3)
            /\ UNCHANGED <<work, seen, sites, error>>
        BY <3>3 DEF VisitCall
      <4>2. at \in 1..Len(body)
        BY <1>1, <1>2, <4>1
      <4>3. AllReached(body, RA3, at, << >>, << >>, seen, sites, error)
        BY <3>1, <4>1
      <4>4. AllReached(body, RA3, at + 1, args', << >>, seen, sites, error)
        BY <1>1, <4>1, <4>2, <4>3, CallReached
      <4>5. QED
        BY <4>1, <4>4
    <3>4. CASE CollectArgument
      <4>1. /\ work = << >> /\ args # << >> /\ work' = <<Head(args)>> /\ args' = Tail(args) /\ seen' = {}
            /\ UNCHANGED <<at, sites, error>>
        BY <3>4 DEF CollectArgument
      <4>2. IsSeq(args)
        BY <1>7 DEF SearchInv, SearchAt, AllTraced
      <4>3. AllReached(body, RA3, at, args, << >>, seen, sites, error)
        BY <3>1, <4>1
      <4>4. AllReached(body, RA3, at, Tail(args), <<Head(args)>>, {}, sites, error)
        BY <1>1, <1>2, <2>3, <4>1, <4>2, <4>3, ArgumentReached
      <4>5. QED
        BY <4>1, <4>4
    <3>5. CASE CollectStep
      <4>1. UNCHANGED <<at, args>>
        BY <3>5 DEF CollectStep, CollectFunction, CollectObject, CollectAlias, Collect
      <4>2. AllReached(body, RA3, at, args, work', seen', sites', error')
        BY <3>1, <3>2, <3>5, CollectReached
      <4>3. QED
        BY <4>1, <4>2
    <3>6. QED
      BY <1>7, <3>3, <3>4, <3>5
  <2>4. RA3 = R3(build')
    BY <1>2, <2>1
  <2>5. PlainProgram(body') => AllReached(body', R3(build'), at', args', work', seen', sites', error')
    BY <2>1, <2>3, <2>4
  <2>6. QED
    BY <1>7, <2>1, <2>2, <2>5 DEF MarkInv, KnowsAt, MarkAt, Callbacking
<1>8. CASE EndCallbacks
  <2>1. /\ phase = "callbacks" /\ at > Len(body) /\ args = << >> /\ work = << >> /\ phase' = "inject"
        /\ UNCHANGED <<build, body, definitions, sites, error>>
    BY <1>8 DEF EndCallbacks, callbacks
  <2>2. Knows(body, definitions, Len(body))
    BY <2>1 DEF MarkInv, KnowsAt, Callbacking
  <2>3. at - 1 = Len(body)
    BY <1>1, <1>2, <2>1
  <2>4. ASSUME PlainProgram(body) PROVE AllDone(body, R3(build), Len(body), sites, error)
    <3>1. AllReached(body, R3(build), at, << >>, << >>, seen, sites, error)
      BY <2>1, <2>4 DEF MarkInv, MarkAt
    <3>2. AllDone(body, R3(build), at - 1, sites, error)
      BY <3>1, AllReachedDone
    <3>3. QED
      BY <2>3, <3>2
  <2>5. QED
    BY <2>1, <2>2, <2>4 DEF MarkInv, KnowsAt, MarkAt, Callbacking
<1>9. CASE Inject
  <2>1. /\ phase = "inject" /\ phase' = "done" /\ UNCHANGED <<build, body, definitions, sites, error>>
    BY <1>9 DEF Inject, callbacks
  <2>2. QED
    BY <2>1 DEF MarkInv, KnowsAt, MarkAt, Callbacking
<1>10. CASE UNCHANGED vars
  BY <1>10 DEF vars, callbacks, MarkInv
<1>11. VisitCall \/ CollectArgument \/ CollectStep => phase = "callbacks"
  BY DEF VisitCall, CollectArgument, CollectStep, CollectFunction, CollectObject, CollectAlias, Collect
<1>12. QED
  BY <1>3, <1>4, <1>5, <1>6, <1>7, <1>8, <1>9, <1>10, <1>11 DEF Next, CollectStep, Terminated

(* All three invariants hold in every state.                               *)
LEMMA AlwaysMark == Spec => [](BodyInv /\ SearchInv /\ MarkInv)
<1>1. Init => BodyInv /\ SearchInv /\ MarkInv
  BY InitBody, InitSearch, InitMark
<1>2. BodyInv /\ SearchInv /\ MarkInv /\ [Next]_vars => (BodyInv /\ SearchInv /\ MarkInv)'
  BY NextBody, NextSearch, NextMark
<1>3. QED
  BY <1>1, <1>2, PTL DEF Spec

(* CallbacksMarked follows from them: what was found is marked at the end. *)
LEMMA MarkCallbacks == ASSUME BodyInv, MarkInv PROVE CallbacksMarked
<1> SUFFICES ASSUME phase = "done", PlainProgram(body), NEW i \in CallIndices, NEW c \in Callbacks(i),
                    c.value # None, c.named => body[i].callee # "withCallback"
             PROVE  /\ c.value.is = "function" /\ c.kinds.function =>
                         c.value.span \in directives \cup DefaultFunctions(body)
                    /\ c.value.is = "object" /\ c.kinds.object =>
                         c.value.functions \subseteq directives \cup DefaultFunctions(body)
                    /\ c.value.is = "object" /\ c.kinds.object /\ c.value.spread => error
  BY DEF CallbacksMarked
<1>1. i \in 1..Len(body) /\ body[i].is = "call"
  BY DEF CallIndices
<1>2. PICK k \in ToSet(Positions(body[i], RA3)) :
        c = [value |-> Passed(body, i, k), kinds |-> KindsOf(body[i], RA3), named |-> body[i].args[k].is = "name"]
  BY DEF Callbacks, Passed
<1>3. /\ c.value = Passed(body, i, k) /\ c.kinds = KindsOf(body[i], RA3)
      /\ body[i].args[k].is = "name" => c.named
  BY <1>2
<1>4. Demanded(body, i, k)
  BY <1>3 DEF Demanded
<1>5. AllDone(body, RA3, Len(body), sites, error)
  BY OptionsOf DEF MarkInv, MarkAt
<1>6. Handed(body, c.value, c.kinds, sites, error)
  BY <1>1, <1>3, <1>4, <1>5 DEF AllDone, Done
<1>7. Settled(body, sites) \subseteq directives \cup DefaultFunctions(body)
  BY DEF BodyInv, BodyAt, Settled
<1>8. QED
  BY <1>6, <1>7 DEF Handed

(* Whatever function a hook gets as a callback - itself, through names, or *)
(* as a property of the object that the hook takes - is a worklet, and an  *)
(* object with a spread is refused: for all programs whose names can be    *)
(* told (PlainProgram), however many items, names and links they have.     *)
(* The exception is the module's own "export default function", which is   *)
(* not known by its name.                                                  *)
THEOREM CallbacksAlwaysMarked == Spec => []CallbacksMarked
BY AlwaysMark, MarkCallbacks, PTL
===============================================================================
