-------------------------- MODULE Processors_proofs --------------------------
(***************************************************************************)
(* What the processors of the tunnel do to a stream of bytes, for every    *)
(* size of bytes, IVs, tags, nonces and lengths.                           *)
(***************************************************************************)
EXTENDS Processors, WellFoundedInduction, TLAPS

-----------------------------------------------------------------------------
(* Induction.  The library's induction theorems have an operator as a      *)
(* parameter; here it is a set, which the provers can instantiate.         *)

LEMMA Smallest ==
    ASSUME NEW T \in SUBSET Nat, T # {}
    PROVE  \E m \in T : \A k \in T : m <= k
<1> DEFINE R == OpToRel(<, Nat)
<1>1. IsWellFoundedOn(R, Nat)
  BY NatLessThanWellFounded
<1>2. \A i, j \in Nat : i < j => <<i, j>> \in R
  BY DEF OpToRel
<1> HIDE DEF R
<1>3. PICK m \in T : \A k \in T : ~(<<k, m>> \in R)
  BY <1>1, WFMin
<1>4. \A k \in T : ~(k < m)
  BY <1>2, <1>3
<1>5. \A k \in T : m <= k
  BY <1>4
<1> QED
  BY <1>5

\* Induction up to n.
LEMMA UpTo ==
    ASSUME NEW n \in Nat, NEW T,
           0 \in T, \A i \in 0..(n - 1) : i \in T => i + 1 \in T
    PROVE  0..n \subseteq T
<1> DEFINE U == (0..n) \ T
<1> SUFFICES ASSUME U # {} PROVE FALSE
  OBVIOUS
<1>1. U \in SUBSET Nat
  OBVIOUS
<1>2. PICK m \in U : \A k \in U : m <= k
  <2> HIDE DEF U
  <2> QED
    BY <1>1, Smallest
<1>3. m # 0 /\ m - 1 \in 0..(n - 1)
  BY <1>2
<1>4. m - 1 \in T
  BY <1>2, <1>3
<1> QED
  BY <1>2, <1>3, <1>4

\* f is the run of step from base over the inputs 1..m: what a loop computes.
IsRun(f, S, base, step, m) ==
    /\ f \in [0..m -> S]
    /\ f[0] = base
    /\ \A i \in 1..m : f[i] = step[<<f[i - 1], i>>]

LEMMA RunExtends ==
    ASSUME NEW S, NEW n \in Nat, NEW base \in S, NEW step \in [S \X (1..n) -> S],
           NEW m \in 0..(n - 1), NEW f, IsRun(f, S, base, step, m)
    PROVE  \E g : IsRun(g, S, base, step, m + 1)
<1> DEFINE x == step[<<f[m], m + 1>>]
           g == [i \in 0..(m + 1) |-> IF i = m + 1 THEN x ELSE f[i]]
<1>1. m \in 0..m /\ m + 1 \in 1..n
  OBVIOUS
<1>2. f \in [0..m -> S] /\ f[0] = base
  BY DEF IsRun
<1>3. x \in S
  BY <1>1, <1>2
<1>4. \A i \in 1..m : f[i] = step[<<f[i - 1], i>>]
  BY DEF IsRun
<1>5. x = step[<<f[m], m + 1>>]
  OBVIOUS
<1> HIDE DEF x
<1>6. g \in [0..(m + 1) -> S] /\ g[0] = base /\ g[m + 1] = x
  BY <1>1, <1>2, <1>3
<1>7. \A i \in 0..m : g[i] = f[i]
  OBVIOUS
<1> HIDE DEF g
<1>8. ASSUME NEW i \in 1..(m + 1) PROVE g[i] = step[<<g[i - 1], i>>]
  <2>1. CASE i = m + 1
    <3>1. i - 1 = m /\ g[m] = f[m]
      BY <1>7, <2>1
    <3> QED
      BY <1>5, <1>6, <2>1, <3>1
  <2>2. CASE i \in 1..m
    <3>1. i \in 0..m /\ i - 1 \in 0..m
      BY <2>2
    <3> QED
      BY <1>4, <1>7, <2>2, <3>1
  <2> QED
    BY <2>1, <2>2
<1> QED
  BY <1>6, <1>8 DEF IsRun

LEMMA RunExists ==
    ASSUME NEW S, NEW n \in Nat, NEW base \in S, NEW step \in [S \X (1..n) -> S]
    PROVE  \E f : IsRun(f, S, base, step, n)
<1> DEFINE T == {m \in 0..n : \E f : IsRun(f, S, base, step, m)}
<1>1. 0 \in T
  <2>1. IsRun([i \in 0..0 |-> base], S, base, step, 0)
    BY DEF IsRun
  <2> QED
    BY <2>1
<1>2. ASSUME NEW m \in 0..(n - 1), m \in T
      PROVE  m + 1 \in T
  <2>1. PICK f : IsRun(f, S, base, step, m)
    BY <1>2
  <2>2. m + 1 \in 0..n
    OBVIOUS
  <2> QED
    BY <2>1, <2>2, RunExtends
<1>3. n \in T
  <2> HIDE DEF T
  <2>1. 0..n \subseteq T
    BY <1>1, <1>2, UpTo
  <2> QED
    BY <2>1
<1> QED
  BY <1>3

\* What makes one step from each value of a run is the run itself.
LEMMA RunFixed ==
    ASSUME NEW S, NEW n \in Nat, NEW base, NEW step, NEW f, IsRun(f, S, base, step, n),
           NEW g, g = [i \in 0..n |-> g[i]], g[0] = base,
           \A i \in 1..n : f[i - 1] \in S => g[i] = step[<<f[i - 1], i>>]
    PROVE  f = g
<1>1. f \in [0..n -> S] /\ f[0] = base
  BY DEF IsRun
<1>2. ASSUME NEW i \in 0..n PROVE f[i] = g[i]
  <2>1. CASE i = 0
    BY <1>1, <2>1
  <2>2. CASE i \in 1..n
    <3>1. f[i - 1] \in S
      BY <1>1, <2>2
    <3> QED
      BY <2>2, <3>1 DEF IsRun
  <2>3. i = 0 \/ i \in 1..n
    OBVIOUS
  <2> QED
    BY <2>1, <2>2, <2>3
<1> QED
  BY <1>1, <1>2

\* A function that makes the steps is the run.
LEMMA RunTyped ==
    ASSUME NEW S, NEW n \in Nat, NEW base \in S, NEW step \in [S \X (1..n) -> S],
           NEW f, f = [i \in 0..n |-> f[i]], f[0] = base,
           \A i \in 1..n : f[i - 1] \in S => f[i] = step[<<f[i - 1], i>>]
    PROVE  IsRun(f, S, base, step, n)
<1> DEFINE T == {m \in 0..n : f[m] \in S}
<1>1. 0 \in T
  OBVIOUS
<1>2. ASSUME NEW m \in 0..(n - 1), m \in T
      PROVE  m + 1 \in T
  <2>1. m + 1 \in 1..n /\ m + 1 \in 0..n /\ (m + 1) - 1 = m
    OBVIOUS
  <2>2. f[m + 1] = step[<<f[m], m + 1>>]
    BY <1>2, <2>1
  <2> QED
    BY <1>2, <2>1, <2>2
<1>3. 0..n \subseteq T
  <2> HIDE DEF T
  <2> QED
    BY <1>1, <1>2, UpTo
<1>4. \A i \in 0..n : f[i] \in S
  BY <1>3
<1>5. \A i \in 1..n : i - 1 \in 0..n
  OBVIOUS
<1>6. f \in [0..n -> S]
  BY <1>4
<1> QED
  BY <1>4, <1>5, <1>6 DEF IsRun

\* g makes the steps from the values of f.
Follows(g, f, S, base, step, n) ==
    /\ g = [i \in 0..n |-> g[i]] /\ g[0] = base
    /\ \A i \in 1..n : f[i - 1] \in S => g[i] = step[<<f[i - 1], i>>]

LEMMA FollowsFixed ==
    ASSUME NEW S, NEW n \in Nat, NEW base, NEW step, NEW f, IsRun(f, S, base, step, n),
           NEW g, Follows(g, f, S, base, step, n)
    PROVE  f = g
<1>1. f \in [0..n -> S] /\ f[0] = base
  BY DEF IsRun
<1>2. g = [i \in 0..n |-> g[i]] /\ g[0] = base
  BY DEF Follows
<1>3. ASSUME NEW i \in 0..n PROVE f[i] = g[i]
  <2>1. CASE i = 0
    BY <1>1, <1>2, <2>1
  <2>2. CASE i \in 1..n
    <3>1. f[i - 1] \in S
      BY <1>1, <2>2
    <3>2. f[i] = step[<<f[i - 1], i>>]
      BY <2>2 DEF IsRun
    <3>3. g[i] = step[<<f[i - 1], i>>]
      BY <2>2, <3>1 DEF Follows
    <3> QED
      BY <3>2, <3>3
  <2>3. i = 0 \/ i \in 1..n
    OBVIOUS
  <2> QED
    BY <2>1, <2>2, <2>3
<1> QED
  BY <1>1, <1>2, <1>3

LEMMA FollowsTyped ==
    ASSUME NEW S, NEW n \in Nat, NEW base \in S, NEW step \in [S \X (1..n) -> S],
           NEW f, Follows(f, f, S, base, step, n)
    PROVE  IsRun(f, S, base, step, n)
<1>1. f = [i \in 0..n |-> f[i]] /\ f[0] = base
  BY DEF Follows
<1>2. \A i \in 1..n : f[i - 1] \in S => f[i] = step[<<f[i - 1], i>>]
  BY DEF Follows
<1> QED
  BY <1>1, <1>2, RunTyped

\* There is only one run.
LEMMA RunUnique ==
    ASSUME NEW n \in Nat, NEW f, NEW g, NEW S, NEW base, NEW step,
           IsRun(f, S, base, step, n), IsRun(g, S, base, step, n)
    PROVE  f = g
<1> DEFINE T == {m \in 0..n : f[m] = g[m]}
<1>1. 0 \in T
  BY DEF IsRun
<1>2. ASSUME NEW m \in 0..(n - 1), m \in T
      PROVE  m + 1 \in T
  <2>1. m + 1 \in 1..n /\ m + 1 \in 0..n /\ (m + 1) - 1 = m
    OBVIOUS
  <2>2. f[m + 1] = step[<<f[m], m + 1>>]
    BY <2>1 DEF IsRun
  <2>3. g[m + 1] = step[<<g[m], m + 1>>]
    BY <2>1 DEF IsRun
  <2>4. f[m + 1] = g[m + 1]
    BY <1>2, <2>2, <2>3
  <2> QED
    BY <2>1, <2>4
<1>3. 0..n \subseteq T
  <2> HIDE DEF T
  <2> QED
    BY <1>1, <1>2, UpTo
<1> QED
  BY <1>3 DEF IsRun

-----------------------------------------------------------------------------
(* Sequences. *)

\* t is s and possibly more.
Begins(t, s) == Len(s) <= Len(t) /\ \A i \in 1..Len(s) : t[i] = s[i]

SameLen(s, t) == Len(s) = Len(t)

\* What is left of t behind its first k elements.
After(t, k) == SubSeq(t, k + 1, Len(t))

LEMMA ConcatTyped ==
    ASSUME NEW S, NEW a \in Seq(S), NEW b \in Seq(S)
    PROVE  /\ a \o b \in Seq(S)
           /\ Len(a \o b) = Len(a) + Len(b)
           /\ Len(a) \in Nat /\ Len(b) \in Nat
           /\ \A i \in 1..Len(a) : (a \o b)[i] = a[i]
           /\ \A i \in 1..Len(b) : (a \o b)[Len(a) + i] = b[i]
OBVIOUS

LEMMA SeqEqual ==
    ASSUME NEW S, NEW a \in Seq(S), NEW b \in Seq(S), Len(a) = Len(b),
           \A i \in 1..Len(a) : a[i] = b[i]
    PROVE  a = b
OBVIOUS

LEMMA ConcatAssoc ==
    ASSUME NEW S, NEW a \in Seq(S), NEW b \in Seq(S), NEW c \in Seq(S)
    PROVE  (a \o b) \o c = a \o (b \o c)
<1> DEFINE ab == a \o b
           bc == b \o c
           l == ab \o c
           r == a \o bc
<1>1. /\ Len(a) \in Nat /\ Len(b) \in Nat /\ Len(c) \in Nat
      /\ ab \in Seq(S) /\ Len(ab) = Len(a) + Len(b)
      /\ bc \in Seq(S) /\ Len(bc) = Len(b) + Len(c)
  OBVIOUS
<1>2. /\ \A i \in 1..Len(a) : ab[i] = a[i]
      /\ \A i \in 1..Len(b) : ab[Len(a) + i] = b[i]
      /\ \A i \in 1..Len(b) : bc[i] = b[i]
      /\ \A i \in 1..Len(c) : bc[Len(b) + i] = c[i]
  BY ConcatTyped
<1> HIDE DEF ab, bc
<1>3. /\ l \in Seq(S) /\ Len(l) = Len(ab) + Len(c)
      /\ r \in Seq(S) /\ Len(r) = Len(a) + Len(bc)
  BY <1>1, ConcatTyped
<1>4. /\ \A i \in 1..Len(ab) : l[i] = ab[i]
      /\ \A i \in 1..Len(c) : l[Len(ab) + i] = c[i]
      /\ \A i \in 1..Len(a) : r[i] = a[i]
      /\ \A i \in 1..Len(bc) : r[Len(a) + i] = bc[i]
  <2>1. ab \in Seq(S) /\ bc \in Seq(S)
    BY <1>1
  <2>2. /\ \A i \in 1..Len(ab) : l[i] = ab[i]
        /\ \A i \in 1..Len(c) : l[Len(ab) + i] = c[i]
    BY ONLY <2>1, c \in Seq(S), ConcatTyped
  <2>3. /\ \A i \in 1..Len(a) : r[i] = a[i]
        /\ \A i \in 1..Len(bc) : r[Len(a) + i] = bc[i]
    BY ONLY <2>1, a \in Seq(S), ConcatTyped
  <2> QED
    BY <2>2, <2>3
<1> HIDE DEF l, r
<1>5. ASSUME NEW i \in 1..Len(l) PROVE l[i] = r[i]
  <2>1. CASE i \in 1..Len(a)
    BY <1>1, <1>2, <1>4, <2>1
  <2>2. CASE i - Len(a) \in 1..Len(b)
    <3> DEFINE j == i - Len(a)
    <3>1. i = Len(a) + j /\ i \in 1..Len(ab) /\ j \in 1..Len(bc)
      BY <1>1, <2>2
    <3> HIDE DEF j
    <3>2. j \in 1..Len(b)
      BY <2>2 DEF j
    <3> QED
      BY <1>2, <1>4, <3>1, <3>2
  <2>3. CASE i - Len(a) - Len(b) \in 1..Len(c)
    <3> DEFINE j == i - Len(a) - Len(b)
               k == Len(b) + j
    <3>1. i = Len(ab) + j /\ i = Len(a) + k /\ k \in 1..Len(bc)
      BY <1>1, <2>3
    <3>2. j \in 1..Len(c) /\ k = Len(b) + j
      BY <2>3
    <3> HIDE DEF j, k
    <3> QED
      BY <1>2, <1>4, <3>1, <3>2
  <2>4. \/ i \in 1..Len(a)
        \/ i - Len(a) \in 1..Len(b)
        \/ i - Len(a) - Len(b) \in 1..Len(c)
    <3>1. \A x, y, z \in Nat : \A n \in 1..((x + y) + z) :
            n \in 1..x \/ n - x \in 1..y \/ n - x - y \in 1..z
      OBVIOUS
    <3>2. i \in 1..((Len(a) + Len(b)) + Len(c))
      BY <1>1, <1>3
    <3> QED
      BY ONLY <1>1, <3>1, <3>2
  <2> QED
    BY <2>1, <2>2, <2>3, <2>4
<1>6. l = r
  <2>1. Len(l) = Len(r)
    BY <1>1, <1>3
  <2> QED
    BY <1>3, <1>5, <2>1, SeqEqual
<1> QED
  BY <1>6 DEF l, r, ab, bc

Associates(a, b, c) == (a \o b) \o c = a \o (b \o c)

LEMMA ConcatAssociates ==
    ASSUME NEW S, NEW a \in Seq(S), NEW b \in Seq(S), NEW c \in Seq(S)
    PROVE  Associates(a, b, c)
BY ConcatAssoc DEF Associates

LEMMA ConcatEmpty ==
    ASSUME NEW S, NEW a \in Seq(S)
    PROVE  <<>> \o a = a /\ a \o <<>> = a
OBVIOUS

LEMMA AppendConcat ==
    ASSUME NEW S, NEW a \in Seq(S), NEW x \in S
    PROVE  Append(a, x) = a \o <<x>> /\ <<x>> \in Seq(S)
OBVIOUS

LEMMA AfterTyped ==
    ASSUME NEW S, NEW t \in Seq(S), NEW k \in 0..Len(t)
    PROVE  /\ After(t, k) \in Seq(S)
           /\ Len(After(t, k)) = Len(t) - k
           /\ \A i \in 1..(Len(t) - k) : After(t, k)[i] = t[k + i]
BY DEF After

LEMMA SplitAt ==
    ASSUME NEW S, NEW t \in Seq(S), NEW k \in 0..Len(t)
    PROVE  /\ SubSeq(t, 1, k) \in Seq(S) /\ Len(SubSeq(t, 1, k)) = k
           /\ SubSeq(t, 1, k) \o After(t, k) = t
<1> DEFINE a == SubSeq(t, 1, k)
           b == After(t, k)
<1>1. a \in Seq(S) /\ Len(a) = k /\ \A i \in 1..k : a[i] = t[i]
  OBVIOUS
<1>2. /\ b \in Seq(S) /\ Len(b) = Len(t) - k
      /\ \A i \in 1..(Len(t) - k) : b[i] = t[k + i]
  BY AfterTyped
<1> HIDE DEF a, b
<1>3. a \o b \in Seq(S) /\ Len(a \o b) = Len(t)
  <2>1. Len(a \o b) = Len(a) + Len(b) /\ a \o b \in Seq(S)
    BY <1>1, <1>2, ConcatTyped
  <2>2. Len(t) \in Nat
    OBVIOUS
  <2> QED
    BY <1>1, <1>2, <2>1, <2>2
<1>4. ASSUME NEW i \in 1..Len(t) PROVE (a \o b)[i] = t[i]
  <2>1. CASE i <= k
    BY <1>1, <1>2, <2>1
  <2>2. CASE i > k
    <3>1. i - k \in 1..Len(b) /\ i = k + (i - k)
      BY <1>2, <2>2
    <3>2. (a \o b)[i] = b[i - k]
      BY <1>1, <1>2, <3>1, ConcatTyped
    <3> QED
      BY <1>2, <3>1, <3>2
  <2>3. i <= k \/ i > k
    OBVIOUS
  <2> QED
    BY <2>1, <2>2, <2>3
<1>5. a \o b = t
  BY <1>3, <1>4, SeqEqual
<1> QED
  BY <1>1, <1>5 DEF a, b

LEMMA BeginsConcat ==
    ASSUME NEW S, NEW a \in Seq(S), NEW b \in Seq(S)
    PROVE  Begins(a \o b, a) /\ After(a \o b, Len(a)) = b
<1> DEFINE t == a \o b
<1>1. t \in Seq(S) /\ Len(t) = Len(a) + Len(b) /\ Len(a) \in 0..Len(t)
  OBVIOUS
<1>2. Begins(t, a)
  BY <1>1 DEF Begins
<1>3. /\ After(t, Len(a)) \in Seq(S)
      /\ Len(After(t, Len(a))) = Len(b)
      /\ \A i \in 1..Len(b) : After(t, Len(a))[i] = t[Len(a) + i]
  <2> HIDE DEF t
  <2>1. Len(t) - Len(a) = Len(b)
    BY <1>1
  <2> QED
    BY <1>1, <2>1, AfterTyped
<1>4. \A i \in 1..Len(b) : t[Len(a) + i] = b[i]
  BY ConcatTyped
<1>5. After(t, Len(a)) = b
  <2> HIDE DEF t
  <2> QED
    BY <1>3, <1>4, SeqEqual
<1> QED
  BY <1>2, <1>5

\* A beginning is completed by what is left behind it.
LEMMA BeginsRest ==
    ASSUME NEW S, NEW t \in Seq(S), NEW s \in Seq(S), Begins(t, s)
    PROVE  /\ Len(s) \in 0..Len(t)
           /\ After(t, Len(s)) \in Seq(S)
           /\ t = s \o After(t, Len(s))
<1> DEFINE u == After(t, Len(s))
<1>1. Len(s) \in 0..Len(t)
  BY DEF Begins
<1>2. u \in Seq(S) /\ SubSeq(t, 1, Len(s)) \o u = t
  BY <1>1, SplitAt, AfterTyped
<1>3. SubSeq(t, 1, Len(s)) = s
  <2>1. /\ SubSeq(t, 1, Len(s)) \in Seq(S) /\ Len(SubSeq(t, 1, Len(s))) = Len(s)
        /\ \A i \in 1..Len(s) : SubSeq(t, 1, Len(s))[i] = t[i]
    BY <1>1
  <2>2. \A i \in 1..Len(s) : SubSeq(t, 1, Len(s))[i] = s[i]
    BY <2>1 DEF Begins
  <2> QED
    BY <2>1, <2>2, SeqEqual
<1> QED
  BY <1>1, <1>2, <1>3

LEMMA BeginsTransitive ==
    ASSUME NEW S, NEW a \in Seq(S), NEW b \in Seq(S), NEW c \in Seq(S),
           Begins(b, a), Begins(c, b)
    PROVE  Begins(c, a)
BY DEF Begins

LEMMA BeginsAll ==
    ASSUME NEW S, NEW a \in Seq(S), NEW b \in Seq(S), Begins(b, a), Len(a) = Len(b)
    PROVE  a = b
BY SeqEqual DEF Begins

\* Two beginnings of one sequence.
LEMMA BeginsBoth ==
    ASSUME NEW S, NEW a \in Seq(S), NEW b \in Seq(S), NEW t \in Seq(S),
           Begins(t, a), Begins(t, b), Len(a) <= Len(b)
    PROVE  Begins(b, a)
BY DEF Begins

\* What is added behind a common beginning.
LEMMA ConcatCancel ==
    ASSUME NEW S, NEW a \in Seq(S), NEW b \in Seq(S), NEW c \in Seq(S),
           a \o b = a \o c
    PROVE  b = c
<1>1. After(a \o b, Len(a)) = b /\ After(a \o c, Len(a)) = c
  BY BeginsConcat
<1> QED
  BY <1>1

LEMMA ConcatBegins ==
    ASSUME NEW S, NEW a \in Seq(S), NEW b \in Seq(S), NEW c \in Seq(S)
    PROVE  Begins(a \o b, a \o c) <=> Begins(b, c)
<1>1. ASSUME Begins(b, c) PROVE Begins(a \o b, a \o c)
  <2> DEFINE d == After(b, Len(c))
  <2>1. d \in Seq(S) /\ b = c \o d
    BY <1>1, BeginsRest
  <2> HIDE DEF d
  <2>2. a \o b = (a \o c) \o d
    <3>1. Associates(a, c, d)
      BY <2>1, ConcatAssociates
    <3> QED
      BY <2>1, <3>1 DEF Associates
  <2>3. a \o c \in Seq(S)
    OBVIOUS
  <2> QED
    BY <2>1, <2>2, <2>3, BeginsConcat
<1>2. ASSUME Begins(a \o b, a \o c) PROVE Begins(b, c)
  <2> DEFINE d == After(a \o b, Len(a \o c))
  <2>1. d \in Seq(S) /\ a \o b = (a \o c) \o d
    <3>1. a \o b \in Seq(S) /\ a \o c \in Seq(S)
      OBVIOUS
    <3> QED
      BY <1>2, <3>1, BeginsRest
  <2> HIDE DEF d
  <2>2. a \o b = a \o (c \o d) /\ c \o d \in Seq(S)
    <3>1. Associates(a, c, d)
      BY <2>1, ConcatAssociates
    <3>2. a \o b = a \o (c \o d)
      BY <2>1, <3>1 DEF Associates
    <3>3. c \o d \in Seq(S)
      BY <2>1, ConcatTyped
    <3> QED
      BY <3>2, <3>3
  <2>3. b = c \o d
    BY <2>2, ConcatCancel
  <2> QED
    BY <2>1, <2>3, BeginsConcat
<1> QED
  BY <1>1, <1>2

-----------------------------------------------------------------------------
(* The bytes of a list of buffers. *)

Bytes == Seq(Byte)

Flat(buffers) ==
    LET after[i \in 0..Len(buffers)] ==
            IF i = 0 THEN <<>> ELSE after[i - 1] \o buffers[i]
    IN  after[Len(buffers)]

\* f is what the loop over the buffers has after each of them.
FlatRun(f, buffers) ==
    /\ f \in [0..Len(buffers) -> Bytes]
    /\ f[0] = <<>>
    /\ \A i \in 1..Len(buffers) : f[i] = f[i - 1] \o buffers[i]

LEMMA FlatRuns ==
    ASSUME NEW buffers \in Seq(Bytes)
    PROVE  \E f : FlatRun(f, buffers) /\ Flat(buffers) = f[Len(buffers)]
<1> DEFINE n == Len(buffers)
           F(g) == [i \in 0..n |-> IF i = 0 THEN <<>> ELSE g[i - 1] \o buffers[i]]
           run == CHOOSE g : g = F(g)
           step == [x \in Bytes \X (1..n) |-> x[1] \o buffers[x[2]]]
<1>1. step \in [Bytes \X (1..n) -> Bytes]
  <2>1. \A i \in 1..n : buffers[i] \in Bytes
    OBVIOUS
  <2> QED
    BY <2>1 DEF Bytes
<1>2. n \in Nat
  OBVIOUS
<1>3. <<>> \in Bytes
  BY DEF Bytes
<1> HIDE DEF n
<1>4. \A f : \A i \in 1..n : f[i - 1] \in Bytes => step[<<f[i - 1], i>>] = f[i - 1] \o buffers[i]
  OBVIOUS
<1> HIDE DEF step
<1>5. PICK f : IsRun(f, Bytes, <<>>, step, n)
  BY <1>1, <1>2, <1>3, RunExists
<1>6. f = F(f)
  BY <1>2, <1>4, <1>5 DEF IsRun
<1>7. run = F(run)
  <2> HIDE DEF F
  <2> QED
    BY <1>6
<1>8. Flat(buffers) = run[n]
  BY DEF Flat, n
<1> HIDE DEF run
<1>9. run = [i \in 0..n |-> run[i]] /\ run[0] = <<>>
  BY <1>2, <1>7
<1>10. ASSUME NEW i \in 1..n PROVE run[i] = run[i - 1] \o buffers[i]
  <2>1. i \in 0..n /\ i # 0
    BY <1>2
  <2>2. run[i] = F(run)[i]
    BY <1>7
  <2> QED
    BY <2>1, <2>2
<1> HIDE DEF F
<1>11. IsRun(run, Bytes, <<>>, step, n)
  BY <1>1, <1>2, <1>3, <1>4, <1>9, <1>10, RunTyped
<1>12. FlatRun(run, buffers)
  BY <1>10, <1>11 DEF FlatRun, IsRun, n
<1> QED
  BY <1>8, <1>12 DEF n

LEMMA FlatTyped ==
    ASSUME NEW buffers \in Seq(Bytes)
    PROVE  Flat(buffers) \in Bytes
<1>1. PICK f : FlatRun(f, buffers) /\ Flat(buffers) = f[Len(buffers)]
  BY FlatRuns
<1> QED
  BY <1>1 DEF FlatRun

LEMMA FlatEmpty == Flat(<<>>) = <<>>
<1>1. <<>> \in Seq(Bytes) /\ Len(<<>>) = 0
  OBVIOUS
<1>2. PICK f : FlatRun(f, <<>>) /\ Flat(<<>>) = f[Len(<<>>)]
  BY <1>1, FlatRuns
<1> QED
  BY <1>1, <1>2 DEF FlatRun

\* The loop over a longer list begins with the loop over the shorter one.
LEMMA FlatRunsAgree ==
    ASSUME NEW a \in Seq(Bytes), NEW b \in Seq(Bytes), Begins(b, a),
           NEW f, FlatRun(f, a), NEW g, FlatRun(g, b)
    PROVE  f[Len(a)] = g[Len(a)]
<1> DEFINE T == {m \in 0..Len(a) : f[m] = g[m]}
<1>0. Len(a) \in Nat /\ Len(b) \in Nat /\ Len(a) <= Len(b)
  BY DEF Begins
<1>1. 0 \in T
  BY DEF FlatRun
<1>2. ASSUME NEW m \in 0..(Len(a) - 1), m \in T
      PROVE  m + 1 \in T
  <2>1. /\ m + 1 \in 1..Len(a) /\ m + 1 \in 0..Len(a)
        /\ m + 1 \in 1..Len(b) /\ (m + 1) - 1 = m
    BY <1>0
  <2>2. f[m + 1] = f[m] \o a[m + 1] /\ g[m + 1] = g[m] \o b[m + 1]
    BY <2>1 DEF FlatRun
  <2>3. a[m + 1] = b[m + 1]
    BY <2>1 DEF Begins
  <2> QED
    BY <1>2, <2>1, <2>2, <2>3
<1>3. 0..Len(a) \subseteq T
  <2> HIDE DEF T
  <2> QED
    BY <1>0, <1>1, <1>2, UpTo
<1> QED
  BY <1>0, <1>3

LEMMA FlatAppend ==
    ASSUME NEW buffers \in Seq(Bytes), NEW b \in Bytes
    PROVE  Flat(Append(buffers, b)) = Flat(buffers) \o b
<1> DEFINE more == Append(buffers, b)
<1>1. /\ more \in Seq(Bytes) /\ Len(more) = Len(buffers) + 1
      /\ Begins(more, buffers) /\ more[Len(buffers) + 1] = b
      /\ Len(buffers) \in Nat
  BY DEF Begins
<1> HIDE DEF more
<1>2. PICK f : FlatRun(f, buffers) /\ Flat(buffers) = f[Len(buffers)]
  BY FlatRuns
<1>3. PICK g : FlatRun(g, more) /\ Flat(more) = g[Len(more)]
  BY <1>1, FlatRuns
<1>4. f[Len(buffers)] = g[Len(buffers)]
  BY <1>1, <1>2, <1>3, FlatRunsAgree
<1>5. g[Len(more)] = g[Len(buffers)] \o b
  <2>1. Len(more) \in 1..Len(more) /\ Len(more) - 1 = Len(buffers)
    BY <1>1
  <2> QED
    BY <1>1, <1>3, <2>1 DEF FlatRun
<1> QED
  BY <1>2, <1>3, <1>4, <1>5 DEF more

LEMMA FlatSingle ==
    ASSUME NEW b \in Bytes
    PROVE  Flat(<<b>>) = b
<1>1. <<>> \in Seq(Bytes) /\ <<b>> = Append(<<>>, b)
  OBVIOUS
<1>2. Flat(<<b>>) = Flat(<<>>) \o b
  BY <1>1, FlatAppend
<1> QED
  BY <1>2, FlatEmpty, ConcatEmpty DEF Bytes

LEMMA FlatConcat ==
    ASSUME NEW a \in Seq(Bytes), NEW b \in Seq(Bytes)
    PROVE  Flat(a \o b) = Flat(a) \o Flat(b)
<1> DEFINE part(k) == SubSeq(b, 1, k)
           T == {k \in 0..Len(b) : Flat(a \o part(k)) = Flat(a) \o Flat(part(k))}
<1>1. 0 \in T
  <2>1. part(0) = <<>>
    OBVIOUS
  <2>2. a \o part(0) = a
    BY <2>1, ConcatEmpty
  <2>3. Flat(a) \o <<>> = Flat(a)
    BY FlatTyped, ConcatEmpty DEF Bytes
  <2>4. Flat(a \o part(0)) = Flat(a) \o Flat(part(0))
    BY <2>1, <2>2, <2>3, FlatEmpty
  <2> HIDE DEF part
  <2> QED
    BY <2>4
<1>2. ASSUME NEW k \in 0..(Len(b) - 1), k \in T
      PROVE  k + 1 \in T
  <2> DEFINE c == part(k)
             x == b[k + 1]
  <2>1. /\ c \in Seq(Bytes) /\ x \in Bytes
        /\ part(k + 1) = Append(c, x)
        /\ k + 1 \in 0..Len(b)
    OBVIOUS
  <2>2. Flat(a \o c) = Flat(a) \o Flat(c)
    BY <1>2
  <2> HIDE DEF c, x, part
  <2>3. a \o Append(c, x) = Append(a \o c, x) /\ a \o c \in Seq(Bytes)
    <3> DEFINE y == <<x>>
               ac == a \o c
    <3>1. ac \in Seq(Bytes)
      BY <2>1, ConcatTyped
    <3> HIDE DEF ac
    <3>2. Append(c, x) = c \o y /\ Append(ac, x) = ac \o y /\ y \in Seq(Bytes)
      <4>1. c \in Seq(Bytes) /\ x \in Bytes
        BY <2>1
      <4>2. Append(c, x) = c \o y
        BY ONLY <4>1
      <4>3. Append(ac, x) = ac \o y
        BY ONLY <3>1, <4>1
      <4>4. y \in Seq(Bytes)
        BY ONLY <4>1
      <4> QED
        BY <4>2, <4>3, <4>4
    <3> HIDE DEF y
    <3>3. (a \o c) \o y = a \o (c \o y)
      <4>1. a \in Seq(Bytes) /\ c \in Seq(Bytes) /\ y \in Seq(Bytes)
        BY <2>1, <3>2
      <4>2. Associates(a, c, y)
        BY ONLY <4>1, ConcatAssociates
      <4> QED
        BY <4>2 DEF Associates
    <3> QED
      BY <3>1, <3>2, <3>3 DEF ac
  <2>4. Flat(Append(a \o c, x)) = Flat(a \o c) \o x /\ Flat(Append(c, x)) = Flat(c) \o x
    BY <2>1, <2>3, FlatAppend
  <2>5. (Flat(a) \o Flat(c)) \o x = Flat(a) \o (Flat(c) \o x)
    <3>1. Flat(a) \in Seq(Byte) /\ Flat(c) \in Seq(Byte) /\ x \in Seq(Byte)
      BY <2>1, FlatTyped DEF Bytes
    <3>2. Associates(Flat(a), Flat(c), x)
      BY <3>1, ConcatAssociates
    <3> QED
      BY <3>2 DEF Associates
  <2>6. Flat(a \o part(k + 1)) = Flat(a) \o Flat(part(k + 1))
    BY <2>1, <2>2, <2>3, <2>4, <2>5
  <2> QED
    BY <2>1, <2>6
<1>3. Len(b) \in Nat
  OBVIOUS
<1>4. Len(b) \in T
  <2> HIDE DEF T
  <2>1. 0..Len(b) \subseteq T
    BY <1>1, <1>2, <1>3, UpTo
  <2> QED
    BY <1>3, <2>1
<1>5. part(Len(b)) = b
  OBVIOUS
<1> QED
  BY <1>4, <1>5

LEMMA FlatHead ==
    ASSUME NEW buffers \in Seq(Bytes), buffers # <<>>
    PROVE  /\ Head(buffers) \in Bytes /\ Tail(buffers) \in Seq(Bytes)
           /\ Flat(buffers) = Head(buffers) \o Flat(Tail(buffers))
<1> DEFINE h == <<Head(buffers)>>
           t == Tail(buffers)
<1>1. h \in Seq(Bytes) /\ t \in Seq(Bytes) /\ buffers = h \o t /\ Head(buffers) \in Bytes
  OBVIOUS
<1>2. Flat(h) = Head(buffers)
  BY <1>1, FlatSingle
<1> HIDE DEF h, t
<1>3. Flat(h \o t) = Flat(h) \o Flat(t)
  BY <1>1, FlatConcat
<1> QED
  BY <1>1, <1>2, <1>3 DEF t

-----------------------------------------------------------------------------
(* Lengths in a frame of padding. *)

ReadRun(f, s) ==
    /\ f \in [0..Len(s) -> Nat]
    /\ f[0] = 0
    /\ \A i \in 1..Len(s) : f[i] = f[i - 1] * ByteSize + s[i]

LEMMA ReadRuns ==
    ASSUME NEW s \in Bytes
    PROVE  \E f : ReadRun(f, s) /\ read_u32(s) = f[Len(s)]
<1> DEFINE n == Len(s)
           F(g) == [i \in 0..n |-> IF i = 0 THEN 0 ELSE g[i - 1] * ByteSize + s[i]]
           run == CHOOSE g : g = F(g)
           step == [x \in Nat \X (1..n) |-> x[1] * ByteSize + s[x[2]]]
<1>1. step \in [Nat \X (1..n) -> Nat]
  <2>1. \A i \in 1..n : s[i] \in Nat
    <3>1. \A b \in Byte : b \in Nat
      BY SizeAssumption DEF Byte
    <3>2. \A i \in 1..n : s[i] \in Byte
      BY DEF Bytes
    <3> QED
      BY <3>1, <3>2
  <2>2. \A v \in Nat : v * ByteSize \in Nat
    BY SizeAssumption
  <2>3. ASSUME NEW x \in Nat \X (1..n) PROVE x[1] * ByteSize + s[x[2]] \in Nat
    <3>1. x[1] * ByteSize \in Nat /\ s[x[2]] \in Nat
      BY <2>1, <2>2
    <3> QED
      BY <3>1
  <2> QED
    BY <2>3
<1>2. n \in Nat
  BY DEF Bytes
<1> HIDE DEF n
<1>4. \A f : \A i \in 1..n : f[i - 1] \in Nat => step[<<f[i - 1], i>>] = f[i - 1] * ByteSize + s[i]
  OBVIOUS
<1> HIDE DEF step
<1>5. PICK f : IsRun(f, Nat, 0, step, n)
  BY <1>1, <1>2, RunExists
<1>6. f = F(f)
  <2>1. f \in [0..n -> Nat] /\ f[0] = 0
    BY <1>5 DEF IsRun
  <2>2. ASSUME NEW i \in 1..n PROVE f[i] = f[i - 1] * ByteSize + s[i]
    <3>1. f[i - 1] \in Nat
      BY <1>2, <2>1
    <3>2. f[i] = step[<<f[i - 1], i>>]
      BY <1>5 DEF IsRun
    <3> QED
      BY <1>4, <3>1, <3>2
  <2>3. ASSUME NEW i \in 0..n PROVE f[i] = F(f)[i]
    <3>1. CASE i = 0
      BY <2>1, <3>1
    <3>2. CASE i # 0
      <4>1. i \in 1..n
        BY <1>2, <3>2
      <4> QED
        BY <2>2, <3>2, <4>1
    <3> QED
      BY <3>1, <3>2
  <2>4. DOMAIN F(f) = 0..n /\ F(f) = [i \in 0..n |-> F(f)[i]]
    OBVIOUS
  <2> HIDE DEF F
  <2> QED
    BY <2>1, <2>3, <2>4
<1>7. run = F(run)
  <2> HIDE DEF F
  <2> QED
    BY <1>6
<1>8. read_u32(s) = run[n]
  BY DEF read_u32, n
<1> HIDE DEF run
<1>9. run = [i \in 0..n |-> run[i]] /\ run[0] = 0
  BY <1>2, <1>7
<1>10. ASSUME NEW i \in 1..n PROVE run[i] = run[i - 1] * ByteSize + s[i]
  <2>1. i \in 0..n /\ i # 0
    BY <1>2
  <2>2. run[i] = F(run)[i]
    BY <1>7
  <2> QED
    BY <2>1, <2>2
<1> HIDE DEF F
<1>11. IsRun(run, Nat, 0, step, n)
  <2>1. Follows(run, run, Nat, 0, step, n)
    BY <1>4, <1>9, <1>10 DEF Follows
  <2> QED
    BY <1>1, <1>2, <2>1, FollowsTyped
<1>12. ReadRun(run, s)
  BY <1>10, <1>11 DEF ReadRun, IsRun, n
<1> QED
  BY <1>8, <1>12 DEF n

LEMMA ReadTyped ==
    ASSUME NEW s \in Bytes
    PROVE  read_u32(s) \in Nat
<1>1. PICK f : ReadRun(f, s) /\ read_u32(s) = f[Len(s)]
  BY ReadRuns
<1>2. Len(s) \in 0..Len(s)
  BY DEF Bytes
<1> QED
  BY <1>1, <1>2 DEF ReadRun

WriteRun(f, v) ==
    /\ f \in [0..U32Size -> Nat]
    /\ f[0] = v
    /\ \A k \in 1..U32Size : f[k] = f[k - 1] \div ByteSize

LEMMA WriteRuns ==
    ASSUME NEW v \in Nat
    PROVE  \E f : /\ WriteRun(f, v)
                  /\ write_u32(v) = [i \in 1..U32Size |-> f[U32Size - i] % ByteSize]
<1> DEFINE n == U32Size
           F(g) == [k \in 0..n |-> IF k = 0 THEN v ELSE g[k - 1] \div ByteSize]
           run == CHOOSE g : g = F(g)
           step == [x \in Nat \X (1..n) |-> x[1] \div ByteSize]
<1>1. step \in [Nat \X (1..n) -> Nat]
  <2>1. \A x \in Nat : x \div ByteSize \in Nat
    BY SizeAssumption
  <2> QED
    BY <2>1
<1>2. n \in Nat
  BY SizeAssumption
<1> HIDE DEF n
<1>4. \A f : \A i \in 1..n : f[i - 1] \in Nat => step[<<f[i - 1], i>>] = f[i - 1] \div ByteSize
  OBVIOUS
<1> HIDE DEF step
<1>5. PICK f : IsRun(f, Nat, v, step, n)
  BY <1>1, <1>2, RunExists
<1>6. f = F(f)
  <2>1. f \in [0..n -> Nat] /\ f[0] = v
    BY <1>5 DEF IsRun
  <2>2. ASSUME NEW i \in 1..n PROVE f[i] = f[i - 1] \div ByteSize
    <3>1. f[i - 1] \in Nat
      BY <1>2, <2>1
    <3>2. f[i] = step[<<f[i - 1], i>>]
      BY <1>5 DEF IsRun
    <3> QED
      BY <1>4, <3>1, <3>2
  <2>3. ASSUME NEW i \in 0..n PROVE f[i] = F(f)[i]
    <3>1. CASE i = 0
      BY <2>1, <3>1
    <3>2. CASE i # 0
      <4>1. i \in 1..n
        BY <1>2, <3>2
      <4> QED
        BY <2>2, <3>2, <4>1
    <3> QED
      BY <3>1, <3>2
  <2>4. DOMAIN F(f) = 0..n /\ F(f) = [i \in 0..n |-> F(f)[i]]
    OBVIOUS
  <2> HIDE DEF F
  <2> QED
    BY <2>1, <2>3, <2>4
<1>7. run = F(run)
  <2> HIDE DEF F
  <2> QED
    BY <1>6
<1>8. write_u32(v) = [i \in 1..n |-> run[n - i] % ByteSize]
  BY DEF write_u32, n
<1> HIDE DEF run
<1>9. run = [i \in 0..n |-> run[i]] /\ run[0] = v
  BY <1>2, <1>7
<1>10. ASSUME NEW i \in 1..n PROVE run[i] = run[i - 1] \div ByteSize
  <2>1. i \in 0..n /\ i # 0
    BY <1>2
  <2>2. run[i] = F(run)[i]
    BY <1>7
  <2> QED
    BY <2>1, <2>2
<1> HIDE DEF F
<1>11. IsRun(run, Nat, v, step, n)
  BY <1>1, <1>2, <1>4, <1>9, <1>10, RunTyped
<1>12. WriteRun(run, v)
  BY <1>10, <1>11 DEF WriteRun, IsRun, n
<1> QED
  BY <1>8, <1>12 DEF n

LEMMA Masked == \A x \in Nat : x % ByteSize \in Byte
BY SizeAssumption DEF Byte

LEMMA WriteTyped ==
    ASSUME NEW v \in Nat
    PROVE  write_u32(v) \in Bytes /\ Len(write_u32(v)) = U32Size
<1>1. PICK f : /\ WriteRun(f, v)
               /\ write_u32(v) = [i \in 1..U32Size |-> f[U32Size - i] % ByteSize]
  BY WriteRuns
<1>2. \A x \in Nat : x % ByteSize \in Byte
  BY Masked
<1>3. \A i \in 1..U32Size : f[U32Size - i] \in Nat
  BY <1>1, SizeAssumption DEF WriteRun
<1>4. U32Size \in Nat
  BY SizeAssumption
<1> QED
  BY <1>1, <1>2, <1>3, <1>4 DEF Bytes

\* The division with remainder of shifting and masking.
LEMMA ShiftAndMask ==
    ASSUME NEW x \in Nat
    PROVE  /\ (x \div ByteSize) * ByteSize + (x % ByteSize) = x
           /\ \A m \in Nat : x <= m * ByteSize + (ByteSize - 1) => x \div ByteSize <= m
<1>1. ByteSize \in Int /\ ByteSize > 0 /\ x \in Int
  BY SizeAssumption
<1>2. \A s, b \in Int : b > 0 => s = (s \div b) * b + (s % b)
  BY Z3
<1>3. \A s, m \in Nat, b \in Int : b > 0 /\ s <= m * b + (b - 1) => s \div b <= m
  BY Z3
<1> QED
  BY <1>1, <1>2, <1>3

\* What fits into U32Size bytes is read as it was written.
LEMMA ReadWrite ==
    ASSUME NEW v \in Nat, v <= U32Max
    PROVE  read_u32(write_u32(v)) = v
<1> DEFINE n == U32Size
           s == write_u32(v)
           top == [i \in 1..n |-> ByteSize - 1]
<1>1. n \in Nat
  BY SizeAssumption
<1>2. s \in Bytes /\ Len(s) = n
  BY WriteTyped
<1>3. top \in Bytes /\ Len(top) = n /\ \A i \in 1..n : top[i] = ByteSize - 1
  BY <1>1, SizeAssumption DEF Bytes, Byte
<1>4. v <= read_u32(top)
  BY DEF U32Max
<1>5. PICK f : WriteRun(f, v) /\ s = [i \in 1..n |-> f[n - i] % ByteSize]
  BY WriteRuns
<1> HIDE DEF n, s, top
<1>6. PICK g : ReadRun(g, s) /\ read_u32(s) = g[Len(s)]
  BY <1>2, ReadRuns
<1>7. PICK h : ReadRun(h, top) /\ read_u32(top) = h[Len(top)]
  BY <1>3, ReadRuns
<1>8. f[n] = 0
  <2> DEFINE T == {k \in 0..n : f[k] <= h[n - k]}
  <2>1. 0 \in T
    BY <1>1, <1>3, <1>4, <1>5, <1>7 DEF WriteRun, n
  <2>2. ASSUME NEW k \in 0..(n - 1), k \in T
        PROVE  k + 1 \in T
    <3>1. /\ k + 1 \in 1..n /\ k + 1 \in 0..n /\ (k + 1) - 1 = k /\ k \in 0..n
          /\ n - k \in 1..n /\ n - k \in 0..n /\ (n - k) - 1 = n - (k + 1) /\ n - (k + 1) \in 0..n
      BY <1>1
    <3>2. f[k] \in Nat /\ f[k + 1] = f[k] \div ByteSize
      BY <1>5, <3>1 DEF WriteRun, n
    <3>3. h[n - (k + 1)] \in Nat /\ h[n - k] = h[n - (k + 1)] * ByteSize + (ByteSize - 1)
      BY <1>3, <1>7, <3>1 DEF ReadRun
    <3>4. f[k + 1] <= h[n - (k + 1)]
      BY <2>2, <3>2, <3>3, ShiftAndMask
    <3> QED
      BY <3>1, <3>4
  <2>3. n \in T
    <3> HIDE DEF T
    <3>1. 0..n \subseteq T
      BY <1>1, <2>1, <2>2, UpTo
    <3> QED
      BY <1>1, <3>1
  <2>4. f[n] \in Nat /\ h[n - n] = 0
    BY <1>1, <1>5, <1>7 DEF WriteRun, ReadRun, n
  <2> QED
    BY <2>3, <2>4
<1>9. g[n] = f[0]
  <2> DEFINE T == {i \in 0..n : g[i] = f[n - i]}
  <2>1. 0 \in T
    BY <1>1, <1>6, <1>8 DEF ReadRun
  <2>2. ASSUME NEW i \in 0..(n - 1), i \in T
        PROVE  i + 1 \in T
    <3> DEFINE x == f[n - (i + 1)]
    <3>1. /\ i + 1 \in 1..n /\ i + 1 \in 0..n /\ (i + 1) - 1 = i
          /\ n - i \in 1..n /\ n - (i + 1) \in 0..n /\ (n - i) - 1 = n - (i + 1)
      BY <1>1
    <3>2. x \in Nat /\ f[n - i] = x \div ByteSize
      BY <1>5, <3>1 DEF WriteRun, n
    <3>3. s[i + 1] = x % ByteSize
      BY <1>5, <3>1
    <3>4. g[i + 1] = g[i] * ByteSize + s[i + 1]
      BY <1>2, <1>6, <3>1 DEF ReadRun
    <3>5. g[i] = x \div ByteSize
      BY <2>2, <3>2
    <3> HIDE DEF x
    <3>6. g[i + 1] = x
      BY <3>2, <3>3, <3>4, <3>5, ShiftAndMask
    <3> QED
      BY <3>1, <3>6 DEF x
  <2>3. n \in T
    <3> HIDE DEF T
    <3>1. 0..n \subseteq T
      BY <1>1, <2>1, <2>2, UpTo
    <3> QED
      BY <1>1, <3>1
  <2> QED
    BY <1>1, <2>3
<1> QED
  BY <1>2, <1>5, <1>6, <1>9 DEF WriteRun, s

-----------------------------------------------------------------------------
(* The cipher of cfb and cfb_nonce: the two ends of a direction stay in    *)
(* step, byte by byte and then buffer by buffer.                           *)

\* Keys that can be used: the IV has bytes and is not empty.
Keys == {k \in [iv : Bytes, offset : Nat, data : Bytes] : k.iv # <<>>}

\* The state the two ends of a direction share.
InStep(key, other) == key.iv = other.iv /\ key.offset = other.offset

\* The position in the IV is one of it.
LEMMA PositionInIv ==
    ASSUME NEW iv \in Seq(Byte), iv # <<>>, NEW n \in Nat
    PROVE  (n % Len(iv)) + 1 \in 1..Len(iv)
<1>1. Len(iv) \in Nat \ {0}
  OBVIOUS
<1>2. n % Len(iv) \in 0..(Len(iv) - 1)
  BY <1>1
<1> QED
  BY <1>1, <1>2

\* mix keeps an IV an IV of the same length, also one of a single byte, where
\* both assignments go to the same place.
LEMMA MixTyped ==
    ASSUME NEW iv \in Seq(Byte), iv # <<>>, NEW cipher \in Byte,
           NEW pos \in Nat, pos + 1 \in 1..Len(iv)
    PROVE  /\ mix(cipher, iv, pos) \in Seq(Byte)
           /\ Len(mix(cipher, iv, pos)) = Len(iv)
<1> DEFINE q == ((pos + 1) % Len(iv)) + 1
<1>1. q \in 1..Len(iv)
  BY PositionInIv
<1> DEFINE first == [iv EXCEPT ![pos + 1] = (@ + cipher) % ByteSize]
<1>2. (iv[pos + 1] + cipher) % ByteSize \in Byte
  <2>1. \A n \in Byte : n \in Nat
    BY SizeAssumption DEF Byte
  <2>2. \A n \in Nat : n % ByteSize \in Byte
    BY Masked
  <2>3. iv[pos + 1] \in Byte
    OBVIOUS
  <2>4. iv[pos + 1] + cipher \in Nat
    BY <2>1, <2>3
  <2> QED
    BY <2>2, <2>4
<1>3. first \in Seq(Byte) /\ Len(first) = Len(iv)
  BY <1>2
<1>4. Xor(first[q], cipher) \in Byte
  BY <1>1, <1>3, XorAssumption
<1>5. mix(cipher, iv, pos) = [first EXCEPT ![q] = Xor(@, cipher)]
  BY DEF mix
<1> HIDE DEF first, q
<1>6. /\ [first EXCEPT ![q] = Xor(first[q], cipher)] \in Seq(Byte)
      /\ Len([first EXCEPT ![q] = Xor(first[q], cipher)]) = Len(iv)
  <2> DEFINE x == Xor(first[q], cipher)
  <2>1. x \in Byte
    BY <1>4
  <2> HIDE DEF x
  <2>2. [first EXCEPT ![q] = x] \in Seq(Byte) /\ Len([first EXCEPT ![q] = x]) = Len(first)
    BY <1>1, <1>3, <2>1
  <2> QED
    BY <1>3, <2>2 DEF x
<1> QED
  BY <1>5, <1>6

\* Where in the IV a key is, and what is there.
LEMMA KeyPosition ==
    ASSUME NEW key \in Keys
    PROVE  LET pos == key.offset % Len(key.iv)
           IN  /\ pos \in Nat /\ pos + 1 \in 1..Len(key.iv)
               /\ key.iv[pos + 1] \in Byte
               /\ key.iv \in Seq(Byte) /\ key.iv # <<>>
               /\ key.offset \in Nat /\ key.data \in Seq(Byte)
<1>1. /\ key.iv \in Seq(Byte) /\ key.iv # <<>>
      /\ key.offset \in Nat /\ key.data \in Seq(Byte)
  BY DEF Keys, Bytes
<1>2. Len(key.iv) \in Nat \ {0}
  BY <1>1
<1>3. (key.offset % Len(key.iv)) + 1 \in 1..Len(key.iv)
  BY <1>1, PositionInIv
<1>4. key.offset % Len(key.iv) \in Nat
  BY <1>1, <1>2
<1> QED
  BY <1>1, <1>3, <1>4

\* One cipher byte mixed in, one byte put out.
LEMMA MixedKey ==
    ASSUME NEW key \in Keys, NEW cipher \in Byte, NEW b \in Byte
    PROVE  [iv |-> mix(cipher, key.iv, key.offset % Len(key.iv)),
            offset |-> key.offset + 1, data |-> Append(key.data, b)] \in Keys
<1> DEFINE pos == key.offset % Len(key.iv)
           m == mix(cipher, key.iv, pos)
<1>1. /\ pos \in Nat /\ pos + 1 \in 1..Len(key.iv)
      /\ key.iv \in Seq(Byte) /\ key.iv # <<>>
      /\ key.offset \in Nat /\ key.data \in Seq(Byte)
  BY KeyPosition
<1> HIDE DEF pos
<1>2. m \in Seq(Byte) /\ Len(m) = Len(key.iv)
  BY <1>1, MixTyped
<1>3. m # <<>>
  BY <1>1, <1>2
<1>4. Append(key.data, b) \in Seq(Byte) /\ key.offset + 1 \in Nat
  BY <1>1
<1> HIDE DEF m
<1> QED
  BY <1>2, <1>3, <1>4 DEF Keys, Bytes, m, pos

LEMMA EncryptByteTyped ==
    ASSUME NEW key \in Keys, NEW b \in Byte
    PROVE  /\ EncryptByte(key, b) \in Keys
           /\ \E c \in Byte : EncryptByte(key, b).data = Append(key.data, c)
<1> DEFINE pos == key.offset % Len(key.iv)
           c == Xor(b, key.iv[pos + 1])
<1>1. c \in Byte
  BY KeyPosition, XorAssumption
<1>2. EncryptByte(key, b) = [iv |-> mix(c, key.iv, pos), offset |-> key.offset + 1,
                             data |-> Append(key.data, c)]
  BY DEF EncryptByte
<1> HIDE DEF c
<1> QED
  BY <1>1, <1>2, MixedKey

LEMMA DecryptByteTyped ==
    ASSUME NEW key \in Keys, NEW b \in Byte
    PROVE  DecryptByte(key, b) \in Keys
<1> DEFINE pos == key.offset % Len(key.iv)
           c == Xor(b, key.iv[pos + 1])
<1>1. c \in Byte
  BY KeyPosition, XorAssumption
<1>2. DecryptByte(key, b) = [iv |-> mix(b, key.iv, pos), offset |-> key.offset + 1,
                             data |-> Append(key.data, c)]
  BY DEF DecryptByte
<1> HIDE DEF c
<1> QED
  BY <1>1, <1>2, MixedKey

\* decrypt gives back the byte encrypt was given, and both ends have the same
\* IV and the same offset afterwards if they had before: cfb.cpp:92-97 and
\* 105-110 mix the same cipher byte into the IV at the same position.
THEOREM DecryptInvertsEncrypt ==
    ASSUME NEW key \in Keys, NEW other \in Keys, InStep(key, other), NEW b \in Byte
    PROVE  LET e == EncryptByte(key, b)
               d == DecryptByte(other, e.data[Len(e.data)])
           IN  InStep(e, d) /\ d.data = Append(other.data, b)
<1> DEFINE iv == key.iv
           pos == key.offset % Len(iv)
           cipher == Xor(b, iv[pos + 1])
           e == EncryptByte(key, b)
           d == DecryptByte(other, cipher)
<1>1. iv[pos + 1] \in Byte /\ key.data \in Seq(Byte)
  BY KeyPosition
<1>2. cipher \in Byte /\ Xor(cipher, iv[pos + 1]) = b
  BY <1>1, XorAssumption
<1>3. e = [iv |-> mix(cipher, iv, pos), offset |-> key.offset + 1,
           data |-> Append(key.data, cipher)]
  BY DEF EncryptByte
<1>4. d = [iv |-> mix(cipher, iv, pos), offset |-> key.offset + 1,
           data |-> Append(other.data, b)]
  BY <1>2 DEF DecryptByte, InStep
<1> HIDE DEF cipher, pos, iv
<1>5. Append(key.data, cipher)[Len(Append(key.data, cipher))] = cipher
  BY <1>1, <1>2
<1>6. e.data[Len(e.data)] = cipher
  BY <1>3, <1>5
<1>7. InStep(e, d) /\ d.data = Append(other.data, b)
  BY <1>3, <1>4 DEF InStep
<1> QED
  BY <1>6, <1>7

EncryptRun(f, key, input) ==
    /\ f \in [0..Len(input) -> Keys]
    /\ f[0] = key
    /\ \A i \in 1..Len(input) : f[i] = EncryptByte(f[i - 1], input[i])

LEMMA EncryptRuns ==
    ASSUME NEW key \in Keys, NEW input \in Bytes
    PROVE  \E f : EncryptRun(f, key, input) /\ Encrypted(key, input) = f[Len(input)]
<1> DEFINE n == Len(input)
           F(g) == [i \in 0..n |-> IF i = 0 THEN key ELSE EncryptByte(g[i - 1], input[i])]
           run == CHOOSE g : g = F(g)
           step == [x \in Keys \X (1..n) |-> EncryptByte(x[1], input[x[2]])]
<1>1. step \in [Keys \X (1..n) -> Keys]
  <2>1. \A i \in 1..n : input[i] \in Byte
    BY DEF Bytes
  <2>2. ASSUME NEW x \in Keys \X (1..n) PROVE EncryptByte(x[1], input[x[2]]) \in Keys
    BY <2>1, EncryptByteTyped
  <2> QED
    BY <2>2
<1>2. n \in Nat
  BY DEF Bytes
<1> HIDE DEF n
<1>3. \A f : \A i \in 1..n : f[i - 1] \in Keys =>
                step[<<f[i - 1], i>>] = EncryptByte(f[i - 1], input[i])
  OBVIOUS
<1> HIDE DEF step
<1>4. PICK f : IsRun(f, Keys, key, step, n)
  BY <1>1, <1>2, RunExists
<1>5. f = F(f)
  <2> DEFINE g == F(f)
  <2>1. g = [i \in 0..n |-> g[i]] /\ g[0] = key
    BY <1>2
  <2>2. \A i \in 1..n : g[i] = EncryptByte(f[i - 1], input[i])
    BY <1>2
  <2> HIDE DEF g
  <2>3. \A i \in 1..n : f[i - 1] \in Keys => g[i] = step[<<f[i - 1], i>>]
    BY <1>3, <2>2
  <2> HIDE DEF F
  <2>4. f = g
    BY <1>2, <1>4, <2>1, <2>3, RunFixed
  <2> QED
    BY <2>4 DEF g
<1>6. run = F(run)
  <2> HIDE DEF F
  <2> QED
    BY <1>5
<1>7. Encrypted(key, input) = run[n]
  BY DEF Encrypted, n
<1> HIDE DEF run
<1>8. run = [i \in 0..n |-> run[i]] /\ run[0] = key
  BY <1>2, <1>6
<1>9. ASSUME NEW i \in 1..n PROVE run[i] = EncryptByte(run[i - 1], input[i])
  <2>1. i \in 0..n /\ i # 0
    BY <1>2
  <2>2. run[i] = F(run)[i]
    BY <1>6
  <2> QED
    BY <2>1, <2>2
<1> HIDE DEF F
<1>10. IsRun(run, Keys, key, step, n)
  BY <1>1, <1>2, <1>3, <1>8, <1>9, RunTyped
<1>11. EncryptRun(run, key, input)
  BY <1>9, <1>10 DEF EncryptRun, IsRun, n
<1> QED
  BY <1>7, <1>11 DEF n

DecryptRun(f, key, input) ==
    /\ f \in [0..Len(input) -> Keys]
    /\ f[0] = key
    /\ \A i \in 1..Len(input) : f[i] = DecryptByte(f[i - 1], input[i])

LEMMA DecryptRuns ==
    ASSUME NEW key \in Keys, NEW input \in Bytes
    PROVE  \E f : DecryptRun(f, key, input) /\ Decrypted(key, input) = f[Len(input)]
<1> DEFINE n == Len(input)
           F(g) == [i \in 0..n |-> IF i = 0 THEN key ELSE DecryptByte(g[i - 1], input[i])]
           run == CHOOSE g : g = F(g)
           step == [x \in Keys \X (1..n) |-> DecryptByte(x[1], input[x[2]])]
<1>1. step \in [Keys \X (1..n) -> Keys]
  <2>1. \A i \in 1..n : input[i] \in Byte
    BY DEF Bytes
  <2>2. ASSUME NEW x \in Keys \X (1..n) PROVE DecryptByte(x[1], input[x[2]]) \in Keys
    BY <2>1, DecryptByteTyped
  <2> QED
    BY <2>2
<1>2. n \in Nat
  BY DEF Bytes
<1> HIDE DEF n
<1>3. \A f : \A i \in 1..n : f[i - 1] \in Keys =>
                step[<<f[i - 1], i>>] = DecryptByte(f[i - 1], input[i])
  OBVIOUS
<1> HIDE DEF step
<1>4. PICK f : IsRun(f, Keys, key, step, n)
  BY <1>1, <1>2, RunExists
<1>5. f = F(f)
  <2> DEFINE g == F(f)
  <2>1. g = [i \in 0..n |-> g[i]] /\ g[0] = key
    BY <1>2
  <2>2. \A i \in 1..n : g[i] = DecryptByte(f[i - 1], input[i])
    BY <1>2
  <2> HIDE DEF g
  <2>3. \A i \in 1..n : f[i - 1] \in Keys => g[i] = step[<<f[i - 1], i>>]
    BY <1>3, <2>2
  <2> HIDE DEF F
  <2>4. f = g
    BY <1>2, <1>4, <2>1, <2>3, RunFixed
  <2> QED
    BY <2>4 DEF g
<1>6. run = F(run)
  <2> HIDE DEF F
  <2> QED
    BY <1>5
<1>7. Decrypted(key, input) = run[n]
  BY DEF Decrypted, n
<1> HIDE DEF run
<1>8. run = [i \in 0..n |-> run[i]] /\ run[0] = key
  BY <1>2, <1>6
<1>9. ASSUME NEW i \in 1..n PROVE run[i] = DecryptByte(run[i - 1], input[i])
  <2>1. i \in 0..n /\ i # 0
    BY <1>2
  <2>2. run[i] = F(run)[i]
    BY <1>6
  <2> QED
    BY <2>1, <2>2
<1> HIDE DEF F
<1>10. IsRun(run, Keys, key, step, n)
  BY <1>1, <1>2, <1>3, <1>8, <1>9, RunTyped
<1>11. DecryptRun(run, key, input)
  BY <1>9, <1>10 DEF DecryptRun, IsRun, n
<1> QED
  BY <1>7, <1>11 DEF n

\* Each byte adds one to what was put out.
LEMMA EncryptGrows ==
    ASSUME NEW key \in Keys, NEW input \in Bytes, NEW f, EncryptRun(f, key, input),
           NEW i \in 0..Len(input)
    PROVE  /\ f[i] \in Keys /\ f[i].data \in Bytes
           /\ Len(f[i].data) = Len(key.data) + i
           /\ \A j \in 0..i : Begins(f[i].data, f[j].data)
<1> DEFINE n == Len(input)
           T == {m \in 0..n : /\ Len(f[m].data) = Len(key.data) + m
                              /\ \A j \in 0..m : Begins(f[m].data, f[j].data)}
<1>1. n \in Nat /\ f \in [0..n -> Keys] /\ f[0] = key
  BY DEF Bytes, EncryptRun
<1>2. \A m \in 0..n : f[m] \in Keys /\ f[m].data \in Bytes
  BY <1>1 DEF Keys
<1>3. Len(key.data) \in Nat
  BY DEF Keys, Bytes
<1>4. 0 \in T
  <2>1. Len(f[0].data) = Len(key.data) + 0
    BY <1>1, <1>3
  <2>2. \A j \in 0..0 : Begins(f[0].data, f[j].data)
    BY <1>1, <1>3 DEF Begins
  <2> QED
    BY <1>1, <2>1, <2>2
<1>5. ASSUME NEW m \in 0..(n - 1), m \in T
      PROVE  m + 1 \in T
  <2> DEFINE d == f[m].data
             e == f[m + 1].data
  <2>1. m \in 0..n /\ m + 1 \in 0..n /\ m + 1 \in 1..n /\ (m + 1) - 1 = m
    BY <1>1
  <2>2. f[m + 1] = EncryptByte(f[m], input[m + 1]) /\ input[m + 1] \in Byte
    BY <2>1 DEF EncryptRun, Bytes
  <2>3. PICK c \in Byte : e = Append(d, c)
    <3>1. f[m] \in Keys /\ input[m + 1] \in Byte
      BY <1>2, <2>1, <2>2
    <3>2. \E c \in Byte : EncryptByte(f[m], input[m + 1]).data = Append(f[m].data, c)
      BY <3>1, EncryptByteTyped
    <3> QED
      BY <2>2, <3>2
  <2>4. d \in Seq(Byte) /\ e \in Seq(Byte)
    BY <1>2, <2>1 DEF Bytes
  <2>5. Len(d) = Len(key.data) + m /\ \A j \in 0..m : Begins(d, f[j].data)
    BY <1>5
  <2> HIDE DEF d, e
  <2>6. Len(e) = Len(d) + 1 /\ Begins(e, d) /\ Begins(e, e)
    BY <2>3, <2>4 DEF Begins
  <2>7. Len(e) = Len(key.data) + (m + 1)
    <3> DEFINE l == Len(key.data)
               ld == Len(d)
    <3>1. m \in Nat /\ l \in Nat /\ ld = l + m /\ Len(e) = ld + 1
      BY <1>1, <1>3, <2>5, <2>6
    <3> HIDE DEF l, ld
    <3>2. Len(e) = l + (m + 1)
      BY ONLY <3>1
    <3> QED
      BY <3>2 DEF l
  <2>8. ASSUME NEW j \in 0..(m + 1) PROVE Begins(e, f[j].data)
    <3>1. CASE j = m + 1
      BY <2>6, <3>1 DEF e
    <3>2. CASE j \in 0..m
      <4>1. f[j].data \in Seq(Byte)
        BY <1>2, <2>1, <3>2 DEF Bytes
      <4> QED
        BY <2>4, <2>5, <2>6, <3>2, <4>1, BeginsTransitive
    <3>3. j = m + 1 \/ j \in 0..m
      BY <2>1
    <3> QED
      BY <3>1, <3>2, <3>3
  <2> QED
    BY <2>1, <2>7, <2>8 DEF e
<1>6. 0..n \subseteq T
  <2> HIDE DEF T, n
  <2> QED
    BY <1>1, <1>4, <1>5, UpTo
<1> QED
  BY <1>2, <1>6

\* What was put out before does not matter.
Behind(d, key) == [iv |-> key.iv, offset |-> key.offset, data |-> d \o key.data]

LEMMA EncryptBehind ==
    ASSUME NEW key \in Keys, NEW d \in Bytes, NEW b \in Byte
    PROVE  EncryptByte(Behind(d, key), b) = Behind(d, EncryptByte(key, b))
<1> DEFINE pos == key.offset % Len(key.iv)
           c == Xor(b, key.iv[pos + 1])
<1>1. c \in Byte /\ key.data \in Seq(Byte)
  BY KeyPosition, XorAssumption
<1>2. EncryptByte(key, b) = [iv |-> mix(c, key.iv, pos), offset |-> key.offset + 1,
                             data |-> Append(key.data, c)]
  BY DEF EncryptByte
<1>3. EncryptByte(Behind(d, key), b)
        = [iv |-> mix(c, key.iv, pos), offset |-> key.offset + 1,
           data |-> Append(d \o key.data, c)]
  BY DEF EncryptByte, Behind
<1> HIDE DEF c, pos
<1>4. Append(d \o key.data, c) = d \o Append(key.data, c)
  <2> DEFINE k == key.data
             y == <<c>>
             dk == d \o k
  <2>1. d \in Seq(Byte) /\ k \in Seq(Byte)
    BY <1>1 DEF Bytes
  <2> HIDE DEF k
  <2>2. dk \in Seq(Byte)
    BY <2>1, ConcatTyped
  <2> HIDE DEF dk
  <2>3. Append(k, c) = k \o y /\ Append(dk, c) = dk \o y /\ y \in Seq(Byte)
    <3>1. c \in Byte
      BY <1>1
    <3>2. Append(k, c) = k \o y
      BY ONLY <2>1, <3>1
    <3>3. Append(dk, c) = dk \o y
      BY ONLY <2>2, <3>1
    <3>4. y \in Seq(Byte)
      BY ONLY <3>1
    <3> QED
      BY <3>2, <3>3, <3>4
  <2> HIDE DEF y
  <2>4. (d \o k) \o y = d \o (k \o y)
    <3>1. Associates(d, k, y)
      BY ONLY <2>1, <2>3, ConcatAssociates
    <3> QED
      BY <3>1 DEF Associates
  <2> QED
    BY <2>3, <2>4 DEF k, dk
<1> QED
  BY <1>2, <1>3, <1>4 DEF Behind

LEMMA BehindTyped ==
    ASSUME NEW key \in Keys, NEW d \in Bytes
    PROVE  Behind(d, key) \in Keys /\ Idle(Behind(d, key)) = Idle(key)
<1>1. /\ key.iv \in Bytes /\ key.iv # <<>> /\ key.offset \in Nat /\ key.data \in Bytes
      /\ key = [iv |-> key.iv, offset |-> key.offset, data |-> key.data]
  BY DEF Keys
<1>2. d \o key.data \in Bytes
  BY <1>1 DEF Bytes
<1>3. Idle(key) = [iv |-> key.iv, offset |-> key.offset, data |-> <<>>]
  BY <1>1 DEF Idle
<1>4. Idle(Behind(d, key)) = [iv |-> key.iv, offset |-> key.offset, data |-> <<>>]
  BY DEF Idle, Behind
<1> QED
  BY <1>1, <1>2, <1>3, <1>4 DEF Behind, Keys

LEMMA IdleTyped ==
    ASSUME NEW key \in Keys
    PROVE  /\ Idle(key) \in Keys /\ Idle(key).data = <<>> /\ InStep(Idle(key), key)
           /\ Behind(key.data, Idle(key)) = key
<1>1. /\ key.iv \in Bytes /\ key.iv # <<>> /\ key.offset \in Nat /\ key.data \in Bytes
      /\ key = [iv |-> key.iv, offset |-> key.offset, data |-> key.data]
  BY DEF Keys
<1>2. Idle(key) = [iv |-> key.iv, offset |-> key.offset, data |-> <<>>]
  BY <1>1 DEF Idle
<1>3. key.data \o <<>> = key.data /\ <<>> \in Bytes
  BY <1>1, ConcatEmpty DEF Bytes
<1>4. Behind(key.data, Idle(key))
        = [iv |-> key.iv, offset |-> key.offset, data |-> key.data \o <<>>]
  BY <1>2 DEF Behind
<1> QED
  BY <1>1, <1>2, <1>3, <1>4 DEF Keys, InStep

\* The two ends of a direction that started with iv: src went in and came out
\* as wire, of which the other end has seen a part and given back that part of
\* src.  K has the keys of the encryption.
CipherKeys(K, iv, pk, uk, src, wire, seen, given) ==
    /\ EncryptRun(K, Key(iv), src)
    /\ pk = Idle(K[Len(src)]) /\ wire = K[Len(src)].data
    /\ Begins(wire, seen) /\ uk = Idle(K[Len(seen)])
    /\ given = SubSeq(src, 1, Len(seen))

CipherPeer(iv, pk, uk, src, wire, seen, given) ==
    \E K : CipherKeys(K, iv, pk, uk, src, wire, seen, given)

LEMMA KeyTyped ==
    ASSUME NEW iv \in Bytes, iv # <<>>
    PROVE  Key(iv) \in Keys /\ Key(iv).data = <<>> /\ Idle(Key(iv)) = Key(iv)
<1>1. <<>> \in Bytes
  BY DEF Bytes
<1> QED
  BY <1>1 DEF Key, Keys, Idle

LEMMA CipherTyped ==
    ASSUME NEW iv \in Bytes, iv # <<>>, NEW pk, NEW uk, NEW src \in Bytes, NEW wire,
           NEW seen \in Bytes, NEW given, NEW K,
           CipherKeys(K, iv, pk, uk, src, wire, seen, given)
    PROVE  /\ pk \in Keys /\ pk.data = <<>> /\ uk \in Keys /\ uk.data = <<>>
           /\ wire \in Bytes /\ SameLen(wire, src) /\ given \in Bytes
           /\ Len(src) \in Nat /\ Len(seen) \in 0..Len(src) /\ SameLen(given, seen)
           /\ K[Len(src)] \in Keys /\ K[Len(seen)] \in Keys
<1>1. Key(iv) \in Keys /\ Len(Key(iv).data) = 0
  BY KeyTyped
<1>2. Len(src) \in Nat /\ Len(seen) \in Nat
  BY DEF Bytes
<1>3. /\ K[Len(src)] \in Keys /\ K[Len(src)].data \in Bytes
      /\ Len(K[Len(src)].data) = Len(Key(iv).data) + Len(src)
  <2>1. EncryptRun(K, Key(iv), src) /\ Len(src) \in 0..Len(src)
    BY <1>2 DEF CipherKeys
  <2> QED
    BY <1>1, <2>1, EncryptGrows
<1>4. wire \in Bytes /\ Len(wire) = Len(src)
  BY <1>1, <1>2, <1>3 DEF CipherKeys
<1>5. Len(seen) \in 0..Len(src)
  BY <1>2, <1>4 DEF CipherKeys, Begins
<1>6. K[Len(seen)] \in Keys
  BY <1>5 DEF CipherKeys, EncryptRun
<1>7. given \in Bytes /\ Len(given) = Len(seen)
  BY <1>2, <1>5, SplitAt DEF CipherKeys, Bytes
<1> QED
  BY <1>2, <1>3, <1>4, <1>5, <1>6, <1>7, IdleTyped DEF CipherKeys, SameLen

LEMMA CipherStart ==
    ASSUME NEW iv \in Bytes, iv # <<>>
    PROVE  CipherPeer(iv, Key(iv), Key(iv), <<>>, <<>>, <<>>, <<>>)
<1> DEFINE K == [i \in 0..0 |-> Key(iv)]
<1>1. Key(iv) \in Keys /\ Key(iv).data = <<>> /\ Idle(Key(iv)) = Key(iv)
  BY KeyTyped
<1>2. Len(<<>>) = 0 /\ K[0] = Key(iv) /\ SubSeq(<<>>, 1, 0) = <<>>
  OBVIOUS
<1>3. EncryptRun(K, Key(iv), <<>>)
  BY <1>1, <1>2 DEF EncryptRun
<1> HIDE DEF K
<1>4. Begins(<<>>, <<>>)
  BY <1>2 DEF Begins
<1> QED
  BY <1>1, <1>2, <1>3, <1>4 DEF CipherPeer, CipherKeys

\* What was given is the beginning of src, and all of it when all was seen.
LEMMA CipherDelivers ==
    ASSUME NEW iv \in Bytes, iv # <<>>, NEW pk, NEW uk, NEW src \in Bytes, NEW wire,
           NEW seen \in Bytes, NEW given,
           CipherPeer(iv, pk, uk, src, wire, seen, given)
    PROVE  Begins(src, given) /\ (seen = wire => given = src)
<1>1. PICK K : CipherKeys(K, iv, pk, uk, src, wire, seen, given)
  BY DEF CipherPeer
<1>2. /\ wire \in Bytes /\ Len(wire) = Len(src) /\ Len(src) \in Nat
      /\ Len(seen) \in 0..Len(src) /\ Len(given) = Len(seen) /\ given \in Bytes
  <2>1. /\ wire \in Bytes /\ SameLen(wire, src) /\ Len(src) \in Nat
        /\ Len(seen) \in 0..Len(src) /\ SameLen(given, seen) /\ given \in Bytes
    BY <1>1, CipherTyped
  <2> QED
    BY <2>1 DEF SameLen
<1>3. given = SubSeq(src, 1, Len(seen)) /\ src \in Seq(Byte)
  BY <1>1 DEF CipherKeys, Bytes
<1>4. Begins(src, given)
  <2>1. \A i \in 1..Len(seen) : given[i] = src[i]
    BY <1>2, <1>3
  <2> QED
    BY <1>2, <2>1 DEF Begins
<1>5. ASSUME seen = wire PROVE given = src
  BY <1>2, <1>4, <1>5, BeginsAll DEF Bytes
<1> QED
  BY <1>4, <1>5

\* Encryption goes on where it stopped, however the stream is cut.
LEMMA CipherPacks ==
    ASSUME NEW iv \in Bytes, iv # <<>>, NEW pk, NEW uk, NEW src \in Bytes, NEW wire,
           NEW seen \in Bytes, NEW given,
           CipherPeer(iv, pk, uk, src, wire, seen, given),
           NEW input \in Bytes
    PROVE  LET e == Encrypted(pk, input)
           IN  /\ e \in Keys
               /\ CipherPeer(iv, Idle(e), uk, src \o input, wire \o e.data, seen, given)
<1>1. PICK K : CipherKeys(K, iv, pk, uk, src, wire, seen, given)
  BY DEF CipherPeer
<1> DEFINE n == Len(src)
           m == Len(input)
           all == src \o input
<1>2. /\ pk \in Keys /\ pk.data = <<>> /\ K[n] \in Keys
      /\ wire \in Bytes /\ Len(wire) = n /\ n \in Nat /\ Len(seen) \in 0..n
  <2>1. /\ pk \in Keys /\ pk.data = <<>> /\ K[n] \in Keys
        /\ wire \in Bytes /\ SameLen(wire, src) /\ n \in Nat /\ Len(seen) \in 0..n
    BY <1>1, CipherTyped
  <2> QED
    BY <2>1 DEF SameLen
<1>3. m \in Nat /\ all \in Bytes /\ Len(all) = n + m
  BY DEF Bytes
<1>4. /\ \A i \in 1..n : all[i] = src[i]
      /\ \A i \in 1..m : all[n + i] = input[i]
  BY ConcatTyped DEF Bytes
<1>5. PICK f : EncryptRun(f, pk, input) /\ Encrypted(pk, input) = f[m]
  BY <1>2, EncryptRuns
<1> HIDE DEF all
<1> DEFINE L == [i \in 0..(n + m) |-> IF i <= n THEN K[i] ELSE Behind(wire, f[i - n])]
<1>6. /\ K \in [0..n -> Keys] /\ K[0] = Key(iv)
      /\ \A i \in 1..n : K[i] = EncryptByte(K[i - 1], src[i])
  BY <1>1 DEF CipherKeys, EncryptRun
<1>7. /\ f \in [0..m -> Keys] /\ f[0] = pk
      /\ \A i \in 1..m : f[i] = EncryptByte(f[i - 1], input[i])
  BY <1>5 DEF EncryptRun
<1>8. K[n] = Behind(wire, f[0])
  BY <1>1, <1>2, <1>7, IdleTyped DEF CipherKeys
<1>9. \A i \in 0..n : i \in 0..(n + m) /\ L[i] = K[i]
  BY <1>2, <1>3
<1>10. ASSUME NEW i \in 0..m
       PROVE  n + i \in 0..(n + m) /\ L[n + i] = Behind(wire, f[i])
  <2>1. n + i \in 0..(n + m)
    BY <1>2, <1>3
  <2>2. CASE i = 0
    BY <1>2, <1>8, <1>9, <2>1, <2>2
  <2>3. CASE i # 0
    <3>1. ~(n + i <= n) /\ (n + i) - n = i
      BY <1>2, <1>3, <2>3
    <3> QED
      BY <2>1, <3>1
  <2> QED
    BY <2>2, <2>3
<1>11. \A i \in 0..m : Behind(wire, f[i]) \in Keys
  BY <1>2, <1>7, BehindTyped
<1>12. ASSUME NEW i \in 0..(n + m) PROVE i \in 0..n \/ (i - n \in 1..m /\ i = n + (i - n))
  BY <1>2, <1>3
<1>13. L = [i \in 0..(n + m) |-> L[i]]
  OBVIOUS
<1> HIDE DEF L, n, m
<1>14. \A i \in 0..(n + m) : L[i] \in Keys
  <2> SUFFICES ASSUME NEW i \in 0..(n + m) PROVE L[i] \in Keys
    OBVIOUS
  <2>1. CASE i \in 0..n
    BY <1>6, <1>9, <2>1
  <2>2. CASE i - n \in 1..m /\ i = n + (i - n)
    <3> DEFINE j == i - n
    <3>1. j \in 0..m /\ i = n + j
      BY <1>3, <2>2
    <3> HIDE DEF j
    <3> QED
      BY <1>10, <1>11, <3>1
  <2> QED
    BY <1>12, <2>1, <2>2
<1>15. ASSUME NEW i \in 1..(n + m) PROVE L[i] = EncryptByte(L[i - 1], all[i])
  <2>0. i \in 0..(n + m)
    BY <1>2, <1>3
  <2>1. CASE i \in 0..n
    <3>1. i \in 1..n /\ i - 1 \in 0..n
      BY <1>2, <2>1
    <3> QED
      BY <1>4, <1>6, <1>9, <2>1, <3>1 DEF n
  <2>2. CASE i - n \in 1..m /\ i = n + (i - n)
    <3> DEFINE j == i - n
    <3>1. j \in 1..m /\ j \in 0..m /\ j - 1 \in 0..m /\ i = n + j /\ i - 1 = n + (j - 1)
      BY <1>2, <1>3, <2>2
    <3> HIDE DEF j
    <3>2. L[i] = Behind(wire, f[j]) /\ L[i - 1] = Behind(wire, f[j - 1]) /\ all[i] = input[j]
      BY <1>4, <1>10, <3>1 DEF n, m
    <3>3. f[j] = EncryptByte(f[j - 1], input[j]) /\ f[j - 1] \in Keys /\ input[j] \in Byte
      <4>1. input[j] \in Byte
        <5>1. input \in Seq(Byte) /\ j \in 1..Len(input)
          BY <3>1 DEF Bytes, m
        <5> QED
          BY ONLY <5>1
      <4> QED
        BY <1>7, <3>1, <4>1
    <3>4. EncryptByte(Behind(wire, f[j - 1]), input[j]) = Behind(wire, EncryptByte(f[j - 1], input[j]))
      BY <1>2, <3>3, EncryptBehind
    <3> QED
      BY <3>2, <3>3, <3>4
  <2> QED
    BY <1>12, <2>0, <2>1, <2>2
<1>16. EncryptRun(L, Key(iv), all)
  <2>1. L \in [0..(n + m) -> Keys]
    BY <1>13, <1>14
  <2>2. L[0] = Key(iv)
    BY <1>2, <1>6, <1>9
  <2> QED
    BY <1>3, <1>15, <2>1, <2>2 DEF EncryptRun
<1>17. L[n + m] = Behind(wire, f[m]) /\ f[m] \in Keys
  BY <1>3, <1>7, <1>10
<1>18. Idle(L[n + m]) = Idle(f[m]) /\ L[n + m].data = wire \o f[m].data /\ f[m].data \in Bytes
  <2>1. f[m].data \in Bytes
    BY <1>17 DEF Keys
  <2>2. Behind(wire, f[m]).data = wire \o f[m].data
    BY DEF Behind
  <2> QED
    BY <1>2, <1>17, <2>1, <2>2, BehindTyped
<1>19. Begins(wire \o f[m].data, seen)
  <2> DEFINE d == f[m].data
  <2>1. d \in Seq(Byte) /\ wire \in Seq(Byte) /\ seen \in Seq(Byte)
    BY <1>2, <1>18 DEF Bytes
  <2> HIDE DEF d
  <2>2. Begins(wire \o d, wire) /\ wire \o d \in Seq(Byte)
    BY <2>1, BeginsConcat, ConcatTyped
  <2>3. Begins(wire, seen)
    BY <1>1 DEF CipherKeys
  <2>4. Begins(wire \o d, seen)
    BY <2>1, <2>2, <2>3, BeginsTransitive
  <2> QED
    BY <2>4 DEF d
<1>20. L[Len(seen)] = K[Len(seen)] /\ uk = Idle(K[Len(seen)])
  BY <1>1, <1>2, <1>9 DEF CipherKeys
<1>21. SubSeq(all, 1, Len(seen)) = SubSeq(src, 1, Len(seen))
  <2> DEFINE k == Len(seen)
  <2>1. k \in 0..n /\ k \in 0..(n + m) /\ all \in Seq(Byte) /\ src \in Seq(Byte)
    BY <1>2, <1>3 DEF Bytes
  <2> HIDE DEF k
  <2>2. \A i \in 1..k : all[i] = src[i]
    BY <1>2, <1>4, <2>1 DEF n
  <2> QED
    BY <1>2, <1>3, <2>1, <2>2 DEF n, k
<1>22. CipherKeys(L, iv, Idle(f[m]), uk, all, wire \o f[m].data, seen, given)
  BY <1>1, <1>3, <1>16, <1>18, <1>19, <1>20, <1>21 DEF CipherKeys
<1> QED
  BY <1>5, <1>17, <1>22 DEF CipherPeer, all, m

LEMMA SubSeqGrows ==
    ASSUME NEW S, NEW s \in Seq(S), NEW k \in Nat, NEW j \in Nat, k + j + 1 <= Len(s)
    PROVE  /\ SubSeq(s, k + 1, k + j) \in Seq(S)
           /\ s[k + j + 1] \in S
           /\ SubSeq(s, k + 1, k + (j + 1)) = Append(SubSeq(s, k + 1, k + j), s[k + j + 1])
OBVIOUS

LEMMA SubSeqJoin ==
    ASSUME NEW S, NEW s \in Seq(S), NEW k \in Nat, NEW j \in Nat, k + j <= Len(s)
    PROVE  SubSeq(s, 1, k + j) = SubSeq(s, 1, k) \o SubSeq(s, k + 1, k + j)
<1> DEFINE a == SubSeq(s, 1, k)
           b == SubSeq(s, k + 1, k + j)
           c == SubSeq(s, 1, k + j)
<1>1. /\ a \in Seq(S) /\ Len(a) = k /\ \A i \in 1..k : a[i] = s[i]
      /\ b \in Seq(S) /\ Len(b) = j /\ \A i \in 1..j : b[i] = s[k + i]
      /\ c \in Seq(S) /\ Len(c) = k + j /\ \A i \in 1..(k + j) : c[i] = s[i]
  OBVIOUS
<1> HIDE DEF a, b, c
<1>2. /\ a \o b \in Seq(S) /\ Len(a \o b) = k + j
      /\ \A i \in 1..k : (a \o b)[i] = a[i]
      /\ \A i \in 1..j : (a \o b)[k + i] = b[i]
  <2>1. /\ a \o b \in Seq(S) /\ Len(a \o b) = Len(a) + Len(b)
        /\ \A i \in 1..Len(a) : (a \o b)[i] = a[i]
        /\ \A i \in 1..Len(b) : (a \o b)[Len(a) + i] = b[i]
    <3>1. a \in Seq(S) /\ b \in Seq(S)
      BY <1>1
    <3> QED
      BY ONLY <3>1
  <2> QED
    BY <1>1, <2>1
<1>3. ASSUME NEW i \in 1..(k + j) PROVE c[i] = (a \o b)[i]
  <2>1. CASE i \in 1..k
    BY <1>1, <1>2, <2>1
  <2>2. CASE i - k \in 1..j
    <3> DEFINE h == i - k
    <3>1. h \in 1..j /\ i = k + h
      BY <2>2
    <3> HIDE DEF h
    <3> QED
      BY <1>1, <1>2, <3>1
  <2>3. i \in 1..k \/ i - k \in 1..j
    OBVIOUS
  <2> QED
    BY <2>1, <2>2, <2>3
<1>4. c = a \o b
  BY <1>1, <1>2, <1>3, SeqEqual
<1> QED
  BY <1>4 DEF a, b, c

LEMMA InStepIdle ==
    ASSUME NEW key \in Keys, NEW other \in Keys, InStep(key, other)
    PROVE  Idle(key) = Idle(other)
<1>1. /\ Idle(key) = [iv |-> key.iv, offset |-> key.offset, data |-> <<>>]
      /\ Idle(other) = [iv |-> other.iv, offset |-> other.offset, data |-> <<>>]
  BY DEF Idle, Keys
<1> QED
  BY <1>1 DEF InStep

\* The byte that a step of the encryption puts on the wire.
LEMMA WireByte ==
    ASSUME NEW iv \in Bytes, iv # <<>>, NEW src \in Bytes, NEW K, EncryptRun(K, Key(iv), src),
           NEW i \in 1..Len(src)
    PROVE  LET e == EncryptByte(K[i - 1], src[i])
           IN  K[i] = e /\ K[i - 1] \in Keys /\ src[i] \in Byte /\ K[i] \in Keys
               /\ e.data[Len(e.data)] = K[Len(src)].data[i]
<1> DEFINE n == Len(src)
<1>1. Key(iv) \in Keys /\ Len(Key(iv).data) = 0
  BY KeyTyped
<1>2. n \in Nat /\ i \in 0..n /\ i - 1 \in 0..n /\ n \in 0..n
  BY DEF Bytes
<1>3. K[i] = EncryptByte(K[i - 1], src[i])
  BY DEF EncryptRun
<1>4. src[i] \in Byte
  BY DEF Bytes
<1>5. K[i] \in Keys /\ K[i].data \in Bytes /\ Len(K[i].data) = Len(Key(iv).data) + i
  BY <1>1, <1>2, EncryptGrows
<1>6. Len(K[i].data) = i
  BY <1>1, <1>2, <1>5
<1>7. Begins(K[n].data, K[i].data)
  BY <1>1, <1>2, EncryptGrows
<1>8. K[n].data[i] = K[i].data[i]
  <2> DEFINE s == K[i].data
             t == K[n].data
  <2>1. Len(s) = i /\ Begins(t, s) /\ i \in 1..i
    BY <1>6, <1>7
  <2> HIDE DEF s, t
  <2>2. t[i] = s[i]
    BY <2>1 DEF Begins
  <2> QED
    BY <2>2 DEF s, t
<1>9. K[i - 1] \in Keys
  BY <1>2 DEF EncryptRun
<1> QED
  BY <1>3, <1>4, <1>5, <1>6, <1>8, <1>9

\* Decryption follows, however the wire is cut.
LEMMA CipherUnpacks ==
    ASSUME NEW iv \in Bytes, iv # <<>>, NEW pk, NEW uk, NEW src \in Bytes, NEW wire,
           NEW seen \in Bytes, NEW given,
           CipherPeer(iv, pk, uk, src, wire, seen, given),
           NEW input \in Bytes, Begins(wire, seen \o input)
    PROVE  LET d == Decrypted(uk, input)
           IN  /\ d \in Keys
               /\ CipherPeer(iv, pk, Idle(d), src, wire, seen \o input, given \o d.data)
<1>1. PICK K : CipherKeys(K, iv, pk, uk, src, wire, seen, given)
  BY DEF CipherPeer
<1> DEFINE n == Len(src)
           k == Len(seen)
           m == Len(input)
<1>2. /\ uk \in Keys /\ uk.data = <<>> /\ K[k] \in Keys
      /\ wire \in Bytes /\ Len(wire) = n /\ n \in Nat /\ k \in 0..n
  <2>1. /\ uk \in Keys /\ uk.data = <<>> /\ K[k] \in Keys
        /\ wire \in Bytes /\ SameLen(wire, src) /\ n \in Nat /\ k \in 0..n
    BY <1>1, CipherTyped
  <2> QED
    BY <2>1 DEF SameLen
<1>3. k \in Nat /\ m \in Nat /\ seen \o input \in Bytes /\ Len(seen \o input) = k + m
  BY DEF Bytes
<1>4. /\ k + m <= n
      /\ \A i \in 1..m : wire[k + i] = input[i]
  <2>1. \A i \in 1..m : (seen \o input)[k + i] = input[i]
    BY ConcatTyped DEF Bytes
  <2>2. \A i \in 1..m : k + i \in 1..(k + m)
    BY <1>3
  <2> QED
    BY <1>2, <1>3, <2>1, <2>2 DEF Begins
<1>5. PICK g : DecryptRun(g, uk, input) /\ Decrypted(uk, input) = g[m]
  BY <1>2, DecryptRuns
<1>6. /\ g \in [0..m -> Keys] /\ g[0] = uk
      /\ \A i \in 1..m : g[i] = DecryptByte(g[i - 1], input[i])
  BY <1>5 DEF DecryptRun
<1>7. EncryptRun(K, Key(iv), src) /\ uk = Idle(K[k]) /\ wire = K[n].data
  BY <1>1 DEF CipherKeys
<1>8. src \in Seq(Byte)
  BY DEF Bytes
<1> HIDE DEF n, k, m
<1> DEFINE part(j) == SubSeq(src, k + 1, k + j)
           T == {j \in 0..m : /\ k + j \in 0..n
                              /\ K[k + j] \in Keys
                              /\ InStep(K[k + j], g[j])
                              /\ g[j].data = part(j)}
<1>9. 0 \in T
  <2>1. k + 0 = k
    BY <1>3
  <2>2. InStep(K[k], uk)
    BY <1>2, <1>7, IdleTyped DEF InStep
  <2>3. part(0) = <<>>
    BY <1>3, <1>8
  <2> HIDE DEF part
  <2> QED
    BY <1>2, <1>3, <1>6, <2>1, <2>2, <2>3
<1>10. ASSUME NEW j \in 0..(m - 1), j \in T
       PROVE  j + 1 \in T
  <2> DEFINE i == k + j + 1
             e == EncryptByte(K[k + j], src[i])
  <2>1. /\ j \in Nat /\ j + 1 \in 1..m /\ j + 1 \in 0..m /\ (j + 1) - 1 = j /\ j \in 0..m
        /\ i \in 1..n /\ i - 1 = k + j /\ k + (j + 1) = i /\ i \in 0..n
    <3>1. k \in Nat /\ m \in Nat /\ n \in Nat /\ k + m <= n
      BY <1>2, <1>3, <1>4
    <3>2. j \in 0..(m - 1)
      OBVIOUS
    <3> QED
      BY ONLY <3>1, <3>2
  <2>2. /\ K[k + j] \in Keys /\ InStep(K[k + j], g[j]) /\ g[j].data = part(j)
    BY <1>10
  <2> HIDE DEF part
  <2>3. /\ K[i] = e /\ src[i] \in Byte /\ K[i] \in Keys
        /\ e.data[Len(e.data)] = wire[i]
    <3> HIDE DEF i
    <3>1. LET x == EncryptByte(K[i - 1], src[i])
          IN  K[i] = x /\ K[i - 1] \in Keys /\ src[i] \in Byte /\ K[i] \in Keys
              /\ x.data[Len(x.data)] = K[Len(src)].data[i]
      <4>1. i \in 1..Len(src)
        BY <2>1 DEF n
      <4> QED
        BY <1>7, <4>1, WireByte
    <3> QED
      BY <1>7, <2>1, <3>1 DEF n
  <2>4. wire[i] = input[j + 1]
    BY <1>4, <2>1
  <2>5. g[j] \in Keys /\ g[j + 1] \in Keys /\ g[j + 1] = DecryptByte(g[j], input[j + 1])
    BY <1>6, <2>1
  <2> HIDE DEF i
  <2>6. InStep(e, g[j + 1]) /\ g[j + 1].data = Append(g[j].data, src[i])
    <3>1. LET x == EncryptByte(K[k + j], src[i])
              y == DecryptByte(g[j], x.data[Len(x.data)])
          IN  InStep(x, y) /\ y.data = Append(g[j].data, src[i])
      BY <2>2, <2>3, <2>5, DecryptInvertsEncrypt
    <3> QED
      BY <2>3, <2>4, <2>5, <3>1
  <2>7. Append(part(j), src[i]) = part(j + 1)
    <3>1. k + j + 1 <= Len(src)
      BY <2>1 DEF n, i
    <3> QED
      BY <1>3, <1>8, <2>1, <3>1, SubSeqGrows DEF part, i
  <2>8. /\ InStep(K[k + (j + 1)], g[j + 1]) /\ g[j + 1].data = part(j + 1)
        /\ K[k + (j + 1)] \in Keys /\ k + (j + 1) \in 0..n
    BY <2>1, <2>2, <2>3, <2>6, <2>7
  <2> QED
    BY <2>1, <2>8
<1>11. m \in T
  <2> HIDE DEF T
  <2>1. 0..m \subseteq T
    BY <1>3, <1>9, <1>10, UpTo
  <2> QED
    BY <1>3, <2>1
<1>12. K[k + m] \in Keys /\ InStep(K[k + m], g[m]) /\ g[m].data = part(m) /\ g[m] \in Keys
  BY <1>3, <1>6, <1>11
<1>13. Idle(g[m]) = Idle(K[k + m])
  BY <1>12, InStepIdle
<1>14. given \o g[m].data = SubSeq(src, 1, k + m)
  <2>1. given = SubSeq(src, 1, k)
    BY <1>1 DEF CipherKeys, k
  <2>2. k + m <= Len(src)
    BY <1>4 DEF n
  <2> QED
    BY <1>3, <1>8, <1>12, <2>1, <2>2, SubSeqJoin
<1>15. CipherKeys(K, iv, pk, Idle(g[m]), src, wire, seen \o input, given \o g[m].data)
  BY <1>1, <1>3, <1>13, <1>14 DEF CipherKeys
<1> QED
  BY <1>5, <1>12, <1>15 DEF CipherPeer

-----------------------------------------------------------------------------
(* Processors and the results of their calls. *)

Nonces == [1..NonceSize -> Byte]
Tags == [1..TagSize -> Byte]
IdleKeys == {k \in Keys : k.data = <<>>}

\* The arguments of cfb_nonce, for which the functions of the library give a
\* tag and an IV.
NonceArgs ==
    {a \in [iv : Bytes, hmac_key : Bytes, nonce : Nonces \union {<<>>}] :
       \A nonce \in Nonces : /\ Hmac(a.hmac_key, nonce) \in Tags
                             /\ Sha512(nonce \o a.iv) \in Bytes \ {<<>>}}

PadArgs == [chunk : 0..U32Max, max : 0..U32Max, seed : Nat \X BOOLEAN]

IdentityProcs ==
    [kind : {"identity"}, reverse : BOOLEAN, arg : {<<>>},
     pack : {<<>>}, unpack : {<<>>}, buffer : {<<>>}]
CfbProcs ==
    [kind : {"cfb"}, reverse : BOOLEAN, arg : {<<>>},
     pack : IdleKeys, unpack : IdleKeys, buffer : {<<>>}]
NonceProcs ==
    [kind : {"cfb_nonce"}, reverse : BOOLEAN, arg : NonceArgs,
     pack : IdleKeys \union {Key(<<>>)}, unpack : IdleKeys \union {Key(<<>>)},
     buffer : Bytes]
PaddingProcs ==
    [kind : {"padding"}, reverse : BOOLEAN, arg : PadArgs,
     pack : Nat, unpack : {0}, buffer : Bytes]
Procs == IdentityProcs \union CfbProcs \union NonceProcs \union PaddingProcs

Statuses == {"ok", "throw", "hang"}

\* The accumulator of unpack is shorter than what it waits for.
Small(p) ==
    /\ p.kind = "padding" => Len(p.buffer) < HeaderLen + p.arg.chunk + p.arg.max
    /\ p.kind = "cfb_nonce" => Len(p.buffer) < HandshakeSize
    /\ p.kind \in {"identity", "cfb"} => Len(p.buffer) < 1

\* The generators give natural numbers, for every seed and every count.  It is
\* a hypothesis and no ASSUME because TLC cannot enumerate seeds and counts.
DrawsNumbers == \A seed \in Nat \X BOOLEAN : \A n \in Nat : Draw(seed, n) \in Nat

\* What every call of a processor promises, whatever the input is.
Sound(p, r) ==
    /\ r.p \in Procs /\ r.out \in Seq(Bytes) /\ r.status \in Statuses
    /\ r.p.kind = p.kind /\ r.p.reverse = p.reverse /\ r.p.arg = p.arg
    /\ r.status = "hang" => p.kind = "padding" /\ p.arg.chunk = 0
    /\ r.status # "throw" /\ Small(p) => Small(r.p)

-----------------------------------------------------------------------------
(* Unpacking frames of padding. *)

PadResults == [p : PaddingProcs, out : Seq(Bytes), status : Statuses]

LEMMA U32Typed == U32Max \in Nat /\ U32Size \in Nat \ {0} /\ HeaderLen \in Nat \ {0}
                  /\ HeaderLen = U32Size + U32Size
<1> DEFINE top == [i \in 1..U32Size |-> ByteSize - 1]
<1>1. U32Size \in Nat \ {0} /\ ByteSize - 1 \in Byte
  BY SizeAssumption DEF Byte
<1>2. top \in Bytes
  BY <1>1 DEF Bytes
<1> HIDE DEF top
<1>3. read_u32(top) \in Nat
  BY <1>2, ReadTyped
<1> QED
  BY <1>1, <1>3 DEF U32Max, HeaderLen, top

\* The lengths a header in the accumulator gives.
PayloadLen(acc) == read_u32(SubSeq(acc, 1, U32Size))
PadLen(acc) == read_u32(SubSeq(acc, U32Size + 1, HeaderLen))

LEMMA HeaderTyped ==
    ASSUME NEW acc \in Bytes, HeaderLen <= Len(acc)
    PROVE  PayloadLen(acc) \in Nat /\ PadLen(acc) \in Nat
<1> DEFINE s == SubSeq(acc, 1, U32Size)
           t == SubSeq(acc, U32Size + 1, HeaderLen)
<1>1. acc \in Seq(Byte) /\ Len(acc) \in Nat
  BY DEF Bytes
<1>2. s \in Seq(Byte) /\ t \in Seq(Byte)
  BY <1>1, U32Typed
<1> HIDE DEF s, t
<1>3. read_u32(s) \in Nat /\ read_u32(t) \in Nat
  BY <1>2, ReadTyped DEF Bytes
<1> QED
  BY <1>3 DEF PayloadLen, PadLen, s, t

\* The cases of a round.
LEMMA TakeFrameCases ==
    ASSUME NEW r \in PadResults
    PROVE  LET acc == r.p.buffer
               payload_len == PayloadLen(acc)
               pad_len == PadLen(acc)
               frame_len == HeaderLen + payload_len + pad_len
           IN  \/ /\ r.status # "ok" \/ Len(acc) < HeaderLen
                  /\ TakeFrame(r) = r
               \/ /\ r.status = "ok" /\ HeaderLen <= Len(acc)
                  /\ payload_len \in Nat /\ pad_len \in Nat
                  /\ \/ /\ payload_len > r.p.arg.chunk \/ pad_len > r.p.arg.max
                        /\ TakeFrame(r) = Throws(r.p)
                     \/ /\ payload_len <= r.p.arg.chunk /\ pad_len <= r.p.arg.max
                        /\ Len(acc) < frame_len
                        /\ TakeFrame(r) = r
                     \/ /\ payload_len <= r.p.arg.chunk /\ pad_len <= r.p.arg.max
                        /\ frame_len <= Len(acc)
                        /\ TakeFrame(r)
                             = Returns([r.p EXCEPT !.buffer = SubSeq(acc, frame_len + 1, Len(acc))],
                                       Append(r.out, SubSeq(acc, HeaderLen + 1,
                                                            HeaderLen + payload_len)))
<1> DEFINE acc == r.p.buffer
           payload_len == PayloadLen(acc)
           pad_len == PadLen(acc)
           frame_len == HeaderLen + payload_len + pad_len
           taken == Returns([r.p EXCEPT !.buffer = SubSeq(acc, frame_len + 1, Len(acc))],
                            Append(r.out, SubSeq(acc, HeaderLen + 1, HeaderLen + payload_len)))
<1>1. TakeFrame(r) = IF r.status # "ok" \/ Len(acc) < HeaderLen THEN r
                     ELSE IF payload_len > r.p.arg.chunk \/ pad_len > r.p.arg.max THEN Throws(r.p)
                     ELSE IF Len(acc) < frame_len THEN r ELSE taken
  BY DEF TakeFrame, PayloadLen, PadLen
<1>2. acc \in Bytes /\ r.p.arg.chunk \in Nat /\ r.p.arg.max \in Nat
  BY U32Typed DEF PadResults, PaddingProcs, PadArgs
<1>3. Len(acc) \in Nat /\ HeaderLen \in Nat
  BY <1>2, U32Typed DEF Bytes
<1>4. HeaderLen <= Len(acc) => payload_len \in Nat /\ pad_len \in Nat
  BY <1>2, HeaderTyped
<1> HIDE DEF acc, payload_len, pad_len, taken
<1>5. CASE r.status # "ok" \/ Len(acc) < HeaderLen
  BY <1>1, <1>5 DEF acc
<1>6. CASE ~(r.status # "ok" \/ Len(acc) < HeaderLen)
  <2>1. HeaderLen <= Len(acc) /\ payload_len \in Nat /\ pad_len \in Nat /\ frame_len \in Nat
    BY <1>3, <1>4, <1>6
  <2>2. CASE payload_len > r.p.arg.chunk \/ pad_len > r.p.arg.max
    BY <1>1, <1>6, <2>1, <2>2 DEF acc, payload_len, pad_len
  <2>3. CASE ~(payload_len > r.p.arg.chunk \/ pad_len > r.p.arg.max)
    <3>1. payload_len <= r.p.arg.chunk /\ pad_len <= r.p.arg.max
      <4> DEFINE chunk == r.p.arg.chunk
                 max == r.p.arg.max
      <4>1. /\ chunk \in Nat /\ max \in Nat /\ payload_len \in Nat /\ pad_len \in Nat
            /\ ~(payload_len > chunk) /\ ~(pad_len > max)
        BY <1>2, <2>1, <2>3
      <4> HIDE DEF chunk, max
      <4>2. payload_len <= chunk /\ pad_len <= max
        BY ONLY <4>1
      <4> QED
        BY <4>2 DEF chunk, max
    <3>2. CASE Len(acc) < frame_len
      BY <1>1, <1>6, <2>1, <2>3, <3>1, <3>2 DEF acc, payload_len, pad_len
    <3>3. CASE ~(Len(acc) < frame_len)
      <4>1. frame_len <= Len(acc)
        BY <1>3, <2>1, <3>3
      <4>2. TakeFrame(r) = taken
        BY <1>1, <1>6, <2>3, <3>3
      <4> QED
        BY <1>6, <2>1, <3>1, <4>1, <4>2 DEF acc, payload_len, pad_len, taken
    <3> QED
      BY <3>2, <3>3
  <2> QED
    BY <2>2, <2>3
<1> QED
  BY <1>5, <1>6

\* The processor keeps everything but its accumulator.
Keeps(p, q) == /\ q.kind = p.kind /\ q.reverse = p.reverse /\ q.arg = p.arg
               /\ q.pack = p.pack /\ q.unpack = p.unpack

LEMMA TakeFrameTyped ==
    ASSUME NEW r \in PadResults
    PROVE  TakeFrame(r) \in PadResults /\ Keeps(r.p, TakeFrame(r).p)
<1> DEFINE acc == r.p.buffer
           payload_len == PayloadLen(acc)
           frame_len == HeaderLen + payload_len + PadLen(acc)
           rest == SubSeq(acc, frame_len + 1, Len(acc))
           found == SubSeq(acc, HeaderLen + 1, HeaderLen + payload_len)
           taken == Returns([r.p EXCEPT !.buffer = rest], Append(r.out, found))
<1>1. r.p \in PaddingProcs /\ r.out \in Seq(Bytes) /\ acc \in Bytes
  BY DEF PadResults, PaddingProcs
<1>2. Throws(r.p) \in PadResults /\ Throws(r.p).p = r.p
  BY <1>1 DEF Throws, PadResults, Statuses
<1>3. ASSUME HeaderLen <= Len(acc), payload_len \in Nat, PadLen(acc) \in Nat, frame_len <= Len(acc)
      PROVE  taken \in PadResults /\ Keeps(r.p, taken.p)
  <2>1. HeaderLen \in Nat /\ Len(acc) \in Nat /\ acc \in Seq(Byte)
    BY <1>1, U32Typed DEF Bytes
  <2> DEFINE pad_len == PadLen(acc)
  <2> HIDE DEF payload_len, pad_len, acc
  <2>2. frame_len \in 0..Len(acc) /\ HeaderLen + payload_len \in 0..Len(acc)
    <3>1. /\ payload_len \in Nat /\ pad_len \in Nat
          /\ frame_len = HeaderLen + payload_len + pad_len /\ frame_len <= Len(acc)
      BY <1>3 DEF pad_len
    <3> QED
      BY ONLY <2>1, <3>1
  <2> HIDE DEF frame_len
  <2>3. rest \in Bytes /\ found \in Bytes
    BY <1>3, <2>1, <2>2 DEF Bytes
  <2> HIDE DEF rest, found
  <2>4. Append(r.out, found) \in Seq(Bytes)
    BY <1>1, <2>3
  <2>5. [r.p EXCEPT !.buffer = rest] \in PaddingProcs /\ Keeps(r.p, [r.p EXCEPT !.buffer = rest])
    BY <1>1, <2>3 DEF PaddingProcs, Keeps
  <2> QED
    BY <2>4, <2>5 DEF Returns, PadResults, Statuses
<1> HIDE DEF taken, frame_len
<1>4. \/ TakeFrame(r) = r
      \/ TakeFrame(r) = Throws(r.p)
      \/ /\ HeaderLen <= Len(acc) /\ payload_len \in Nat /\ PadLen(acc) \in Nat
         /\ frame_len <= Len(acc) /\ TakeFrame(r) = taken
  BY TakeFrameCases DEF taken, frame_len
<1> QED
  BY <1>2, <1>3, <1>4 DEF Keeps

UnpackRun(f, p, acc) ==
    /\ f \in [0..Len(acc) -> PadResults]
    /\ f[0] = Returns([p EXCEPT !.buffer = acc], <<>>)
    /\ \A i \in 1..Len(acc) : f[i] = TakeFrame(f[i - 1])

LEMMA UnpackRuns ==
    ASSUME NEW p \in PaddingProcs, NEW input \in Bytes
    PROVE  LET acc == p.buffer \o input
           IN  /\ acc \in Bytes
               /\ \E f : UnpackRun(f, p, acc) /\ apply_unpack(p, input) = f[Len(acc)]
<1> DEFINE acc == p.buffer \o input
           n == Len(acc)
           start == Returns([p EXCEPT !.buffer = acc], <<>>)
           F(g) == [i \in 0..n |-> IF i = 0 THEN start ELSE TakeFrame(g[i - 1])]
           run == CHOOSE g : g = F(g)
           step == [x \in PadResults \X (1..n) |-> TakeFrame(x[1])]
<1>1. p.buffer \in Seq(Byte) /\ input \in Seq(Byte)
  BY DEF PaddingProcs, Bytes
<1>2. acc \in Bytes /\ n \in Nat
  BY <1>1 DEF Bytes
<1>3. apply_unpack(p, input) = run[n]
  BY DEF apply_unpack
<1> HIDE DEF acc, n
<1>4. start \in PadResults
  <2>1. [p EXCEPT !.buffer = acc] \in PaddingProcs
    BY <1>2 DEF PaddingProcs
  <2> QED
    BY <2>1 DEF Returns, PadResults, Statuses
<1>5. step \in [PadResults \X (1..n) -> PadResults]
  BY TakeFrameTyped
<1>6. \A f : \A i \in 1..n : f[i - 1] \in PadResults =>
                step[<<f[i - 1], i>>] = TakeFrame(f[i - 1])
  OBVIOUS
<1> HIDE DEF step, start
<1>7. PICK f : IsRun(f, PadResults, start, step, n)
  BY <1>2, <1>4, <1>5, RunExists
<1>8. f = F(f)
  <2> DEFINE g == F(f)
  <2>1. g = [i \in 0..n |-> g[i]] /\ g[0] = start
    BY <1>2
  <2>2. \A i \in 1..n : g[i] = TakeFrame(f[i - 1])
    BY <1>2
  <2> HIDE DEF g
  <2>3. \A i \in 1..n : f[i - 1] \in PadResults => g[i] = step[<<f[i - 1], i>>]
    BY <1>6, <2>2
  <2> HIDE DEF F
  <2>4. f = g
    BY <1>2, <1>7, <2>1, <2>3, RunFixed
  <2> QED
    BY <2>4 DEF g
<1>9. run = F(run)
  <2> HIDE DEF F
  <2> QED
    BY <1>8
<1> HIDE DEF run
<1>10. run = [i \in 0..n |-> run[i]] /\ run[0] = start
  BY <1>2, <1>9
<1>11. ASSUME NEW i \in 1..n PROVE run[i] = TakeFrame(run[i - 1])
  <2>1. i \in 0..n /\ i # 0
    BY <1>2
  <2>2. run[i] = F(run)[i]
    BY <1>9
  <2> QED
    BY <2>1, <2>2
<1> HIDE DEF F
<1>12. IsRun(run, PadResults, start, step, n)
  BY <1>2, <1>4, <1>5, <1>6, <1>10, <1>11, RunTyped
<1>13. UnpackRun(run, p, acc)
  BY <1>11, <1>12 DEF UnpackRun, IsRun, n, start
<1> QED
  BY <1>2, <1>3, <1>13 DEF n, acc

\* No complete frame is in the accumulator, which is short then.
Waits(r) ==
    LET acc == r.p.buffer
    IN  /\ Len(acc) < HeaderLen \/ Len(acc) < HeaderLen + PayloadLen(acc) + PadLen(acc)
        /\ Len(acc) < HeaderLen + r.p.arg.chunk + r.p.arg.max \/ Len(acc) < HeaderLen

\* A round that takes a frame makes the accumulator shorter, and the others
\* end the loop.
LEMMA TakeFrameShrinks ==
    ASSUME NEW r \in PadResults, r.status = "ok"
    PROVE  \/ TakeFrame(r) = r /\ Waits(r)
           \/ TakeFrame(r).status = "throw" /\ TakeFrame(r).out = <<>>
           \/ TakeFrame(r).status = "ok" /\ Len(TakeFrame(r).p.buffer) < Len(r.p.buffer)
<1> DEFINE acc == r.p.buffer
           n == Len(acc)
           payload_len == PayloadLen(acc)
           pad_len == PadLen(acc)
           frame_len == HeaderLen + payload_len + pad_len
           rest == SubSeq(acc, frame_len + 1, n)
           found == SubSeq(acc, HeaderLen + 1, HeaderLen + payload_len)
           taken == Returns([r.p EXCEPT !.buffer = rest], Append(r.out, found))
           chunk == r.p.arg.chunk
           max == r.p.arg.max
<1>1. /\ acc \in Seq(Byte) /\ n \in Nat /\ HeaderLen \in Nat \ {0}
      /\ chunk \in Nat /\ max \in Nat
  BY U32Typed DEF PadResults, PaddingProcs, PadArgs, Bytes
<1>2. r.p \in PaddingProcs
  BY DEF PadResults
<1> HIDE DEF acc, n, payload_len, pad_len, taken, chunk, max
<1>3. \/ n < HeaderLen /\ TakeFrame(r) = r
      \/ TakeFrame(r) = Throws(r.p)
      \/ /\ payload_len \in Nat /\ pad_len \in Nat /\ payload_len <= chunk /\ pad_len <= max
         /\ n < frame_len /\ TakeFrame(r) = r
      \/ /\ payload_len \in Nat /\ pad_len \in Nat /\ frame_len <= n /\ TakeFrame(r) = taken
  BY TakeFrameCases DEF acc, n, payload_len, pad_len, taken, chunk, max
<1>4. CASE n < HeaderLen /\ TakeFrame(r) = r
  BY <1>4 DEF Waits, n, acc
<1>5. CASE TakeFrame(r) = Throws(r.p)
  BY <1>5 DEF Throws
<1>6. CASE /\ payload_len \in Nat /\ pad_len \in Nat /\ payload_len <= chunk /\ pad_len <= max
           /\ n < frame_len /\ TakeFrame(r) = r
  <2>1. n < HeaderLen + chunk + max
    BY ONLY <1>1, <1>6
  <2> QED
    BY <1>6, <2>1 DEF Waits, n, acc, payload_len, pad_len, chunk, max
<1>7. CASE payload_len \in Nat /\ pad_len \in Nat /\ frame_len <= n /\ TakeFrame(r) = taken
  <2> HIDE DEF frame_len
  <2>1. frame_len \in Nat /\ frame_len > 0 /\ frame_len <= n
    BY ONLY <1>1, <1>7 DEF frame_len
  <2>2. Len(rest) = n - frame_len
    BY <1>1, <2>1 DEF n
  <2> HIDE DEF rest
  <2>3. taken.status = "ok" /\ taken.p.buffer = rest
    BY <1>2 DEF taken, Returns, PaddingProcs
  <2>4. Len(rest) < n
    BY ONLY <1>1, <2>1, <2>2
  <2> QED
    BY <1>7, <2>3, <2>4 DEF n, acc
<1> QED
  BY <1>3, <1>4, <1>5, <1>6, <1>7

\* A processor that waits takes nothing.
LEMMA WaitsIdle ==
    ASSUME NEW r \in PadResults, r.status = "ok", Waits(r), TakeFrame(r).status = "ok"
    PROVE  TakeFrame(r) = r
<1> DEFINE acc == r.p.buffer
           n == Len(acc)
           payload_len == PayloadLen(acc)
           pad_len == PadLen(acc)
           frame_len == HeaderLen + payload_len + pad_len
<1>1. n \in Nat /\ HeaderLen \in Nat
  BY U32Typed DEF PadResults, PaddingProcs, Bytes
<1> HIDE DEF acc, n, payload_len, pad_len
<1>2. \/ TakeFrame(r) = r
      \/ TakeFrame(r) = Throws(r.p)
      \/ payload_len \in Nat /\ pad_len \in Nat /\ HeaderLen <= n /\ frame_len <= n
  BY TakeFrameCases DEF acc, n, payload_len, pad_len
<1>3. Throws(r.p).status # "ok"
  BY DEF Throws
<1>4. n < HeaderLen \/ n < frame_len
  BY DEF Waits, acc, n, payload_len, pad_len
<1>5. ASSUME payload_len \in Nat, pad_len \in Nat, HeaderLen <= n, frame_len <= n PROVE FALSE
  BY ONLY <1>1, <1>4, <1>5
<1> QED
  BY <1>2, <1>3, <1>5

\* The loop ends because it has to wait, or with an exception.
LEMMA UnpackSettles ==
    ASSUME NEW p \in PaddingProcs, NEW input \in Bytes
    PROVE  LET r == apply_unpack(p, input)
           IN  /\ r \in PadResults /\ Keeps(p, r.p)
               /\ r.status \in {"ok", "throw"} /\ (r.status = "ok" => Waits(r))
<1> DEFINE acc == p.buffer \o input
           n == Len(acc)
<1>1. acc \in Bytes /\ \E f : UnpackRun(f, p, acc) /\ apply_unpack(p, input) = f[n]
  BY UnpackRuns
<1> HIDE DEF acc, n
<1>2. PICK f : UnpackRun(f, p, acc) /\ apply_unpack(p, input) = f[n]
  BY <1>1
<1>3. n \in Nat /\ HeaderLen \in Nat \ {0}
  BY <1>1, U32Typed DEF Bytes, n
<1>4. /\ \A i \in 0..n : f[i] \in PadResults
      /\ f[0] = Returns([p EXCEPT !.buffer = acc], <<>>)
      /\ \A i \in 1..n : f[i] = TakeFrame(f[i - 1])
  BY <1>2 DEF UnpackRun, n
<1> DEFINE T == {i \in 0..n : /\ Keeps(p, f[i].p) /\ f[i].status \in {"ok", "throw"}
                              /\ f[i].status = "ok" =>
                                   Waits(f[i]) \/ Len(f[i].p.buffer) <= n - i}
<1>5. 0 \in T
  <2>1. f[0].p = [p EXCEPT !.buffer = acc] /\ f[0].status = "ok"
    BY <1>4 DEF Returns
  <2>2. f[0].p.buffer = acc /\ Keeps(p, f[0].p)
    BY <2>1 DEF PaddingProcs, Keeps
  <2>3. 0 \in 0..n /\ n <= n - 0
    BY <1>3
  <2> QED
    BY <2>1, <2>2, <2>3 DEF n
<1>6. ASSUME NEW i \in 0..(n - 1), i \in T
      PROVE  i + 1 \in T
  <2> DEFINE r == f[i]
             s == TakeFrame(r)
  <2>1. i + 1 \in 1..n /\ i + 1 \in 0..n /\ i \in 0..n /\ (i + 1) - 1 = i
    BY <1>3
  <2>2. f[i + 1] = s /\ r \in PadResults
    BY <1>4, <2>1
  <2>3. /\ Keeps(p, r.p) /\ r.status \in {"ok", "throw"}
        /\ r.status = "ok" => Waits(r) \/ Len(r.p.buffer) <= n - i
    BY <1>6
  <2> HIDE DEF r
  <2>4. Keeps(p, s.p) /\ s \in PadResults
    BY <2>2, <2>3, TakeFrameTyped DEF Keeps
  <2>5. s.status \in {"ok", "throw"} /\ (s.status = "ok" => Waits(s) \/ Len(s.p.buffer) <= n - (i + 1))
    <3>1. CASE r.status # "ok"
      <4>1. s = r
        BY <3>1 DEF TakeFrame
      <4> QED
        BY <2>3, <3>1, <4>1
    <3>2. CASE r.status = "ok"
      <4>1. CASE s = r /\ Waits(r)
        BY <3>2, <4>1
      <4>2. CASE s.status = "throw"
        BY <4>2
      <4>3. CASE s.status = "ok" /\ Len(s.p.buffer) < Len(r.p.buffer)
        <5>1. CASE Waits(r)
          <6>1. s = r
            BY <2>2, <3>2, <4>3, <5>1, WaitsIdle
          <6> QED
            BY <5>1, <4>3, <6>1
        <5>2. CASE Len(r.p.buffer) <= n - i
          <6> DEFINE k == Len(s.p.buffer)
                     l == Len(r.p.buffer)
          <6>1. k \in Nat /\ l \in Nat /\ k < l /\ l <= n - i /\ i \in 0..n
            BY <2>1, <2>2, <2>4, <4>3, <5>2 DEF PadResults, PaddingProcs, Bytes
          <6> HIDE DEF k, l
          <6>2. k <= n - (i + 1)
            BY ONLY <1>3, <6>1
          <6> QED
            BY <4>3, <6>2 DEF k
        <5> QED
          BY <2>3, <3>2, <5>1, <5>2
      <4> QED
        BY <2>2, <3>2, <4>1, <4>2, <4>3, TakeFrameShrinks
    <3> QED
      BY <3>1, <3>2
  <2> QED
    BY <2>1, <2>2, <2>4, <2>5
<1>7. n \in T
  <2> HIDE DEF T
  <2>1. 0..n \subseteq T
    BY <1>3, <1>5, <1>6, UpTo
  <2> QED
    BY <1>3, <2>1
<1> DEFINE r == f[n]
<1>8. /\ r \in PadResults /\ Keeps(p, r.p) /\ r.status \in {"ok", "throw"}
      /\ r.status = "ok" => Waits(r) \/ Len(r.p.buffer) <= n - n
  BY <1>3, <1>4, <1>7
<1> HIDE DEF r
<1>9. Len(r.p.buffer) <= n - n => Waits(r)
  <2> DEFINE k == Len(r.p.buffer)
  <2>1. k \in Nat
    BY <1>8 DEF PadResults, PaddingProcs, Bytes
  <2> HIDE DEF k
  <2>2. k <= n - n => k < HeaderLen
    BY ONLY <1>3, <2>1
  <2> QED
    BY <2>2 DEF k, Waits
<1> QED
  BY <1>2, <1>8, <1>9 DEF r

-----------------------------------------------------------------------------
(* Frames of padding. *)

IsFrame(frame, payload) ==
    /\ frame \in Bytes /\ payload \in Bytes
    /\ HeaderLen <= Len(frame)
    /\ PayloadLen(frame) = Len(payload)
    /\ Len(frame) = HeaderLen + PayloadLen(frame) + PadLen(frame)
    /\ SubSeq(frame, HeaderLen + 1, HeaderLen + Len(payload)) = payload

LEMMA PadFrameIsFrame ==
    ASSUME DrawsNumbers, NEW p \in PaddingProcs, NEW n \in Nat,
           NEW payload \in Bytes, Len(payload) <= U32Max
    PROVE  IsFrame(PadFrame(p, n, payload), payload)
<1> DEFINE pad_len == Draw(p.arg.seed, n) % (p.arg.max + 1)
           a == write_u32(Len(payload))
           b == write_u32(pad_len)
           pad == [i \in 1..pad_len |-> Draw(p.arg.seed, n + i) % ByteSize]
           ab == a \o b
           abc == ab \o payload
           frame == abc \o pad
<1>1. PadFrame(p, n, payload) = frame
  BY DEF PadFrame
<1>2. /\ p.arg.seed \in Nat \X BOOLEAN /\ p.arg.max \in 0..U32Max /\ U32Max \in Nat
      /\ U32Size \in Nat \ {0} /\ HeaderLen = U32Size + U32Size
  BY U32Typed DEF PaddingProcs, PadArgs
<1>3. pad_len \in Nat /\ pad_len <= U32Max
  <2>1. Draw(p.arg.seed, n) \in Nat
    BY <1>2 DEF DrawsNumbers
  <2>2. \A x \in Nat, m \in Nat : x % (m + 1) \in 0..m
    OBVIOUS
  <2>3. p.arg.max \in Nat /\ p.arg.max <= U32Max
    BY <1>2
  <2>4. pad_len \in 0..p.arg.max
    BY <2>1, <2>2, <2>3
  <2> QED
    BY <1>2, <2>3, <2>4
<1>4. pad \in Bytes /\ Len(pad) = pad_len
  <2>1. \A i \in 1..pad_len : Draw(p.arg.seed, n + i) \in Nat
    <3> HIDE DEF pad_len
    <3> TAKE i \in 1..pad_len
    <3>1. n + i \in Nat
      BY <1>3
    <3> QED
      BY <1>2, <3>1 DEF DrawsNumbers
  <2>2. \A i \in 1..pad_len : Draw(p.arg.seed, n + i) % ByteSize \in Byte
    BY <2>1, Masked
  <2> QED
    BY <1>3, <2>2 DEF Bytes
<1>5. Len(payload) \in Nat /\ payload \in Seq(Byte)
  BY DEF Bytes
<1> HIDE DEF pad_len, pad
<1>6. /\ a \in Bytes /\ Len(a) = U32Size /\ read_u32(a) = Len(payload)
      /\ b \in Bytes /\ Len(b) = U32Size /\ read_u32(b) = pad_len
  BY <1>3, <1>5, WriteTyped, ReadWrite
<1> HIDE DEF a, b
<1>7. /\ ab \in Seq(Byte) /\ Len(ab) = HeaderLen
      /\ \A i \in 1..U32Size : ab[i] = a[i]
      /\ \A i \in 1..U32Size : ab[U32Size + i] = b[i]
  <2>1. a \in Seq(Byte) /\ b \in Seq(Byte)
    BY <1>6 DEF Bytes
  <2>2. /\ ab \in Seq(Byte) /\ Len(ab) = Len(a) + Len(b)
        /\ \A i \in 1..Len(a) : ab[i] = a[i]
        /\ \A i \in 1..Len(b) : ab[Len(a) + i] = b[i]
    BY ONLY <2>1, ConcatTyped
  <2> QED
    BY <1>2, <1>6, <2>2
<1> HIDE DEF ab
<1>8. /\ abc \in Seq(Byte) /\ Len(abc) = HeaderLen + Len(payload)
      /\ \A i \in 1..HeaderLen : abc[i] = ab[i]
      /\ \A i \in 1..Len(payload) : abc[HeaderLen + i] = payload[i]
  <2>1. /\ abc \in Seq(Byte) /\ Len(abc) = Len(ab) + Len(payload)
        /\ \A i \in 1..Len(ab) : abc[i] = ab[i]
        /\ \A i \in 1..Len(payload) : abc[Len(ab) + i] = payload[i]
    <3>1. ab \in Seq(Byte) /\ payload \in Seq(Byte)
      BY <1>5, <1>7
    <3> QED
      BY ONLY <3>1, ConcatTyped
  <2> QED
    BY <1>7, <2>1
<1> HIDE DEF abc
<1>9. /\ frame \in Seq(Byte) /\ Len(frame) = HeaderLen + Len(payload) + pad_len
      /\ \A i \in 1..(HeaderLen + Len(payload)) : frame[i] = abc[i]
  <2>1. /\ frame \in Seq(Byte) /\ Len(frame) = Len(abc) + Len(pad)
        /\ \A i \in 1..Len(abc) : frame[i] = abc[i]
    <3>1. abc \in Seq(Byte) /\ pad \in Seq(Byte)
      BY <1>4, <1>8 DEF Bytes
    <3> QED
      BY ONLY <3>1, ConcatTyped
  <2> QED
    BY <1>4, <1>8, <2>1
<1> HIDE DEF frame
<1> DEFINE l == Len(payload)
<1>10. l \in Nat /\ HeaderLen \in Nat
  BY <1>2, <1>5
<1> HIDE DEF l
<1>11. HeaderLen <= Len(frame) /\ HeaderLen + l <= Len(frame)
  <2>1. Len(frame) = HeaderLen + l + pad_len
    BY <1>9 DEF l
  <2> QED
    BY ONLY <1>3, <1>10, <2>1
<1>12. SubSeq(frame, 1, U32Size) = a
  <2> DEFINE s == SubSeq(frame, 1, U32Size)
  <2>1. U32Size <= Len(frame)
    BY ONLY <1>2, <1>10, <1>11, <1>9
  <2>2. s \in Seq(Byte) /\ Len(s) = U32Size /\ \A i \in 1..U32Size : s[i] = frame[i]
    BY <1>2, <1>9, <2>1
  <2>3. \A i \in 1..U32Size : frame[i] = a[i]
    <3> TAKE i \in 1..U32Size
    <3>1. i \in 1..HeaderLen /\ i \in 1..(HeaderLen + l)
      BY ONLY <1>2, <1>10, i \in 1..U32Size
    <3> QED
      BY <1>7, <1>8, <1>9, <3>1 DEF l
  <2> HIDE DEF s
  <2>4. s = a
    BY <1>6, <2>2, <2>3, SeqEqual DEF Bytes
  <2> QED
    BY <2>4 DEF s
<1>13. SubSeq(frame, U32Size + 1, HeaderLen) = b
  <2> DEFINE s == SubSeq(frame, U32Size + 1, HeaderLen)
  <2>1. U32Size + 1 \in 1..(HeaderLen + 1) /\ HeaderLen - (U32Size + 1) + 1 = U32Size
    BY ONLY <1>2
  <2>2. s \in Seq(Byte) /\ Len(s) = U32Size /\ \A i \in 1..U32Size : s[i] = frame[U32Size + i]
    BY <1>2, <1>9, <1>11, <2>1
  <2>3. \A i \in 1..U32Size : frame[U32Size + i] = b[i]
    <3> TAKE i \in 1..U32Size
    <3>1. U32Size + i \in 1..HeaderLen /\ U32Size + i \in 1..(HeaderLen + l)
      BY ONLY <1>2, <1>10, i \in 1..U32Size
    <3> QED
      BY <1>7, <1>8, <1>9, <3>1 DEF l
  <2> HIDE DEF s
  <2>4. s = b
    BY <1>6, <2>2, <2>3, SeqEqual DEF Bytes
  <2> QED
    BY <2>4 DEF s
<1>14. SubSeq(frame, HeaderLen + 1, HeaderLen + l) = payload
  <2> DEFINE s == SubSeq(frame, HeaderLen + 1, HeaderLen + l)
  <2>1. s \in Seq(Byte) /\ Len(s) = l /\ \A i \in 1..l : s[i] = frame[HeaderLen + i]
    BY <1>9, <1>10, <1>11
  <2>2. \A i \in 1..l : frame[HeaderLen + i] = payload[i]
    <3> TAKE i \in 1..l
    <3>1. HeaderLen + i \in 1..(HeaderLen + l)
      BY ONLY <1>10, i \in 1..l
    <3> QED
      BY <1>8, <1>9, <3>1 DEF l
  <2> HIDE DEF s
  <2>3. s = payload
    BY <1>5, <2>1, <2>2, SeqEqual DEF l
  <2> QED
    BY <2>3 DEF s
<1>15. PayloadLen(frame) = l /\ PadLen(frame) = pad_len
  BY <1>6, <1>12, <1>13 DEF PayloadLen, PadLen, l
<1> QED
  BY <1>1, <1>9, <1>11, <1>14, <1>15 DEF IsFrame, Bytes, l

LEMMA MinOfTwo ==
    ASSUME NEW a \in Int, NEW b \in Int
    PROVE  Min({a, b}) = IF a <= b THEN a ELSE b
<1> DEFINE m == IF a <= b THEN a ELSE b
<1>1. \A x \in {a, b} : (\A y \in {a, b} : x =< y) <=> x = m
  OBVIOUS
<1>2. m \in {a, b}
  OBVIOUS
<1> HIDE DEF m
<1>3. (CHOOSE x \in {a, b} : \A y \in {a, b} : x =< y) = m
  BY <1>1, <1>2
<1> QED
  BY <1>3 DEF Min, m

Frames(fs, ps) ==
    /\ fs \in Seq(Bytes) /\ ps \in Seq(Bytes) /\ SameLen(fs, ps)
    /\ \A i \in 1..Len(ps) : IsFrame(fs[i], ps[i])

LEMMA FramesConcat ==
    ASSUME NEW a, NEW p, Frames(a, p), NEW b, NEW q, Frames(b, q)
    PROVE  Frames(a \o b, p \o q)
<1>1. /\ a \in Seq(Bytes) /\ p \in Seq(Bytes) /\ b \in Seq(Bytes) /\ q \in Seq(Bytes)
      /\ Len(a) = Len(p) /\ Len(b) = Len(q)
  BY DEF Frames, SameLen
<1> DEFINE c == a \o b
           r == p \o q
<1>2. /\ c \in Seq(Bytes) /\ Len(c) = Len(a) + Len(b) /\ Len(a) \in Nat /\ Len(b) \in Nat
      /\ \A i \in 1..Len(a) : c[i] = a[i]
      /\ \A i \in 1..Len(b) : c[Len(a) + i] = b[i]
  <2>1. a \in Seq(Bytes) /\ b \in Seq(Bytes)
    BY <1>1
  <2> QED
    BY ONLY <2>1, ConcatTyped
<1>3. /\ r \in Seq(Bytes) /\ Len(r) = Len(p) + Len(q)
      /\ \A i \in 1..Len(p) : r[i] = p[i]
      /\ \A i \in 1..Len(q) : r[Len(p) + i] = q[i]
  BY ONLY <1>1, ConcatTyped
<1> HIDE DEF c, r
<1>4. ASSUME NEW i \in 1..Len(r) PROVE IsFrame(c[i], r[i])
  <2> DEFINE n == Len(a)
             m == Len(b)
  <2>1. n \in Nat /\ m \in Nat /\ i \in 1..(n + m)
    BY <1>1, <1>2, <1>3
  <2>2. CASE i \in 1..n
    BY <1>1, <1>2, <1>3, <2>2 DEF Frames
  <2>3. CASE i - n \in 1..m
    <3> DEFINE j == i - n
    <3>1. j \in 1..m /\ i = n + j
      BY <2>1, <2>3
    <3> HIDE DEF j
    <3> QED
      BY <1>1, <1>2, <1>3, <3>1 DEF Frames
  <2>4. i \in 1..n \/ i - n \in 1..m
    <3> HIDE DEF n, m
    <3> QED
      BY ONLY <2>1
  <2> QED
    BY <2>2, <2>3, <2>4
<1>5. Len(c) = Len(r)
  BY <1>1, <1>2, <1>3
<1>6. Frames(c, r)
  BY <1>2, <1>3, <1>4, <1>5 DEF Frames, SameLen
<1> QED
  BY <1>6 DEF c, r

\* The loop of pack between two rounds: what it has passed of the input is in
\* the frames it has made.
CutStates == [pos : Nat, p : PaddingProcs, out : Seq(Bytes)]
CutSoFar(p, input) ==
    {at \in CutStates :
        /\ at.pos \in 0..Len(input)
        /\ at.p = [p EXCEPT !.pack = at.p.pack]
        /\ \E ps : Frames(at.out, ps) /\ Flat(ps) = SubSeq(input, 1, at.pos)}

\* A round keeps to that, and passes a byte of the input if a chunk has one.
LEMMA CutFrameCuts ==
    ASSUME DrawsNumbers, NEW p \in PaddingProcs, NEW input \in Bytes,
           NEW at \in CutSoFar(p, input)
    PROVE  LET next == CutFrame(at, input)
           IN  /\ next \in CutSoFar(p, input)
               /\ p.arg.chunk > 0 => next.pos = Len(input) \/ next.pos > at.pos
<1> DEFINE n == Len(input)
           c == p.arg.chunk
           a == at.pos
           d == Min({at.p.arg.chunk, Len(input) - at.pos})
           payload == SubSeq(input, at.pos + 1, at.pos + d)
           frame == PadFrame(at.p, at.p.pack + 1, payload)
           q == [at.p EXCEPT !.pack = @ + 1]
           made == [pos |-> at.pos + d, p |-> q, out |-> Append(at.out, frame)]
<1>1. /\ n \in Nat /\ input \in Seq(Byte) /\ c \in 0..U32Max /\ U32Max \in Nat
      /\ at \in CutStates /\ a \in 0..n /\ at.p \in PaddingProcs /\ at.out \in Seq(Bytes)
      /\ at.p.pack \in Nat /\ at.p = [p EXCEPT !.pack = at.p.pack]
  <2>1. n \in Nat /\ input \in Seq(Byte)
    BY DEF Bytes
  <2>2. c \in 0..U32Max /\ U32Max \in Nat
    BY U32Typed DEF PaddingProcs, PadArgs
  <2>3. at \in CutStates /\ a \in 0..n /\ at.p = [p EXCEPT !.pack = at.p.pack]
    BY DEF CutSoFar
  <2>4. at.p \in PaddingProcs /\ at.out \in Seq(Bytes)
    BY <2>3 DEF CutStates
  <2>5. at.p.pack \in Nat
    BY <2>4 DEF PaddingProcs
  <2> QED
    BY <2>1, <2>2, <2>3, <2>4, <2>5
<1>2. CASE a >= n
  <2>1. CutFrame(at, input) = at
    BY <1>2 DEF CutFrame
  <2>2. a = n
    <3> HIDE DEF a, n
    <3> QED
      BY <1>1, <1>2
  <2> QED
    BY <2>1, <2>2
<1>3. CASE ~(a >= n)
  <2>1. CutFrame(at, input) = made
    BY <1>3 DEF CutFrame
  <2>2. at.p.arg = p.arg
    BY <1>1 DEF PaddingProcs
  <2>3. /\ d \in Nat /\ d <= c /\ a + d <= n
        /\ c > 0 => d > 0
    <3>1. d = IF c <= n - a THEN c ELSE n - a
      <4>1. d = Min({c, n - a})
        BY <2>2
      <4> HIDE DEF d, c, n, a
      <4> QED
        BY <1>1, <4>1, MinOfTwo
    <3> HIDE DEF d, c, n, a
    <3> QED
      BY <1>1, <1>3, <3>1
  <2>4. payload \in Bytes /\ Len(payload) <= U32Max /\ payload = SubSeq(input, a + 1, a + d)
    <3>1. payload = SubSeq(input, a + 1, a + d)
      OBVIOUS
    <3>2. a \in Nat /\ d \in Nat /\ c \in Nat /\ U32Max \in Nat
          /\ a + d <= Len(input) /\ d <= c /\ c <= U32Max /\ input \in Seq(Byte)
      <4> HIDE DEF d, a, c
      <4> QED
        BY <1>1, <2>3 DEF n
    <3> HIDE DEF d, a, c, payload
    <3>3. payload \in Seq(Byte) /\ Len(payload) = d
      BY ONLY <3>1, <3>2
    <3>4. d <= U32Max
      BY ONLY <3>2
    <3> QED
      BY <3>1, <3>3, <3>4 DEF Bytes
  <2> HIDE DEF d, payload
  <2>5. IsFrame(frame, payload) /\ frame \in Bytes
    <3>1. at.p.pack + 1 \in Nat
      BY <1>1
    <3>2. IsFrame(frame, payload)
      BY <1>1, <2>4, <3>1, PadFrameIsFrame
    <3> QED
      BY <3>2 DEF IsFrame
  <2> HIDE DEF frame
  <2>6. q \in PaddingProcs /\ q = [p EXCEPT !.pack = q.pack]
    <3>1. q = [at.p EXCEPT !.pack = at.p.pack + 1] /\ at.p.pack + 1 \in Nat
      BY <1>1 DEF PaddingProcs
    <3>2. q \in PaddingProcs /\ q.pack = at.p.pack + 1
      BY <1>1, <3>1 DEF PaddingProcs
    <3>3. q = [p EXCEPT !.pack = at.p.pack + 1]
      <4>1. [[p EXCEPT !.pack = at.p.pack] EXCEPT !.pack = at.p.pack + 1]
                = [p EXCEPT !.pack = at.p.pack + 1]
        BY DEF PaddingProcs
      <4> QED
        BY <1>1, <3>1, <4>1
    <3> QED
      BY <3>2, <3>3
  <2> HIDE DEF q
  <2>7. PICK ps : Frames(at.out, ps) /\ Flat(ps) = SubSeq(input, 1, a)
    BY DEF CutSoFar
  <2>8. Frames(Append(at.out, frame), Append(ps, payload))
    <3>1. Frames(<<frame>>, <<payload>>)
      <4>1. /\ <<frame>> \in Seq(Bytes) /\ <<payload>> \in Seq(Bytes)
            /\ Len(<<frame>>) = 1 /\ Len(<<payload>>) = 1
            /\ <<frame>>[1] = frame /\ <<payload>>[1] = payload
        <5>1. \A x \in Bytes : <<x>> \in Seq(Bytes) /\ Len(<<x>>) = 1 /\ <<x>>[1] = x
          OBVIOUS
        <5> QED
          BY <2>4, <2>5, <5>1
      <4>2. \A i \in 1..1 : i = 1
        OBVIOUS
      <4> QED
        BY <2>5, <4>1, <4>2 DEF Frames, SameLen
    <3>2. Frames(at.out \o <<frame>>, ps \o <<payload>>)
      BY <2>7, <3>1, FramesConcat
    <3>3. /\ Append(at.out, frame) = at.out \o <<frame>>
          /\ Append(ps, payload) = ps \o <<payload>>
      <4>1. at.out \in Seq(Bytes) /\ ps \in Seq(Bytes)
        BY <1>1, <2>7 DEF Frames
      <4>2. \A s \in Seq(Bytes) : \A x \in Bytes : Append(s, x) = s \o <<x>>
        OBVIOUS
      <4> QED
        BY <2>4, <2>5, <4>1, <4>2
    <3> QED
      BY <3>2, <3>3
  <2>9. Flat(Append(ps, payload)) = SubSeq(input, 1, a + d)
    <3>1. Flat(Append(ps, payload)) = Flat(ps) \o payload
      BY <2>4, <2>7, FlatAppend DEF Frames
    <3> HIDE DEF a
    <3>2. a \in Nat /\ a + d <= Len(input)
      BY <1>1, <2>3 DEF n
    <3>3. SubSeq(input, 1, a + d) = SubSeq(input, 1, a) \o SubSeq(input, a + 1, a + d)
      BY ONLY <1>1, <2>3, <3>2, SubSeqJoin
    <3> QED
      BY <2>4, <2>7, <3>1, <3>3
  <2>10. made \in CutStates /\ made.pos = a + d /\ made.pos \in 0..n
    <3>1. Append(at.out, frame) \in Seq(Bytes)
      BY <1>1, <2>5
    <3>2. a + d \in Nat /\ a + d \in 0..n
      BY <1>1, <2>3
    <3> QED
      BY <2>6, <3>1, <3>2 DEF CutStates
  <2>11. made \in CutSoFar(p, input)
    BY <2>6, <2>8, <2>9, <2>10 DEF CutSoFar
  <2>12. c > 0 => made.pos > a
    <3> HIDE DEF made, a, c
    <3> QED
      BY <1>1, <2>3, <2>10
  <2> QED
    BY <2>1, <2>11, <2>12
<1> QED
  BY <1>2, <1>3

CutRun(f, p, input) ==
    /\ f \in [0..Len(input) -> CutSoFar(p, input)]
    /\ f[0] = [pos |-> 0, p |-> p, out |-> <<>>]
    /\ \A i \in 1..Len(input) : f[i] = CutFrame(f[i - 1], input)

\* The run of the loop, and what pack makes of where it ends.
LEMMA CutRuns ==
    ASSUME DrawsNumbers, NEW p \in PaddingProcs, NEW input \in Bytes
    PROVE  \E f : /\ CutRun(f, p, input)
                  /\ apply_pack(p, input) =
                         LET end == f[Len(input)]
                         IN  IF end.pos < Len(input) THEN Hangs(p)
                             ELSE Returns(end.p, end.out)
<1> DEFINE n == Len(input)
           S == CutSoFar(p, input)
           start == [pos |-> 0, p |-> p, out |-> <<>>]
           F(g) == [i \in 0..n |-> IF i = 0 THEN start ELSE CutFrame(g[i - 1], input)]
           run == CHOOSE g : g = F(g)
           step == [x \in S \X (1..n) |-> CutFrame(x[1], input)]
           end == run[n]
<1>1. n \in Nat /\ input \in Seq(Byte)
  BY DEF Bytes
<1>2. apply_pack(p, input) = IF end.pos < n THEN Hangs(p) ELSE Returns(end.p, end.out)
  BY DEF apply_pack
<1> HIDE DEF n
<1>3. start \in S
  <2>1. Frames(<<>>, <<>>)
    BY DEF Frames, SameLen
  <2>2. Flat(<<>>) = SubSeq(input, 1, 0)
    <3>1. SubSeq(input, 1, 0) = <<>>
      BY <1>1
    <3> QED
      BY <3>1, FlatEmpty
  <2>3. start \in CutStates /\ start.pos = 0 /\ start.p = p /\ start.out = <<>> /\ 0 \in 0..n
    BY <1>1 DEF CutStates
  <2>4. p = [p EXCEPT !.pack = p.pack]
    BY DEF PaddingProcs
  <2> HIDE DEF start
  <2> QED
    BY <2>1, <2>2, <2>3, <2>4 DEF CutSoFar, n
<1>4. step \in [S \X (1..n) -> S]
  BY CutFrameCuts
<1>5. \A f : \A i \in 1..n : f[i - 1] \in S => step[<<f[i - 1], i>>] = CutFrame(f[i - 1], input)
  OBVIOUS
<1> HIDE DEF step, start, S
<1>6. PICK f : IsRun(f, S, start, step, n)
  BY <1>1, <1>3, <1>4, RunExists
<1>7. f = F(f)
  <2> DEFINE g == F(f)
  <2>1. g = [i \in 0..n |-> g[i]] /\ g[0] = start
    BY <1>1
  <2>2. \A i \in 1..n : g[i] = CutFrame(f[i - 1], input)
    BY <1>1
  <2> HIDE DEF g
  <2>3. \A i \in 1..n : f[i - 1] \in S => g[i] = step[<<f[i - 1], i>>]
    BY <1>5, <2>2
  <2> HIDE DEF F
  <2>4. f = g
    BY <1>1, <1>6, <2>1, <2>3, RunFixed
  <2> QED
    BY <2>4 DEF g
<1>8. run = F(run)
  <2> HIDE DEF F
  <2> QED
    BY <1>7
<1> HIDE DEF run
<1>9. run = [i \in 0..n |-> run[i]] /\ run[0] = start
  BY <1>1, <1>8
<1>10. ASSUME NEW i \in 1..n PROVE run[i] = CutFrame(run[i - 1], input)
  <2>1. i \in 0..n /\ i # 0
    BY <1>1
  <2>2. run[i] = F(run)[i]
    BY <1>8
  <2> QED
    BY <2>1, <2>2
<1> HIDE DEF F
<1>11. IsRun(run, S, start, step, n)
  BY <1>1, <1>3, <1>4, <1>5, <1>9, <1>10, RunTyped
<1>12. CutRun(run, p, input)
  BY <1>10, <1>11 DEF CutRun, IsRun, n, start, S
<1> QED
  BY <1>2, <1>12 DEF n

\* A chunk of at least one byte uses the input up, and what pack makes of it are
\* frames whose payloads are the input.
LEMMA PackMakesFrames ==
    ASSUME DrawsNumbers, NEW p \in PaddingProcs, NEW input \in Bytes
    PROVE  LET r == apply_pack(p, input)
           IN  \/ p.arg.chunk = 0 /\ r = Hangs(p)
               \/ /\ r.status = "ok" /\ r.p \in PaddingProcs
                  /\ r.p = [p EXCEPT !.pack = r.p.pack]
                  /\ \E ps : Frames(r.out, ps) /\ Flat(ps) = input
<1> DEFINE n == Len(input)
           r == apply_pack(p, input)
<1>1. PICK f : /\ CutRun(f, p, input)
               /\ r = LET end == f[n]
                      IN  IF end.pos < n THEN Hangs(p) ELSE Returns(end.p, end.out)
  BY CutRuns
<1>2. n \in Nat /\ p.arg.chunk \in Nat /\ input \in Seq(Byte)
  BY U32Typed DEF Bytes, PaddingProcs, PadArgs
<1>3. \A i \in 0..n : f[i] \in CutSoFar(p, input) /\ f[i].pos \in 0..n
  BY <1>1 DEF CutRun, CutSoFar
<1> HIDE DEF r
<1>4. ASSUME p.arg.chunk > 0 PROVE f[n].pos = n
  <2> DEFINE T == {i \in 0..n : f[i].pos = n \/ f[i].pos >= i}
  <2>1. 0 \in T
    BY <1>2, <1>3
  <2>2. ASSUME NEW i \in 0..(n - 1), i \in T
        PROVE  i + 1 \in T
    <3>1. i + 1 \in 1..n /\ (i + 1) - 1 = i /\ i \in 0..n /\ i + 1 \in 0..n
      BY <1>2
    <3>2. f[i + 1] = CutFrame(f[i], input)
      BY <1>1, <3>1 DEF CutRun
    <3>3. f[i + 1].pos = n \/ f[i + 1].pos > f[i].pos
      BY <1>3, <1>4, <3>1, <3>2, CutFrameCuts
    <3>4. f[i].pos \in 0..n /\ f[i + 1].pos \in 0..n
      BY <1>3, <3>1
    <3> DEFINE a == f[i].pos
               b == f[i + 1].pos
    <3>5. a = n \/ a >= i
      BY <2>2
    <3>6. b = n \/ b >= i + 1
      <4>1. b = n \/ b > a
        BY <3>3
      <4>2. a \in 0..n /\ b \in 0..n /\ i \in 0..(n - 1)
        BY <3>4
      <4> HIDE DEF a, b, n
      <4> QED
        BY <1>2, <3>5, <4>1, <4>2
    <3> QED
      BY <3>1, <3>6
  <2>3. n \in T
    <3> HIDE DEF T
    <3>1. 0..n \subseteq T
      BY <1>2, <2>1, <2>2, UpTo
    <3> QED
      BY <1>2, <3>1
  <2>4. f[n].pos \in 0..n
    BY <1>2, <1>3
  <2> QED
    BY <1>2, <2>3, <2>4
<1> DEFINE end == f[n]
<1>5. end \in CutSoFar(p, input) /\ end.pos \in 0..n
  BY <1>2, <1>3
<1>6. r = IF end.pos < n THEN Hangs(p) ELSE Returns(end.p, end.out)
  BY <1>1
<1>7. p.arg.chunk > 0 => end.pos = n
  BY <1>4
<1> HIDE DEF end
<1>8. CASE end.pos < n
  <2>1. r = Hangs(p)
    BY <1>6, <1>8
  <2>2. end.pos # n
    BY <1>2, <1>5, <1>8
  <2>3. p.arg.chunk = 0
    BY <1>2, <1>7, <2>2
  <2> QED
    BY <2>1, <2>3 DEF r
<1>9. CASE ~(end.pos < n)
  <2>1. end.pos = n
    BY <1>2, <1>5, <1>9
  <2>2. PICK ps : Frames(end.out, ps) /\ Flat(ps) = SubSeq(input, 1, n)
    BY <1>5, <2>1 DEF CutSoFar
  <2>3. SubSeq(input, 1, n) = input
    BY <1>2
  <2>4. end.p \in PaddingProcs /\ end.p = [p EXCEPT !.pack = end.p.pack]
    BY <1>5 DEF CutSoFar, CutStates
  <2>5. r.status = "ok" /\ r.p = end.p /\ r.out = end.out
    BY <1>6, <1>9 DEF Returns
  <2> QED
    BY <2>2, <2>3, <2>4, <2>5 DEF r
<1> QED
  BY <1>8, <1>9 DEF r

-----------------------------------------------------------------------------
(* The two ends of padding. *)

LEMMA FramesTail ==
    ASSUME NEW fs, NEW ps, Frames(fs, ps), fs # <<>>
    PROVE  ps # <<>> /\ IsFrame(Head(fs), Head(ps)) /\ Frames(Tail(fs), Tail(ps))
<1> DEFINE n == Len(fs)
           a == Tail(fs)
           b == Tail(ps)
<1>1. /\ fs \in Seq(Bytes) /\ ps \in Seq(Bytes) /\ Len(ps) = n
      /\ \A i \in 1..n : IsFrame(fs[i], ps[i])
  BY DEF Frames, SameLen
<1>2. n \in Nat /\ n > 0 /\ ps # <<>> /\ Head(fs) = fs[1] /\ Head(ps) = ps[1]
  BY <1>1
<1>3. a \in Seq(Bytes) /\ Len(a) = n - 1 /\ \A i \in 1..(n - 1) : a[i] = fs[i + 1]
  BY <1>1, <1>2
<1>4. b \in Seq(Bytes) /\ Len(b) = n - 1 /\ \A i \in 1..(n - 1) : b[i] = ps[i + 1]
  BY <1>1, <1>2
<1> HIDE DEF a, b, n
<1>5. \A i \in 1..(n - 1) : i + 1 \in 1..n
  BY <1>2
<1>6. Frames(a, b)
  BY <1>1, <1>3, <1>4, <1>5 DEF Frames, SameLen
<1>7. IsFrame(Head(fs), Head(ps))
  BY <1>1, <1>2
<1> QED
  BY <1>2, <1>6, <1>7 DEF a, b

\* The other end has buffer, w is on its way to it and u is what it has not
\* given back yet: the two are the same frames, the first of them incomplete.
PadLink(buffer, w, u) ==
    \E fs, ps : /\ Frames(fs, ps)
                /\ buffer \o w = Flat(fs) /\ u = Flat(ps)
                /\ fs # <<>> => Len(buffer) < Len(fs[1])

LEMMA PadLinkStart == PadLink(<<>>, <<>>, <<>>)
<1>1. Frames(<<>>, <<>>)
  BY DEF Frames, SameLen
<1>2. <<>> \o <<>> = <<>>
  BY ConcatEmpty
<1> QED
  BY <1>1, <1>2, FlatEmpty DEF PadLink

\* Nothing is held back.
LEMMA PadLinkDelivers ==
    ASSUME NEW buffer \in Bytes, NEW u, PadLink(buffer, <<>>, u)
    PROVE  u = <<>>
<1>1. PICK fs, ps : /\ Frames(fs, ps)
                    /\ buffer \o <<>> = Flat(fs) /\ u = Flat(ps)
                    /\ fs # <<>> => Len(buffer) < Len(fs[1])
  BY DEF PadLink
<1>2. buffer = Flat(fs)
  BY <1>1, ConcatEmpty DEF Bytes
<1>3. ASSUME fs # <<>> PROVE FALSE
  <2>1. Flat(fs) = Head(fs) \o Flat(Tail(fs)) /\ Head(fs) \in Bytes /\ Tail(fs) \in Seq(Bytes)
    BY <1>1, <1>3, FlatHead DEF Frames
  <2>2. Flat(Tail(fs)) \in Bytes
    BY <2>1, FlatTyped
  <2> DEFINE a == Head(fs)
             b == Flat(Tail(fs))
  <2>3. a = fs[1]
    BY <1>1 DEF Frames
  <2>4. a \in Seq(Byte) /\ b \in Seq(Byte) /\ buffer = a \o b
    BY <1>2, <2>1, <2>2 DEF Bytes
  <2> HIDE DEF a, b
  <2>5. Len(buffer) = Len(a) + Len(b) /\ Len(a) \in Nat /\ Len(b) \in Nat
    BY ONLY <2>4, ConcatTyped
  <2>6. ~(Len(buffer) < Len(a))
    BY ONLY <2>5
  <2> QED
    BY <1>1, <1>3, <2>3, <2>6
<1>4. ps = <<>>
  BY <1>1, <1>3 DEF Frames, SameLen
<1> QED
  BY <1>1, <1>4, FlatEmpty

LEMMA PadLinkPacks ==
    ASSUME DrawsNumbers, NEW buffer \in Bytes, NEW w \in Bytes, NEW u \in Bytes,
           PadLink(buffer, w, u),
           NEW p \in PaddingProcs, NEW input \in Bytes, apply_pack(p, input).status = "ok"
    PROVE  LET r == apply_pack(p, input)
           IN  /\ r.out \in Seq(Bytes)
               /\ PadLink(buffer, w \o Flat(r.out), u \o input)
<1> DEFINE out == apply_pack(p, input).out
<1>1. PICK fs, ps : /\ Frames(fs, ps)
                    /\ buffer \o w = Flat(fs) /\ u = Flat(ps)
                    /\ fs # <<>> => Len(buffer) < Len(fs[1])
  BY DEF PadLink
<1>2. PICK qs : Frames(out, qs) /\ Flat(qs) = input
  <2>1. Hangs(p).status # "ok"
    BY DEF Hangs
  <2> QED
    BY <2>1, PackMakesFrames
<1> HIDE DEF out
<1>3. /\ fs \in Seq(Bytes) /\ ps \in Seq(Bytes) /\ out \in Seq(Bytes) /\ qs \in Seq(Bytes)
      /\ Flat(fs) \in Seq(Byte) /\ Flat(out) \in Seq(Byte)
  BY <1>1, <1>2, FlatTyped DEF Frames, Bytes
<1> DEFINE all == fs \o out
<1>4. Frames(all, ps \o qs)
  BY <1>1, <1>2, FramesConcat
<1>5. Flat(all) = Flat(fs) \o Flat(out) /\ Flat(ps \o qs) = u \o input
  BY <1>1, <1>2, <1>3, FlatConcat
<1>6. buffer \o (w \o Flat(out)) = Flat(all)
  <2>1. (buffer \o w) \o Flat(out) = buffer \o (w \o Flat(out))
    <3> DEFINE b == Flat(out)
    <3>1. buffer \in Seq(Byte) /\ w \in Seq(Byte) /\ b \in Seq(Byte)
      BY <1>3 DEF Bytes
    <3> HIDE DEF b
    <3>2. (buffer \o w) \o b = buffer \o (w \o b)
      <4>1. Associates(buffer, w, b)
        BY ONLY <3>1, ConcatAssociates
      <4> QED
        BY <4>1 DEF Associates
    <3> QED
      BY <3>2 DEF b
  <2> QED
    BY <1>1, <1>5, <2>1
<1>7. ASSUME all # <<>> PROVE Len(buffer) < Len(all[1])
  <2>1. CASE fs # <<>>
    <3>1. all[1] = fs[1]
      BY <1>3, <2>1
    <3> QED
      BY <1>1, <2>1, <3>1
  <2>2. CASE fs = <<>>
    <3>1. all = out
      BY <1>3, <2>2, ConcatEmpty
    <3>2. Len(buffer) = 0
      <4>1. buffer \o w = <<>> /\ buffer \in Seq(Byte) /\ w \in Seq(Byte)
        BY <1>1, <2>2, FlatEmpty DEF Bytes
      <4>2. Len(buffer \o w) = Len(buffer) + Len(w) /\ Len(buffer) \in Nat /\ Len(w) \in Nat
        BY ONLY <4>1, ConcatTyped
      <4>3. Len(buffer \o w) = 0
        BY <4>1
      <4> QED
        BY ONLY <4>2, <4>3
    <3>3. IsFrame(out[1], qs[1])
      <4>1. 1 \in 1..Len(qs)
        BY <1>2, <1>3, <1>7, <3>1 DEF Frames, SameLen
      <4> QED
        BY <1>2, <4>1 DEF Frames
    <3> DEFINE frame == out[1]
    <3>4. HeaderLen <= Len(frame) /\ frame \in Seq(Byte) /\ HeaderLen \in Nat \ {0}
      BY <3>3, U32Typed DEF IsFrame, Bytes
    <3> HIDE DEF frame
    <3>5. 0 < Len(frame)
      BY ONLY <3>4
    <3> QED
      BY <3>1, <3>2, <3>5 DEF frame
  <2> QED
    BY <2>1, <2>2
<1> HIDE DEF all
<1>8. PadLink(buffer, w \o Flat(out), u \o input)
  BY <1>4, <1>5, <1>6, <1>7 DEF PadLink
<1> QED
  BY <1>3, <1>8 DEF out

\* A header is what the first HeaderLen bytes say.
LEMMA HeaderFirst ==
    ASSUME NEW s \in Bytes, NEW t \in Bytes, Begins(t, s), HeaderLen <= Len(s)
    PROVE  PayloadLen(t) = PayloadLen(s) /\ PadLen(t) = PadLen(s)
<1>1. /\ s \in Seq(Byte) /\ t \in Seq(Byte) /\ Len(s) \in Nat /\ Len(t) \in Nat
      /\ Len(s) <= Len(t) /\ \A i \in 1..Len(s) : t[i] = s[i]
  BY DEF Bytes, Begins
<1>2. U32Size \in Nat \ {0} /\ HeaderLen \in Nat /\ HeaderLen = U32Size + U32Size
  BY U32Typed
<1>3. U32Size <= Len(s) /\ U32Size <= Len(t) /\ HeaderLen <= Len(t)
  BY <1>1, <1>2
<1>4. SubSeq(t, 1, U32Size) = SubSeq(s, 1, U32Size)
  <2> DEFINE a == SubSeq(t, 1, U32Size)
             b == SubSeq(s, 1, U32Size)
  <2>1. /\ a \in Seq(Byte) /\ Len(a) = U32Size /\ \A i \in 1..U32Size : a[i] = t[i]
        /\ b \in Seq(Byte) /\ Len(b) = U32Size /\ \A i \in 1..U32Size : b[i] = s[i]
    BY <1>1, <1>2, <1>3
  <2>2. \A i \in 1..U32Size : i \in 1..Len(s)
    BY <1>1, <1>2, <1>3
  <2> HIDE DEF a, b
  <2>3. a = b
    BY <1>1, <2>1, <2>2, SeqEqual
  <2> QED
    BY <2>3 DEF a, b
<1>5. SubSeq(t, U32Size + 1, HeaderLen) = SubSeq(s, U32Size + 1, HeaderLen)
  <2> DEFINE a == SubSeq(t, U32Size + 1, HeaderLen)
             b == SubSeq(s, U32Size + 1, HeaderLen)
  <2>1. U32Size + 1 \in 1..(HeaderLen + 1) /\ HeaderLen - (U32Size + 1) + 1 = U32Size
    BY <1>2
  <2>2. /\ a \in Seq(Byte) /\ Len(a) = U32Size /\ \A i \in 1..U32Size : a[i] = t[U32Size + i]
    BY <1>1, <1>2, <1>3, <2>1
  <2>3. /\ b \in Seq(Byte) /\ Len(b) = U32Size /\ \A i \in 1..U32Size : b[i] = s[U32Size + i]
    BY <1>1, <1>2, <1>3, <2>1
  <2>4. \A i \in 1..U32Size : U32Size + i \in 1..Len(s)
    BY <1>1, <1>2, <1>3
  <2> HIDE DEF a, b
  <2>5. a = b
    BY <1>1, <2>2, <2>3, <2>4, SeqEqual
  <2> QED
    BY <2>5 DEF a, b
<1> QED
  BY <1>4, <1>5 DEF PayloadLen, PadLen

Joins(t, a, b) == t = a \o b

\* Two beginnings of a stream of which the first is a complete frame: the
\* lengths in the header tell its end.
LEMMA FrameInFront ==
    ASSUME NEW acc \in Bytes, NEW rest \in Bytes, NEW frame, NEW payload, NEW more \in Bytes,
           IsFrame(frame, payload), NEW t, Joins(t, acc, rest), Joins(t, frame, more),
           HeaderLen <= Len(acc)
    PROVE  /\ PayloadLen(acc) = Len(payload)
           /\ HeaderLen + PayloadLen(acc) + PadLen(acc) = Len(frame)
           /\ Len(frame) <= Len(acc) =>
                 /\ SubSeq(acc, HeaderLen + 1, HeaderLen + Len(payload)) = payload
                 /\ After(acc, Len(frame)) \in Bytes
                 /\ After(acc, Len(frame)) \o rest = more
<1>1. /\ acc \in Seq(Byte) /\ rest \in Seq(Byte) /\ frame \in Seq(Byte) /\ more \in Seq(Byte)
      /\ payload \in Seq(Byte)
  BY DEF IsFrame, Bytes
<1>2. t \in Seq(Byte) /\ Begins(t, acc) /\ Begins(t, frame)
  <2>1. Begins(acc \o rest, acc) /\ acc \o rest \in Seq(Byte)
    BY ONLY <1>1, BeginsConcat
  <2>2. Begins(frame \o more, frame)
    BY ONLY <1>1, BeginsConcat
  <2> QED
    BY <2>1, <2>2 DEF Joins
<1>3. PayloadLen(acc) = Len(payload) /\ PadLen(acc) = PadLen(frame)
  <2>1. PayloadLen(t) = PayloadLen(acc) /\ PadLen(t) = PadLen(acc)
    BY <1>1, <1>2, HeaderFirst DEF Bytes
  <2>2. PayloadLen(t) = PayloadLen(frame) /\ PadLen(t) = PadLen(frame)
    <3>1. HeaderLen <= Len(frame)
      BY DEF IsFrame
    <3> QED
      BY <1>1, <1>2, <3>1, HeaderFirst DEF Bytes
  <2> QED
    BY <2>1, <2>2 DEF IsFrame
<1>4. HeaderLen + PayloadLen(acc) + PadLen(acc) = Len(frame)
  BY <1>3 DEF IsFrame
<1>5. ASSUME Len(frame) <= Len(acc)
      PROVE  /\ SubSeq(acc, HeaderLen + 1, HeaderLen + Len(payload)) = payload
             /\ After(acc, Len(frame)) \in Seq(Byte)
             /\ After(acc, Len(frame)) \o rest = more
  <2> DEFINE k == Len(frame)
             l == Len(payload)
             c == After(acc, k)
             d == c \o rest
  <2>1. Begins(acc, frame)
    BY <1>1, <1>2, <1>5, BeginsBoth
  <2>2. k \in 0..Len(acc) /\ c \in Seq(Byte) /\ acc = frame \o c
    BY <1>1, <2>1, BeginsRest
  <2> HIDE DEF c
  <2>3. d = more
    <3>1. frame \in Seq(Byte) /\ c \in Seq(Byte) /\ rest \in Seq(Byte)
      BY <1>1, <2>2
    <3>2. (frame \o c) \o rest = frame \o (c \o rest)
      <4>1. Associates(frame, c, rest)
        BY ONLY <3>1, ConcatAssociates
      <4> QED
        BY <4>1 DEF Associates
    <3>3. d \in Seq(Byte)
      BY ONLY <1>1, <3>1
    <3>4. frame \o d = (frame \o c) \o rest
      BY <3>2
    <3> HIDE DEF d
    <3>5. frame \o d = frame \o more
      BY <2>2, <3>4 DEF Joins
    <3> QED
      BY ONLY <1>1, <3>3, <3>5, ConcatCancel
  <2>4. SubSeq(acc, HeaderLen + 1, HeaderLen + l) = payload
    <3> DEFINE a == SubSeq(acc, HeaderLen + 1, HeaderLen + l)
               b == SubSeq(frame, HeaderLen + 1, HeaderLen + l)
    <3>1. /\ k \in Nat /\ Len(acc) \in Nat /\ k <= Len(acc) /\ l \in Nat /\ HeaderLen \in Nat
          /\ \A i \in 1..k : acc[i] = frame[i]
      BY <1>1, <1>5, <2>1, U32Typed DEF Begins
    <3>2. PadLen(frame) \in Nat /\ k = HeaderLen + l + PadLen(frame) /\ b = payload
      BY <1>3, HeaderTyped DEF IsFrame
    <3>0. Len(frame) = k
      OBVIOUS
    <3> HIDE DEF k, l
    <3>3. HeaderLen + l <= k /\ HeaderLen + l <= Len(acc)
      BY ONLY <3>1, <3>2
    <3>4. /\ a \in Seq(Byte) /\ Len(a) = l /\ \A i \in 1..l : a[i] = acc[HeaderLen + i]
      BY ONLY <1>1, <3>1, <3>3
    <3>5. /\ b \in Seq(Byte) /\ Len(b) = l /\ \A i \in 1..l : b[i] = frame[HeaderLen + i]
      BY ONLY <1>1, <3>0, <3>1, <3>3
    <3>6. \A i \in 1..l : HeaderLen + i \in 1..k
      BY ONLY <3>1, <3>3
    <3> HIDE DEF a, b
    <3>7. a = b
      BY <3>1, <3>4, <3>5, <3>6, SeqEqual
    <3> QED
      BY <3>2, <3>7 DEF a, b
  <2> QED
    BY <2>2, <2>3, <2>4 DEF c
<1> QED
  BY <1>3, <1>4, <1>5 DEF Bytes

\* In the loop: the frames that are in the accumulator and on the way, and
\* what was given and is still to be given.
Pending(r, rest, u) ==
    \E fs, ps : /\ Frames(fs, ps)
                /\ r.p.buffer \o rest = Flat(fs)
                /\ u = Flat(r.out) \o Flat(ps)

LEMMA TakeFramePending ==
    ASSUME NEW r \in PadResults, r.status = "ok", NEW rest \in Bytes, NEW u \in Bytes,
           Pending(r, rest, u), TakeFrame(r).status = "ok"
    PROVE  Pending(TakeFrame(r), rest, u)
<1> DEFINE acc == r.p.buffer
           payload_len == PayloadLen(acc)
           frame_len == HeaderLen + payload_len + PadLen(acc)
           left == SubSeq(acc, frame_len + 1, Len(acc))
           found == SubSeq(acc, HeaderLen + 1, HeaderLen + payload_len)
           taken == Returns([r.p EXCEPT !.buffer = left], Append(r.out, found))
<1>1. r.p \in PaddingProcs /\ acc \in Bytes /\ r.out \in Seq(Bytes)
  BY DEF PadResults, PaddingProcs
<1>2. Throws(r.p).status # "ok"
  BY DEF Throws
<1> HIDE DEF taken
<1>3. \/ TakeFrame(r) = r
      \/ HeaderLen <= Len(acc) /\ frame_len <= Len(acc) /\ TakeFrame(r) = taken
  BY <1>2, TakeFrameCases DEF taken
<1>4. taken.p.buffer = left /\ taken.out = Append(r.out, found)
  BY <1>1 DEF taken, Returns, PaddingProcs
<1> HIDE DEF frame_len, found, left
<1>5. ASSUME HeaderLen <= Len(acc), frame_len <= Len(acc), TakeFrame(r) = taken
      PROVE  Pending(taken, rest, u)
  <2>1. PICK fs, ps : /\ Frames(fs, ps)
                      /\ acc \o rest = Flat(fs) /\ u = Flat(r.out) \o Flat(ps)
    BY DEF Pending
  <2> HIDE DEF acc
  <2>2. fs # <<>>
    <3> SUFFICES ASSUME fs = <<>> PROVE FALSE
      OBVIOUS
    <3>1. acc \o rest = <<>> /\ acc \in Seq(Byte) /\ rest \in Seq(Byte)
      BY <1>1, <2>1, FlatEmpty DEF Bytes
    <3>2. Len(acc \o rest) = Len(acc) + Len(rest) /\ Len(acc) \in Nat /\ Len(rest) \in Nat
      BY ONLY <3>1, ConcatTyped
    <3>3. Len(acc \o rest) = 0 /\ HeaderLen \in Nat \ {0}
      BY <3>1, U32Typed
    <3> QED
      BY ONLY <1>5, <3>2, <3>3
  <2> DEFINE frame == Head(fs)
             payload == Head(ps)
             more == Flat(Tail(fs))
             owed == Flat(Tail(ps))
  <2>3. ps # <<>> /\ IsFrame(frame, payload) /\ Frames(Tail(fs), Tail(ps))
    BY <2>1, <2>2, FramesTail
  <2>4. /\ Flat(fs) = frame \o more /\ Flat(ps) = payload \o owed
        /\ more \in Bytes /\ owed \in Bytes
    BY <2>1, <2>2, <2>3, FlatHead, FlatTyped DEF Frames
  <2> HIDE DEF frame, payload, more, owed
  <2>5. found = payload /\ left \in Bytes /\ left \o rest = more
    <3> DEFINE t == Flat(fs)
    <3>1. Joins(t, acc, rest) /\ Joins(t, frame, more)
      BY <2>1, <2>4 DEF Joins
    <3> HIDE DEF t
    <3>2. /\ payload_len = Len(payload) /\ frame_len = Len(frame)
          /\ SubSeq(acc, HeaderLen + 1, HeaderLen + Len(payload)) = payload
          /\ After(acc, Len(frame)) \in Bytes
          /\ After(acc, Len(frame)) \o rest = more
      BY <1>1, <1>5, <2>3, <2>4, <3>1, FrameInFront DEF frame_len
    <3> QED
      BY <3>2 DEF found, left, After
  <2>6. u = Flat(Append(r.out, found)) \o owed
    <3> DEFINE o == Flat(r.out)
    <3>1. Flat(Append(r.out, found)) = o \o found
      BY <1>1, <2>3, <2>5, FlatAppend DEF IsFrame
    <3>2. o \in Seq(Byte) /\ payload \in Seq(Byte) /\ owed \in Seq(Byte)
      BY <1>1, <2>3, <2>4, FlatTyped DEF IsFrame, Bytes
    <3>3. u = o \o (payload \o owed)
      BY <2>1, <2>4
    <3> HIDE DEF o
    <3>4. o \o (payload \o owed) = (o \o payload) \o owed
      BY ONLY <3>2, ConcatAssoc
    <3> QED
      BY <2>5, <3>1, <3>3, <3>4
  <2> QED
    BY <1>4, <2>3, <2>5, <2>6 DEF Pending, more, owed
<1> QED
  BY <1>3, <1>5

\* Unpacking what is next on the wire gives what is next of the source.
LEMMA PadLinkUnpacks ==
    ASSUME NEW p \in PaddingProcs, NEW input \in Bytes, NEW rest \in Bytes, NEW u \in Bytes,
           PadLink(p.buffer, input \o rest, u), apply_unpack(p, input).status = "ok"
    PROVE  LET r == apply_unpack(p, input)
           IN  /\ r.out \in Seq(Bytes)
               /\ \E v \in Bytes : u = Flat(r.out) \o v /\ PadLink(r.p.buffer, rest, v)
<1> DEFINE acc == p.buffer \o input
           n == Len(acc)
<1>0. p.buffer \in Seq(Byte) /\ input \in Seq(Byte) /\ rest \in Seq(Byte)
  BY DEF PaddingProcs, Bytes
<1>1. acc \in Bytes /\ \E f : UnpackRun(f, p, acc) /\ apply_unpack(p, input) = f[n]
  BY UnpackRuns
<1>2. acc \o rest = p.buffer \o (input \o rest)
  <2> DEFINE b == p.buffer
  <2>1. b \in Seq(Byte)
    BY <1>0
  <2> HIDE DEF b
  <2>2. (b \o input) \o rest = b \o (input \o rest)
    <3>1. Associates(b, input, rest)
      BY ONLY <1>0, <2>1, ConcatAssociates
    <3> QED
      BY <3>1 DEF Associates
  <2> QED
    BY <2>2 DEF b
<1> HIDE DEF acc, n
<1>3. PICK f : UnpackRun(f, p, acc) /\ apply_unpack(p, input) = f[n]
  BY <1>1
<1>4. n \in Nat
  BY <1>1 DEF Bytes, n
<1>5. /\ \A i \in 0..n : f[i] \in PadResults
      /\ f[0] = Returns([p EXCEPT !.buffer = acc], <<>>)
      /\ \A i \in 1..n : f[i] = TakeFrame(f[i - 1])
  BY <1>3 DEF UnpackRun, n
<1> DEFINE T == {i \in 0..n : f[i].status = "ok" => Pending(f[i], rest, u)}
<1>6. 0 \in T
  <2>1. f[0].p.buffer = acc /\ f[0].out = <<>>
    BY <1>5 DEF Returns, PaddingProcs
  <2>2. PICK fs, ps : Frames(fs, ps) /\ p.buffer \o (input \o rest) = Flat(fs) /\ u = Flat(ps)
    BY DEF PadLink
  <2>3. u = Flat(<<>>) \o Flat(ps)
    BY <2>2, FlatEmpty, ConcatEmpty DEF Bytes
  <2>4. Pending(f[0], rest, u)
    BY <1>2, <2>1, <2>2, <2>3 DEF Pending
  <2> QED
    BY <1>4, <2>4
<1>7. ASSUME NEW i \in 0..(n - 1), i \in T
      PROVE  i + 1 \in T
  <2>1. i + 1 \in 1..n /\ i + 1 \in 0..n /\ i \in 0..n /\ (i + 1) - 1 = i
    BY <1>4
  <2> DEFINE r == f[i]
  <2>2. f[i + 1] = TakeFrame(r) /\ r \in PadResults /\ (r.status = "ok" => Pending(r, rest, u))
    BY <1>5, <1>7, <2>1
  <2> HIDE DEF r
  <2>3. r.status # "ok" => TakeFrame(r) = r
    BY DEF TakeFrame
  <2>4. TakeFrame(r).status = "ok" => Pending(TakeFrame(r), rest, u)
    BY <2>2, <2>3, TakeFramePending
  <2> QED
    BY <2>1, <2>2, <2>4
<1>8. n \in T
  <2> HIDE DEF T
  <2>1. 0..n \subseteq T
    BY <1>4, <1>6, <1>7, UpTo
  <2> QED
    BY <1>4, <2>1
<1> DEFINE r == apply_unpack(p, input)
<1>9. r.status = "ok" /\ Pending(r, rest, u)
  BY <1>3, <1>8
<1>10. r \in PadResults /\ Waits(r)
  BY <1>9, UnpackSettles
<1> HIDE DEF r
<1>11. PICK fs, ps : /\ Frames(fs, ps)
                     /\ r.p.buffer \o rest = Flat(fs) /\ u = Flat(r.out) \o Flat(ps)
  BY <1>9 DEF Pending
<1>12. Flat(ps) \in Bytes /\ r.out \in Seq(Bytes) /\ r.p.buffer \in Bytes
  BY <1>10, <1>11, FlatTyped DEF Frames, PadResults, PaddingProcs
<1>13. ASSUME fs # <<>> PROVE Len(r.p.buffer) < Len(fs[1])
  <2> DEFINE frame == Head(fs)
             payload == Head(ps)
             more == Flat(Tail(fs))
             b == r.p.buffer
  <2>1. IsFrame(frame, payload) /\ Flat(fs) = frame \o more /\ more \in Bytes /\ frame = fs[1]
    <3>1. IsFrame(frame, payload) /\ fs \in Seq(Bytes)
      BY <1>11, <1>13, FramesTail DEF Frames
    <3>2. Flat(fs) = frame \o more /\ Tail(fs) \in Seq(Bytes)
      BY <1>13, <3>1, FlatHead
    <3>3. more \in Bytes
      BY <3>2, FlatTyped
    <3>4. frame = fs[1]
      BY <3>1
    <3> QED
      BY <3>1, <3>2, <3>3, <3>4
  <2>2. b \in Bytes /\ b \o rest = frame \o more
    BY <1>11, <1>12, <2>1
  <2>3. Len(b) < HeaderLen \/ Len(b) < HeaderLen + PayloadLen(b) + PadLen(b)
    BY <1>10 DEF Waits
  <2> HIDE DEF frame, payload, more, b
  <2>4. HeaderLen <= Len(b) => HeaderLen + PayloadLen(b) + PadLen(b) = Len(frame)
    <3> DEFINE t == b \o rest
    <3>1. Joins(t, b, rest) /\ Joins(t, frame, more)
      BY <2>2 DEF Joins
    <3> HIDE DEF t
    <3> QED
      BY <2>1, <2>2, <3>1, FrameInFront
  <2>5. HeaderLen <= Len(frame) /\ Len(b) \in Nat /\ Len(frame) \in Nat /\ HeaderLen \in Nat
    <3>1. frame \in Seq(Byte) /\ b \in Seq(Byte) /\ HeaderLen <= Len(frame)
      BY <2>1, <2>2 DEF IsFrame, Bytes
    <3> QED
      BY ONLY <3>1, U32Typed
  <2>6. Len(b) < Len(frame)
    <3>1. CASE Len(b) < HeaderLen
      BY ONLY <2>5, <3>1
    <3>2. CASE HeaderLen <= Len(b)
      BY <2>3, <2>4, <2>5, <3>2
    <3> QED
      BY <2>5, <3>1, <3>2
  <2> QED
    BY <2>1, <2>6 DEF b
<1>14. PadLink(r.p.buffer, rest, Flat(ps))
  BY <1>11, <1>13 DEF PadLink
<1> QED
  BY <1>11, <1>12, <1>14 DEF r

-----------------------------------------------------------------------------
(* The two ends of the cipher, by what is on its way. *)

CipherHistory(pk, uk, w, u, iv, src, wire, seen, given) ==
    /\ iv \in Bytes /\ iv # <<>> /\ src \in Bytes /\ seen \in Bytes
    /\ CipherPeer(iv, pk, uk, src, wire, seen, given)
    /\ Joins(wire, seen, w) /\ Joins(src, given, u)

CipherLink(pk, uk, w, u) ==
    \E iv, src, wire, seen, given : CipherHistory(pk, uk, w, u, iv, src, wire, seen, given)

LEMMA CipherHistoryTyped ==
    ASSUME NEW pk, NEW uk, NEW w, NEW u, NEW iv, NEW src, NEW wire, NEW seen, NEW given,
           CipherHistory(pk, uk, w, u, iv, src, wire, seen, given)
    PROVE  /\ pk \in IdleKeys /\ uk \in IdleKeys
           /\ src \in Bytes /\ wire \in Bytes /\ seen \in Bytes /\ given \in Bytes
<1>1. /\ iv \in Bytes /\ iv # <<>> /\ src \in Bytes /\ seen \in Bytes
      /\ CipherPeer(iv, pk, uk, src, wire, seen, given)
  BY DEF CipherHistory
<1>2. PICK K : CipherKeys(K, iv, pk, uk, src, wire, seen, given)
  BY <1>1 DEF CipherPeer
<1> QED
  BY <1>1, <1>2, CipherTyped DEF IdleKeys

LEMMA CipherLinkTyped ==
    ASSUME NEW pk, NEW uk, NEW w, NEW u, CipherLink(pk, uk, w, u)
    PROVE  pk \in IdleKeys /\ uk \in IdleKeys
BY CipherHistoryTyped DEF CipherLink

LEMMA CipherLinkStart ==
    ASSUME NEW iv \in Bytes, iv # <<>>
    PROVE  CipherLink(Key(iv), Key(iv), <<>>, <<>>)
<1>1. CipherPeer(iv, Key(iv), Key(iv), <<>>, <<>>, <<>>, <<>>)
  BY CipherStart
<1>2. Joins(<<>>, <<>>, <<>>) /\ <<>> \in Bytes
  BY ConcatEmpty DEF Joins, Bytes
<1>3. CipherHistory(Key(iv), Key(iv), <<>>, <<>>, iv, <<>>, <<>>, <<>>, <<>>)
  BY <1>1, <1>2 DEF CipherHistory
<1> QED
  BY <1>3 DEF CipherLink

LEMMA JoinsMore ==
    ASSUME NEW t, NEW a \in Bytes, NEW b \in Bytes, NEW c \in Bytes, Joins(t, a, b)
    PROVE  Joins(t \o c, a, b \o c)
<1>1. a \in Seq(Byte) /\ b \in Seq(Byte) /\ c \in Seq(Byte)
  BY DEF Bytes
<1>2. (a \o b) \o c = a \o (b \o c)
  <2>1. Associates(a, b, c)
    BY ONLY <1>1, ConcatAssociates
  <2> QED
    BY <2>1 DEF Associates
<1> QED
  BY <1>2 DEF Joins

LEMMA JoinsLess ==
    ASSUME NEW t, NEW a \in Bytes, NEW b \in Bytes, NEW c \in Bytes, Joins(t, a, b \o c)
    PROVE  Joins(t, a \o b, c)
<1>1. a \in Seq(Byte) /\ b \in Seq(Byte) /\ c \in Seq(Byte)
  BY DEF Bytes
<1>2. (a \o b) \o c = a \o (b \o c)
  <2>1. Associates(a, b, c)
    BY ONLY <1>1, ConcatAssociates
  <2> QED
    BY <2>1 DEF Associates
<1> QED
  BY <1>2 DEF Joins

\* Two ways to cut a stream behind a.
LEMMA JoinsRest ==
    ASSUME NEW t, NEW a \in Bytes, NEW b \in Bytes, NEW c \in Bytes, NEW u \in Bytes,
           Joins(t, a, u), Joins(t, a \o b, c)
    PROVE  Joins(u, b, c)
<1>1. a \in Seq(Byte) /\ b \in Seq(Byte) /\ c \in Seq(Byte)
  BY DEF Bytes
<1>2. (a \o b) \o c = a \o (b \o c)
  <2>1. Associates(a, b, c)
    BY ONLY <1>1, ConcatAssociates
  <2> QED
    BY <2>1 DEF Associates
<1> DEFINE d == b \o c
<1>3. d \in Seq(Byte)
  BY ONLY <1>1
<1>4. a \o d = a \o u
  BY <1>2 DEF Joins
<1> HIDE DEF d
<1>5. d = u
  BY <1>1, <1>3, <1>4, ConcatCancel DEF Bytes
<1> QED
  BY <1>5 DEF d, Joins

LEMMA CipherLinkPacks ==
    ASSUME NEW pk, NEW uk, NEW w \in Bytes, NEW u \in Bytes, CipherLink(pk, uk, w, u),
           NEW input \in Bytes
    PROVE  LET e == Encrypted(pk, input)
           IN  e \in Keys /\ CipherLink(Idle(e), uk, w \o e.data, u \o input)
<1> DEFINE e == Encrypted(pk, input)
           out == e.data
<1>1. PICK iv, src, wire, seen, given : CipherHistory(pk, uk, w, u, iv, src, wire, seen, given)
  BY DEF CipherLink
<1>2. /\ iv \in Bytes /\ iv # <<>> /\ src \in Bytes /\ seen \in Bytes
      /\ CipherPeer(iv, pk, uk, src, wire, seen, given)
      /\ Joins(wire, seen, w) /\ Joins(src, given, u) /\ given \in Bytes
  BY <1>1, CipherHistoryTyped DEF CipherHistory
<1>3. /\ e \in Keys
      /\ CipherPeer(iv, Idle(e), uk, src \o input, wire \o out, seen, given)
  BY <1>2, CipherPacks
<1> HIDE DEF e
<1>4. out \in Bytes
  BY <1>3 DEF Keys
<1> HIDE DEF out
<1>5. Joins(wire \o out, seen, w \o out) /\ Joins(src \o input, given, u \o input)
  BY <1>2, <1>4, JoinsMore
<1>6. src \o input \in Bytes
  BY <1>2, ConcatTyped DEF Bytes
<1>7. CipherHistory(Idle(e), uk, w \o out, u \o input, iv, src \o input, wire \o out, seen, given)
  BY <1>2, <1>3, <1>5, <1>6 DEF CipherHistory
<1>8. CipherLink(Idle(e), uk, w \o out, u \o input)
  BY <1>7 DEF CipherLink
<1> QED
  BY <1>3, <1>8 DEF out, e

LEMMA CipherLinkUnpacks ==
    ASSUME NEW pk, NEW uk, NEW input \in Bytes, NEW rest \in Bytes, NEW u \in Bytes,
           CipherLink(pk, uk, input \o rest, u)
    PROVE  LET d == Decrypted(uk, input)
           IN  /\ d \in Keys
               /\ \E v \in Bytes : Joins(u, d.data, v) /\ CipherLink(pk, Idle(d), rest, v)
<1> DEFINE d == Decrypted(uk, input)
           out == d.data
           w == input \o rest
<1>1. PICK iv, src, wire, seen, given : CipherHistory(pk, uk, w, u, iv, src, wire, seen, given)
  BY DEF CipherLink
<1>2. /\ iv \in Bytes /\ iv # <<>> /\ src \in Bytes /\ seen \in Bytes
      /\ CipherPeer(iv, pk, uk, src, wire, seen, given)
      /\ Joins(wire, seen, input \o rest) /\ Joins(src, given, u) /\ given \in Bytes
  BY <1>1, CipherHistoryTyped DEF CipherHistory
<1>3. Joins(wire, seen \o input, rest)
  BY <1>2, JoinsLess
<1>4. seen \o input \in Bytes /\ Begins(wire, seen \o input)
  <2> DEFINE a == seen \o input
  <2>1. a \in Seq(Byte) /\ rest \in Seq(Byte)
    BY <1>2, ConcatTyped DEF Bytes
  <2>2. wire = a \o rest
    BY <1>3 DEF Joins
  <2> HIDE DEF a
  <2>3. Begins(a \o rest, a)
    BY ONLY <2>1, BeginsConcat
  <2>4. a \in Bytes /\ Begins(wire, a)
    BY <2>1, <2>2, <2>3 DEF Bytes
  <2> QED
    BY <2>4 DEF a
<1>5. d \in Keys /\ CipherPeer(iv, pk, Idle(d), src, wire, seen \o input, given \o out)
  BY <1>2, <1>4, CipherUnpacks
<1> HIDE DEF d
<1>6. out \in Bytes
  BY <1>5 DEF Keys
<1> HIDE DEF out
<1> DEFINE g == given \o out
           v == After(src, Len(g))
<1>7. g \in Bytes
  BY <1>2, <1>6, ConcatTyped DEF Bytes
<1>8. CipherPeer(iv, pk, Idle(d), src, wire, seen \o input, g)
  BY <1>5
<1> HIDE DEF g
<1>9. Begins(src, g)
  <2> DEFINE a == seen \o input
  <2>1. a \in Bytes /\ CipherPeer(iv, pk, Idle(d), src, wire, a, g)
    BY <1>4, <1>8
  <2> HIDE DEF a
  <2> QED
    BY <1>2, <2>1, CipherDelivers
<1>10. v \in Bytes /\ Joins(src, g, v)
  BY <1>2, <1>7, <1>9, BeginsRest DEF Bytes, Joins
<1> HIDE DEF v
<1>11. Joins(u, out, v)
  BY <1>2, <1>6, <1>10, JoinsRest DEF g
<1>12. CipherHistory(pk, Idle(d), rest, v, iv, src, wire, seen \o input, g)
  BY <1>2, <1>3, <1>4, <1>8, <1>10 DEF CipherHistory
<1>13. CipherLink(pk, Idle(d), rest, v)
  BY <1>12 DEF CipherLink
<1> QED
  BY <1>5, <1>10, <1>11, <1>13 DEF out, d

LEMMA CipherLinkDelivers ==
    ASSUME NEW pk, NEW uk, NEW u \in Bytes, CipherLink(pk, uk, <<>>, u)
    PROVE  u = <<>>
<1>1. PICK iv, src, wire, seen, given :
        CipherHistory(pk, uk, <<>>, u, iv, src, wire, seen, given)
  BY DEF CipherLink
<1>2. /\ iv \in Bytes /\ iv # <<>> /\ src \in Bytes /\ seen \in Bytes
      /\ CipherPeer(iv, pk, uk, src, wire, seen, given)
      /\ Joins(wire, seen, <<>>) /\ Joins(src, given, u) /\ given \in Bytes
  BY <1>1, CipherHistoryTyped DEF CipherHistory
<1>3. wire = seen
  BY <1>2, ConcatEmpty DEF Joins, Bytes
<1>4. given = src
  BY <1>2, <1>3, CipherDelivers
<1>5. given \in Seq(Byte) /\ u \in Seq(Byte) /\ <<>> \in Seq(Byte)
  BY <1>2 DEF Bytes
<1>6. given \o u = given \o <<>>
  BY <1>2, <1>4, <1>5, ConcatEmpty DEF Joins
<1> QED
  BY ONLY <1>5, <1>6, ConcatCancel

-----------------------------------------------------------------------------
(* What every call promises. *)

\* The call changes nothing of the processor but the state it names.
Same(p, q) == q.kind = p.kind /\ q.reverse = p.reverse /\ q.arg = p.arg

LEMMA CipherLoopsTyped ==
    ASSUME NEW key \in Keys, NEW input \in Bytes
    PROVE  Encrypted(key, input) \in Keys /\ Decrypted(key, input) \in Keys
<1>1. Len(input) \in 0..Len(input)
  BY DEF Bytes
<1>2. Encrypted(key, input) \in Keys
  BY <1>1, EncryptRuns DEF EncryptRun
<1>3. Decrypted(key, input) \in Keys
  BY <1>1, DecryptRuns DEF DecryptRun
<1> QED
  BY <1>2, <1>3

LEMMA EncryptSound ==
    ASSUME NEW p \in CfbProcs \union NonceProcs, p.pack \in IdleKeys, NEW input \in Bytes
    PROVE  LET e == Encrypted(p.pack, input)
               r == encrypt(p, input)
           IN  /\ e \in Keys /\ r.status = "ok" /\ r.out = <<e.data>>
               /\ r.out \in Seq(Bytes) /\ Flat(r.out) = e.data
               /\ Same(p, r.p) /\ r.p.unpack = p.unpack /\ r.p.buffer = p.buffer
               /\ r.p.pack = Idle(e) /\ Idle(e) \in IdleKeys
               /\ p \in CfbProcs => r.p \in CfbProcs
               /\ p \in NonceProcs => r.p \in NonceProcs
<1> DEFINE e == Encrypted(p.pack, input)
           q == [p EXCEPT !.pack = Idle(e)]
<1>1. e \in Keys
  BY CipherLoopsTyped DEF IdleKeys
<1>2. encrypt(p, input) = Returns(q, <<e.data>>)
  BY DEF encrypt
<1> HIDE DEF e
<1>3. Idle(e) \in IdleKeys /\ e.data \in Bytes
  BY <1>1, IdleTyped DEF IdleKeys, Keys
<1>4. /\ q.kind = p.kind /\ q.reverse = p.reverse /\ q.arg = p.arg
      /\ q.unpack = p.unpack /\ q.buffer = p.buffer /\ q.pack = Idle(e)
      /\ p \in CfbProcs => q \in CfbProcs
      /\ p \in NonceProcs => q \in NonceProcs
  BY <1>3 DEF CfbProcs, NonceProcs
<1> HIDE DEF q
<1>5. <<e.data>> \in Seq(Bytes) /\ Flat(<<e.data>>) = e.data
  BY <1>3, FlatSingle
<1> QED
  BY <1>1, <1>2, <1>3, <1>4, <1>5 DEF Returns, Same, e

LEMMA DecryptSound ==
    ASSUME NEW p \in CfbProcs \union NonceProcs, p.unpack \in IdleKeys, NEW input \in Bytes
    PROVE  LET d == Decrypted(p.unpack, input)
               r == decrypt(p, input)
           IN  /\ d \in Keys /\ r.status = "ok" /\ r.out = <<d.data>>
               /\ r.out \in Seq(Bytes) /\ Flat(r.out) = d.data
               /\ Same(p, r.p) /\ r.p.pack = p.pack /\ r.p.buffer = p.buffer
               /\ r.p.unpack = Idle(d) /\ Idle(d) \in IdleKeys
               /\ p \in CfbProcs => r.p \in CfbProcs
               /\ p \in NonceProcs => r.p \in NonceProcs
<1> DEFINE d == Decrypted(p.unpack, input)
           q == [p EXCEPT !.unpack = Idle(d)]
<1>1. d \in Keys
  BY CipherLoopsTyped DEF IdleKeys
<1>2. decrypt(p, input) = Returns(q, <<d.data>>)
  BY DEF decrypt
<1> HIDE DEF d
<1>3. Idle(d) \in IdleKeys /\ d.data \in Bytes
  BY <1>1, IdleTyped DEF IdleKeys, Keys
<1>4. /\ q.kind = p.kind /\ q.reverse = p.reverse /\ q.arg = p.arg
      /\ q.pack = p.pack /\ q.buffer = p.buffer /\ q.unpack = Idle(d)
      /\ p \in CfbProcs => q \in CfbProcs
      /\ p \in NonceProcs => q \in NonceProcs
  BY <1>3 DEF CfbProcs, NonceProcs
<1> HIDE DEF q
<1>5. <<d.data>> \in Seq(Bytes) /\ Flat(<<d.data>>) = d.data
  BY <1>3, FlatSingle
<1> QED
  BY <1>1, <1>2, <1>3, <1>4, <1>5 DEF Returns, Same, d

\* A key is the one of the constructor until the handshake.
LEMMA KeyCases ==
    ASSUME NEW p \in NonceProcs
    PROVE  /\ p.pack.iv = <<>> => p.pack = Key(<<>>)
           /\ p.pack.iv # <<>> => p.pack \in IdleKeys
           /\ p.unpack.iv = <<>> => p.unpack = Key(<<>>)
           /\ p.unpack.iv # <<>> => p.unpack \in IdleKeys
<1>1. Key(<<>>).iv = <<>>
  BY DEF Key
<1>2. \A k \in IdleKeys : k.iv # <<>>
  BY DEF IdleKeys, Keys
<1>3. p.pack \in IdleKeys \union {Key(<<>>)} /\ p.unpack \in IdleKeys \union {Key(<<>>)}
  BY DEF NonceProcs
<1> QED
  BY <1>1, <1>2, <1>3

\* The sizes of a handshake.
LEMMA HandshakeTyped ==
    /\ TagSize \in Nat /\ NonceSize \in Nat /\ HandshakeSize \in Nat \ {0}
    /\ HandshakeSize = TagSize + NonceSize
    /\ \A tag \in Tags : tag \in Bytes /\ Len(tag) = TagSize
    /\ \A nonce \in Nonces : nonce \in Bytes /\ Len(nonce) = NonceSize /\ nonce # <<>>
<1>1. TagSize \in Nat \ {0} /\ NonceSize \in Nat \ {0}
  BY SizeAssumption
<1>2. \A tag \in Tags : tag \in Bytes /\ Len(tag) = TagSize
  BY <1>1 DEF Tags, Bytes
<1>3. \A nonce \in Nonces : nonce \in Bytes /\ Len(nonce) = NonceSize
  BY <1>1 DEF Nonces, Bytes
<1>4. \A nonce \in Nonces : nonce # <<>>
  <2>1. Len(<<>>) = 0
    OBVIOUS
  <2> QED
    BY <1>1, <1>3, <2>1
<1> QED
  BY <1>1, <1>2, <1>3, <1>4 DEF HandshakeSize

\* The first pack: with the key of its nonce, behind tag and nonce.
LEMMA InitPackSound ==
    ASSUME NEW p \in NonceProcs
    PROVE  LET r == init_pack(p)
               nonce == p.arg.nonce
               tag == Hmac(p.arg.hmac_key, nonce)
               iv == Sha512(nonce \o p.arg.iv)
           IN  \/ r = Throws(p)
               \/ /\ r.status = "ok" /\ r.p \in NonceProcs /\ Same(p, r.p)
                  /\ nonce \in Nonces /\ tag \in Tags /\ iv \in Bytes /\ iv # <<>>
                  /\ r.p.pack = Key(iv) /\ Key(iv) \in IdleKeys
                  /\ r.p.unpack = p.unpack /\ r.p.buffer = p.buffer
                  /\ r.out = <<tag \o nonce>> /\ r.out \in Seq(Bytes)
<1> DEFINE nonce == p.arg.nonce
           tag == Hmac(p.arg.hmac_key, nonce)
           iv == Sha512(nonce \o p.arg.iv)
           q == [p EXCEPT !.pack = Key(iv)]
           r == init_pack(p)
<1>1. CASE nonce = <<>>
  BY <1>1 DEF init_pack
<1>2. CASE nonce # <<>>
  <2>1. r = Returns(q, <<tag \o nonce>>)
    BY <1>2 DEF init_pack, derive_iv
  <2>2. nonce \in Nonces /\ p.arg \in NonceArgs
    BY <1>2 DEF NonceProcs, NonceArgs
  <2>3. tag \in Tags /\ iv \in Bytes /\ iv # <<>>
    BY <2>2 DEF NonceArgs
  <2> HIDE DEF iv, tag, nonce
  <2>4. Key(iv) \in IdleKeys
    BY <2>3, KeyTyped DEF IdleKeys
  <2>5. /\ q \in NonceProcs /\ Same(p, q)
        /\ q.pack = Key(iv) /\ q.unpack = p.unpack /\ q.buffer = p.buffer
    BY <2>4 DEF NonceProcs, Same
  <2>6. tag \o nonce \in Bytes
    BY <2>2, <2>3, HandshakeTyped, ConcatTyped DEF Bytes
  <2>7. <<tag \o nonce>> \in Seq(Bytes)
    BY <2>6
  <2> HIDE DEF q, r
  <2>8. r.status = "ok" /\ r.p = q /\ r.out = <<tag \o nonce>>
    BY <2>1 DEF Returns
  <2> QED
    BY <2>2, <2>3, <2>4, <2>5, <2>7, <2>8 DEF nonce, tag, iv, r
<1> QED
  BY <1>1, <1>2

\* What a packing step of the cipher leaves behind, with the bytes before it.
PackedWith(p, r, e, before) ==
    /\ e \in Keys /\ r.status = "ok" /\ r.p \in NonceProcs /\ Same(p, r.p)
    /\ r.p.unpack = p.unpack /\ r.p.buffer = p.buffer /\ r.p.pack = Idle(e)
    /\ r.out \in Seq(Bytes) /\ Flat(r.out) = before \o e.data

LEMMA NoncePackCases ==
    ASSUME NEW p \in NonceProcs, NEW input \in Bytes
    PROVE  LET r == CfbNoncePack(p, input)
               nonce == p.arg.nonce
               tag == Hmac(p.arg.hmac_key, nonce)
               iv == Sha512(nonce \o p.arg.iv)
           IN  \/ r = Throws(p)
               \/ /\ p.pack \in IdleKeys
                  /\ PackedWith(p, r, Encrypted(p.pack, input), <<>>)
               \/ /\ p.pack = Key(<<>>)
                  /\ nonce \in Nonces /\ tag \in Tags /\ iv \in Bytes /\ iv # <<>>
                  /\ PackedWith(p, r, Encrypted(Key(iv), input), tag \o nonce)
<1> DEFINE nonce == p.arg.nonce
           tag == Hmac(p.arg.hmac_key, nonce)
           iv == Sha512(nonce \o p.arg.iv)
           r == CfbNoncePack(p, input)
<1>1. CASE p.pack.iv # <<>>
  <2> DEFINE q == encrypt(p, input)
             e == Encrypted(p.pack, input)
  <2>1. p.pack \in IdleKeys
    BY <1>1, KeyCases
  <2>2. r = [q EXCEPT !.out = <<>> \o @]
    BY <1>1 DEF CfbNoncePack, Returns
  <2>3. /\ e \in Keys /\ q.status = "ok" /\ Same(p, q.p)
        /\ q.out \in Seq(Bytes) /\ Flat(q.out) = e.data
        /\ q.p.unpack = p.unpack /\ q.p.buffer = p.buffer
        /\ q.p.pack = Idle(e) /\ q.p \in NonceProcs
    BY <2>1, EncryptSound
  <2>4. q = [p |-> q.p, out |-> q.out, status |-> q.status]
    BY DEF encrypt, Returns
  <2> HIDE DEF q, e
  <2>5. <<>> \o q.out = q.out /\ <<>> \o e.data = e.data
    BY <2>3, ConcatEmpty DEF Keys, Bytes
  <2>6. r.p = q.p /\ r.out = q.out /\ r.status = q.status
    BY <2>2, <2>4, <2>5
  <2> HIDE DEF r
  <2>7. PackedWith(p, r, e, <<>>)
    BY <2>3, <2>5, <2>6 DEF PackedWith
  <2> QED
    BY <2>1, <2>7 DEF r, e
<1>2. CASE p.pack.iv = <<>>
  <2> DEFINE ready == init_pack(p)
             q == encrypt(ready.p, input)
             e == Encrypted(Key(iv), input)
             head == tag \o nonce
  <2>1. p.pack = Key(<<>>)
    BY <1>2, KeyCases
  <2>2. r = IF ready.status # "ok" THEN ready ELSE [q EXCEPT !.out = ready.out \o @]
    BY <1>2 DEF CfbNoncePack
  <2>3. CASE ready = Throws(p)
    <3>1. ready.status # "ok"
      BY <2>3 DEF Throws
    <3> QED
      BY <2>2, <2>3, <3>1
  <2>4. CASE /\ ready.status = "ok" /\ ready.p \in NonceProcs /\ Same(p, ready.p)
             /\ nonce \in Nonces /\ tag \in Tags /\ iv \in Bytes /\ iv # <<>>
             /\ ready.p.pack = Key(iv) /\ Key(iv) \in IdleKeys
             /\ ready.p.unpack = p.unpack /\ ready.p.buffer = p.buffer
             /\ ready.out = <<head>> /\ ready.out \in Seq(Bytes)
    <3> HIDE DEF ready, iv, tag, nonce
    <3>1. /\ e \in Keys /\ q.status = "ok" /\ Same(ready.p, q.p)
          /\ q.out = <<e.data>> /\ q.out \in Seq(Bytes)
          /\ q.p.unpack = ready.p.unpack /\ q.p.buffer = ready.p.buffer
          /\ q.p.pack = Idle(e) /\ q.p \in NonceProcs
      <4> DEFINE s == ready.p
      <4>1. s \in NonceProcs /\ s.pack = Key(iv) /\ s.pack \in IdleKeys
        BY <2>4
      <4> HIDE DEF s
      <4> QED
        BY <4>1, EncryptSound DEF s
    <3>2. q = [p |-> q.p, out |-> q.out, status |-> q.status]
      BY DEF encrypt, Returns
    <3> HIDE DEF q, e
    <3>3. r = [q EXCEPT !.out = ready.out \o @]
      BY <2>2, <2>4
    <3>4. r.p = q.p /\ r.status = q.status /\ r.out = ready.out \o q.out
      BY <3>2, <3>3
    <3>5. head \in Bytes /\ e.data \in Bytes
      BY <2>4, <3>1 DEF Keys
    <3> HIDE DEF r, head
    <3>6. r.out \in Seq(Bytes) /\ Flat(r.out) = head \o e.data
      <4> DEFINE a == ready.out
                 b == q.out
      <4>1. a \in Seq(Bytes) /\ b \in Seq(Bytes)
        BY <2>4, <3>1
      <4>2. Flat(a) = head /\ Flat(b) = e.data
        BY <2>4, <3>1, <3>5, FlatSingle
      <4> HIDE DEF a, b
      <4>3. a \o b \in Seq(Bytes) /\ Flat(a \o b) = Flat(a) \o Flat(b)
        BY ONLY <4>1, FlatConcat, ConcatTyped
      <4> QED
        BY <3>4, <4>2, <4>3 DEF a, b
    <3>7. PackedWith(p, r, e, head)
      BY <2>4, <3>1, <3>4, <3>6 DEF PackedWith, Same
    <3> QED
      BY <2>1, <2>4, <3>7 DEF r, e, iv, tag, nonce, head
  <2> QED
    BY <2>3, <2>4, InitPackSound
<1> QED
  BY <1>1, <1>2

\* What an unpacking step of the cipher leaves behind.
UnpackedWith(p, r, d) ==
    /\ d \in Keys /\ r.status = "ok" /\ r.p \in NonceProcs /\ Same(p, r.p)
    /\ r.p.pack = p.pack /\ r.p.unpack = Idle(d)
    /\ r.out \in Seq(Bytes) /\ Flat(r.out) = d.data

\* The nonce of a handshake that has arrived.
NonceOf(acc) == SubSeq(SubSeq(acc, 1, HandshakeSize), TagSize + 1, HandshakeSize)

LEMMA NonceOfTyped ==
    ASSUME NEW acc \in Bytes, HandshakeSize <= Len(acc)
    PROVE  NonceOf(acc) \in Nonces /\ \A i \in 1..NonceSize : NonceOf(acc)[i] = acc[TagSize + i]
<1> DEFINE a == SubSeq(acc, 1, HandshakeSize)
           b == SubSeq(a, TagSize + 1, HandshakeSize)
<1>1. acc \in Seq(Byte) /\ Len(acc) \in Nat
  BY DEF Bytes
<1>2. /\ TagSize \in Nat /\ NonceSize \in Nat /\ HandshakeSize \in Nat
      /\ HandshakeSize = TagSize + NonceSize
  BY HandshakeTyped
<1>3. /\ a \in Seq(Byte) /\ Len(a) = HandshakeSize
      /\ \A i \in 1..HandshakeSize : a[i] = acc[i]
  BY <1>1, <1>2
<1> HIDE DEF a
<1>4. TagSize + 1 \in 1..(HandshakeSize + 1) /\ HandshakeSize - (TagSize + 1) + 1 = NonceSize
  BY <1>2
<1>5. /\ b \in Seq(Byte) /\ Len(b) = NonceSize
      /\ \A i \in 1..NonceSize : b[i] = a[TagSize + i]
  BY <1>2, <1>3, <1>4
<1>6. \A i \in 1..NonceSize : TagSize + i \in 1..HandshakeSize
  BY <1>2
<1> HIDE DEF b
<1>7. b \in Nonces
  BY <1>5 DEF Nonces
<1> QED
  BY <1>3, <1>5, <1>6, <1>7 DEF NonceOf, a, b

LEMMA NonceUnpackCases ==
    ASSUME NEW p \in NonceProcs, NEW input \in Bytes
    PROVE  LET r == CfbNonceUnpack(p, input)
               acc == p.buffer \o input
               iv == Sha512(NonceOf(acc) \o p.arg.iv)
               remain == SubSeq(acc, HandshakeSize + 1, Len(acc))
           IN  \/ r.status = "throw" /\ r.p = p /\ r.out = <<>>
               \/ /\ p.unpack \in IdleKeys /\ r.p.buffer = p.buffer
                  /\ UnpackedWith(p, r, Decrypted(p.unpack, input))
               \/ /\ p.unpack = Key(<<>>) /\ Len(acc) < HandshakeSize
                  /\ r.status = "ok" /\ r.p \in NonceProcs /\ Same(p, r.p)
                  /\ r.p.pack = p.pack /\ r.p.unpack = p.unpack /\ r.p.buffer = acc
                  /\ r.out = <<>>
               \/ /\ p.unpack = Key(<<>>) /\ HandshakeSize <= Len(acc)
                  /\ NonceOf(acc) \in Nonces /\ iv \in Bytes /\ iv # <<>>
                  /\ r.p.buffer = <<>> /\ remain \in Bytes
                  /\ UnpackedWith(p, r, Decrypted(Key(iv), remain))
<1> DEFINE r == CfbNonceUnpack(p, input)
           acc == p.buffer \o input
           iv == Sha512(NonceOf(acc) \o p.arg.iv)
           remain == SubSeq(acc, HandshakeSize + 1, Len(acc))
<1>1. acc \in Bytes
  BY ConcatTyped DEF NonceProcs, Bytes
<1>2. HandshakeSize \in Nat /\ Len(acc) \in Nat
  BY <1>1, HandshakeTyped DEF Bytes
<1>3. CASE p.unpack.iv # <<>>
  <2>1. p.unpack \in IdleKeys
    BY <1>3, KeyCases
  <2>2. r = decrypt(p, input)
    BY <1>3 DEF CfbNonceUnpack
  <2> QED
    BY <2>1, <2>2, DecryptSound DEF UnpackedWith
<1>4. CASE p.unpack.iv = <<>> /\ Len(acc) < HandshakeSize
  <2> DEFINE q == [p EXCEPT !.buffer = acc]
  <2>1. p.unpack = Key(<<>>)
    BY <1>4, KeyCases
  <2>2. r = Returns(q, <<>>)
    BY <1>4 DEF CfbNonceUnpack
  <2>3. /\ q \in NonceProcs /\ Same(p, q)
        /\ q.pack = p.pack /\ q.unpack = p.unpack /\ q.buffer = acc
    BY <1>1 DEF NonceProcs, Same
  <2> HIDE DEF q, r
  <2>4. r.status = "ok" /\ r.p = q /\ r.out = <<>>
    BY <2>2 DEF Returns
  <2> QED
    BY <1>4, <2>1, <2>3, <2>4 DEF r
<1>5. CASE p.unpack.iv = <<>> /\ ~(Len(acc) < HandshakeSize)
  <2> DEFINE packet == SubSeq(acc, 1, HandshakeSize)
             ready == init_unpack(p, packet)
             q == [p EXCEPT !.unpack = Key(iv)]
             s == [ready.p EXCEPT !.buffer = <<>>]
  <2>1. p.unpack = Key(<<>>) /\ HandshakeSize <= Len(acc)
    BY <1>2, <1>5, KeyCases
  <2>2. NonceOf(acc) \in Nonces
    BY <1>1, <2>1, NonceOfTyped
  <2>3. iv \in Bytes /\ iv # <<>>
    BY <2>2 DEF NonceProcs, NonceArgs
  <2>4. ready = Throws(p) \/ ready = Returns(q, <<>>)
    BY DEF init_unpack, derive_iv, NonceOf
  <2>5. r = IF ready.status # "ok" THEN ready ELSE decrypt(s, remain)
    BY <1>5 DEF CfbNonceUnpack
  <2>6. remain \in Bytes
    BY <1>1, <1>2, <2>1 DEF Bytes
  <2> HIDE DEF acc, iv, remain
  <2>7. CASE ready = Throws(p)
    BY <2>5, <2>7 DEF Throws
  <2>8. CASE ready = Returns(q, <<>>)
    <3>1. ready.status = "ok" /\ ready.p = q
      BY <2>8 DEF Returns
    <3>2. Key(iv) \in IdleKeys /\ <<>> \in Bytes
      BY <2>3, KeyTyped DEF IdleKeys, Bytes
    <3>3. /\ s \in NonceProcs /\ Same(p, s) /\ s.unpack = Key(iv) /\ s.pack = p.pack
          /\ s.buffer = <<>>
      BY <3>1, <3>2 DEF NonceProcs, Same
    <3> HIDE DEF s, ready
    <3>4. r = decrypt(s, remain)
      BY <2>5, <3>1
    <3> HIDE DEF r
    <3>5. s.unpack \in IdleKeys
      BY <3>2, <3>3
    <3> DEFINE d == Decrypted(s.unpack, remain)
    <3>6. /\ d \in Keys /\ r.status = "ok" /\ r.out \in Seq(Bytes) /\ Flat(r.out) = d.data
          /\ Same(s, r.p) /\ r.p.pack = s.pack /\ r.p.buffer = s.buffer
          /\ r.p.unpack = Idle(d) /\ r.p \in NonceProcs
      BY <2>6, <3>3, <3>4, <3>5, DecryptSound
    <3>7. UnpackedWith(p, r, Decrypted(Key(iv), remain)) /\ r.p.buffer = <<>>
      BY <3>3, <3>6 DEF UnpackedWith, Same
    <3> QED
      BY <2>1, <2>2, <2>3, <2>6, <3>7 DEF r, acc, iv, remain
  <2> QED
    BY <2>4, <2>7, <2>8
<1> QED
  BY <1>3, <1>4, <1>5

LEMMA KindCases ==
    ASSUME NEW p \in Procs
    PROVE  \/ p \in IdentityProcs /\ p.kind = "identity"
           \/ p \in CfbProcs /\ p.kind = "cfb"
           \/ p \in NonceProcs /\ p.kind = "cfb_nonce"
           \/ p \in PaddingProcs /\ p.kind = "padding"
BY DEF Procs, IdentityProcs, CfbProcs, NonceProcs, PaddingProcs

LEMMA KindUnique ==
    /\ \A p \in IdentityProcs : p.kind = "identity"
    /\ \A p \in CfbProcs : p.kind = "cfb"
    /\ \A p \in NonceProcs : p.kind = "cfb_nonce"
    /\ \A p \in PaddingProcs : p.kind = "padding"
BY DEF IdentityProcs, CfbProcs, NonceProcs, PaddingProcs

\* The cases of pack and unpack.
LEMMA PackCases ==
    ASSUME NEW p, NEW input
    PROVE  /\ p.kind = "identity" => pack(p, input) = Returns(p, <<input>>)
           /\ p.kind = "cfb" => pack(p, input) = encrypt(p, input)
           /\ p.kind = "cfb_nonce" => pack(p, input) = CfbNoncePack(p, input)
           /\ p.kind = "padding" => pack(p, input) = apply_pack(p, input)
BY DEF pack

LEMMA UnpackCases ==
    ASSUME NEW p, NEW input
    PROVE  /\ p.kind = "identity" => unpack(p, input) = Returns(p, <<input>>)
           /\ p.kind = "cfb" => unpack(p, input) = decrypt(p, input)
           /\ p.kind = "cfb_nonce" => unpack(p, input) = CfbNonceUnpack(p, input)
           /\ p.kind = "padding" => unpack(p, input) = apply_unpack(p, input)
BY DEF unpack

LEMMA IdentitySound ==
    ASSUME NEW p \in IdentityProcs, NEW input \in Bytes
    PROVE  LET r == Returns(p, <<input>>)
           IN  /\ Sound(p, r) /\ r.p = p /\ r.status = "ok"
               /\ r.out \in Seq(Bytes) /\ Flat(r.out) = input
<1> DEFINE r == Returns(p, <<input>>)
<1>1. r.p = p /\ r.out = <<input>> /\ r.status = "ok"
  BY DEF Returns
<1>2. <<input>> \in Seq(Bytes) /\ Flat(<<input>>) = input
  BY FlatSingle
<1> HIDE DEF r
<1>3. Sound(p, r)
  BY <1>1, <1>2 DEF Sound, Procs, Statuses
<1> QED
  BY <1>1, <1>2, <1>3 DEF r

LEMMA PackSound ==
    ASSUME DrawsNumbers, NEW p \in Procs, NEW input \in Bytes
    PROVE  Sound(p, pack(p, input))
<1> DEFINE r == pack(p, input)
<1>1. CASE p \in IdentityProcs
  <2>1. r = Returns(p, <<input>>)
    BY <1>1, KindUnique, PackCases
  <2> QED
    BY <1>1, <2>1, IdentitySound
<1>2. CASE p \in CfbProcs
  <2>1. r = encrypt(p, input) /\ p.kind = "cfb" /\ p.pack \in IdleKeys
    BY <1>2, KindUnique, PackCases DEF CfbProcs
  <2>2. /\ r.status = "ok" /\ r.out \in Seq(Bytes) /\ r.p \in CfbProcs
        /\ Same(p, r.p) /\ r.p.buffer = p.buffer
    BY <1>2, <2>1, EncryptSound
  <2> QED
    BY <2>1, <2>2 DEF Sound, Same, Procs, Statuses, Small
<1>3. CASE p \in NonceProcs
  <2>1. r = CfbNoncePack(p, input) /\ p.kind = "cfb_nonce"
    BY <1>3, KindUnique, PackCases
  <2>2. \/ r = Throws(p)
        \/ /\ r.status = "ok" /\ r.p \in NonceProcs /\ Same(p, r.p)
           /\ r.p.buffer = p.buffer /\ r.out \in Seq(Bytes)
    <3> DEFINE s == CfbNoncePack(p, input)
               sent == \/ s = Throws(p)
                       \/ /\ s.status = "ok" /\ s.p \in NonceProcs /\ Same(p, s.p)
                          /\ s.p.buffer = p.buffer /\ s.out \in Seq(Bytes)
    <3>1. \A e, before : PackedWith(p, s, e, before) => sent
      BY DEF PackedWith
    <3>2. s = Throws(p) \/ \E e, before : PackedWith(p, s, e, before)
      <4> HIDE DEF s
      <4> QED
        BY <1>3, NoncePackCases DEF s
    <3>3. sent
      BY <3>1, <3>2
    <3> QED
      BY <2>1, <3>3
  <2>3. CASE r = Throws(p)
    BY <2>1, <2>3 DEF Throws, Sound, Same, Procs, Statuses
  <2>4. CASE /\ r.status = "ok" /\ r.p \in NonceProcs /\ Same(p, r.p)
             /\ r.p.buffer = p.buffer /\ r.out \in Seq(Bytes)
    BY <2>1, <2>4 DEF Sound, Same, Procs, Statuses, Small
  <2> QED
    BY <2>2, <2>3, <2>4
<1>4. CASE p \in PaddingProcs
  <2>1. r = apply_pack(p, input) /\ p.kind = "padding"
    BY <1>4, KindUnique, PackCases
  <2>2. \/ p.arg.chunk = 0 /\ r = Hangs(p)
        \/ /\ r.status = "ok" /\ r.p \in PaddingProcs /\ r.p = [p EXCEPT !.pack = r.p.pack]
           /\ r.out \in Seq(Bytes)
    BY <1>4, <2>1, PackMakesFrames DEF Frames
  <2>3. CASE p.arg.chunk = 0 /\ r = Hangs(p)
    BY <2>1, <2>3 DEF Hangs, Sound, Procs, Statuses
  <2>4. CASE /\ r.status = "ok" /\ r.p \in PaddingProcs /\ r.p = [p EXCEPT !.pack = r.p.pack]
             /\ r.out \in Seq(Bytes)
    <3> DEFINE n == r.p.pack
               q == [p EXCEPT !.pack = n]
    <3>1. q.kind = p.kind /\ q.reverse = p.reverse /\ q.arg = p.arg /\ q.buffer = p.buffer
      BY <1>4 DEF PaddingProcs
    <3>2. r.p = q
      BY <2>4
    <3> HIDE DEF q
    <3>3. /\ r.p.kind = p.kind /\ r.p.reverse = p.reverse /\ r.p.arg = p.arg
          /\ r.p.buffer = p.buffer
      BY <3>1, <3>2
    <3> QED
      BY <2>1, <2>4, <3>3 DEF Sound, Procs, Statuses, Small
  <2> QED
    BY <2>2, <2>3, <2>4
<1> QED
  BY <1>1, <1>2, <1>3, <1>4 DEF Procs

LEMMA UnpackSound ==
    ASSUME NEW p \in Procs, NEW input \in Bytes
    PROVE  Sound(p, unpack(p, input))
<1> DEFINE r == unpack(p, input)
<1>1. CASE p \in IdentityProcs
  <2>1. r = Returns(p, <<input>>)
    BY <1>1, KindUnique, UnpackCases
  <2> QED
    BY <1>1, <2>1, IdentitySound
<1>2. CASE p \in CfbProcs
  <2>1. r = decrypt(p, input) /\ p.kind = "cfb" /\ p.unpack \in IdleKeys
    BY <1>2, KindUnique, UnpackCases DEF CfbProcs
  <2>2. /\ r.status = "ok" /\ r.out \in Seq(Bytes) /\ r.p \in CfbProcs
        /\ Same(p, r.p) /\ r.p.buffer = p.buffer
    BY <1>2, <2>1, DecryptSound
  <2> QED
    BY <2>1, <2>2 DEF Sound, Same, Procs, Statuses, Small
<1>3. CASE p \in NonceProcs
  <2>1. r = CfbNonceUnpack(p, input) /\ p.kind = "cfb_nonce"
    BY <1>3, KindUnique, UnpackCases
  <2> DEFINE acc == p.buffer \o input
  <2>2. \/ r.status = "throw" /\ r.p = p /\ r.out = <<>>
        \/ /\ r.status = "ok" /\ r.p \in NonceProcs /\ Same(p, r.p) /\ r.out \in Seq(Bytes)
           /\ \/ r.p.buffer = p.buffer
              \/ r.p.buffer = <<>>
              \/ r.p.buffer = acc /\ Len(acc) < HandshakeSize
    <3> DEFINE s == CfbNonceUnpack(p, input)
    <3> HIDE DEF s
    <3>1. \/ s.status = "throw" /\ s.p = p /\ s.out = <<>>
          \/ s.p.buffer = p.buffer /\ \E d : UnpackedWith(p, s, d)
          \/ /\ Len(acc) < HandshakeSize /\ s.p.buffer = acc
             /\ s.status = "ok" /\ s.p \in NonceProcs /\ Same(p, s.p) /\ s.out = <<>>
          \/ s.p.buffer = <<>> /\ \E d : UnpackedWith(p, s, d)
      BY <1>3, NonceUnpackCases DEF s
    <3>2. \A d : UnpackedWith(p, s, d) => /\ s.status = "ok" /\ s.p \in NonceProcs
                                         /\ Same(p, s.p) /\ s.out \in Seq(Bytes)
      BY DEF UnpackedWith
    <3>3. <<>> \in Seq(Bytes) /\ r = s
      BY <2>1 DEF s
    <3> HIDE DEF acc
    <3> QED
      BY <3>1, <3>2, <3>3
  <2>3. Len(<<>>) < HandshakeSize
    BY HandshakeTyped
  <2> HIDE DEF acc
  <2>4. CASE r.status = "throw" /\ r.p = p /\ r.out = <<>>
    BY <2>1, <2>4 DEF Sound, Same, Procs, Statuses
  <2>5. CASE /\ r.status = "ok" /\ r.p \in NonceProcs /\ Same(p, r.p) /\ r.out \in Seq(Bytes)
             /\ \/ r.p.buffer = p.buffer
                \/ r.p.buffer = <<>>
                \/ r.p.buffer = acc /\ Len(acc) < HandshakeSize
    <3>1. Small(p) => Len(r.p.buffer) < HandshakeSize
      BY <2>1, <2>3, <2>5 DEF Small
    <3> QED
      BY <2>1, <2>5, <3>1 DEF Sound, Same, Procs, Statuses, Small
  <2> QED
    BY <2>2, <2>4, <2>5
<1>4. CASE p \in PaddingProcs
  <2>1. r = apply_unpack(p, input) /\ p.kind = "padding"
    BY <1>4, KindUnique, UnpackCases
  <2>2. /\ r \in PadResults /\ Keeps(p, r.p)
        /\ r.status \in {"ok", "throw"} /\ (r.status = "ok" => Waits(r))
    BY <1>4, <2>1, UnpackSettles
  <2> HIDE DEF r
  <2>3. Waits(r) => Len(r.p.buffer) < HeaderLen + p.arg.chunk + p.arg.max
    <3> DEFINE k == Len(r.p.buffer)
               chunk == p.arg.chunk
               max == p.arg.max
    <3>1. k \in Nat /\ chunk \in Nat /\ max \in Nat /\ HeaderLen \in Nat
      BY <1>4, <2>2, U32Typed DEF PadResults, PaddingProcs, PadArgs, Bytes
    <3>2. Waits(r) => k < HeaderLen + chunk + max \/ k < HeaderLen
      BY <2>2 DEF Waits, Keeps
    <3> HIDE DEF k, chunk, max
    <3>3. k < HeaderLen => k < HeaderLen + chunk + max
      BY ONLY <3>1
    <3> QED
      BY <3>2, <3>3 DEF k, chunk, max
  <2>4. /\ r.p \in PaddingProcs /\ r.out \in Seq(Bytes) /\ r.status \in Statuses
    BY <2>2 DEF PadResults
  <2>5. Sound(p, r)
    BY <2>1, <2>2, <2>3, <2>4 DEF Sound, Keeps, Procs, Small
  <2> QED
    BY <2>5 DEF r
<1> QED
  BY <1>1, <1>2, <1>3, <1>4 DEF Procs

-----------------------------------------------------------------------------
(* The two ends of cfb_nonce. *)

\* Before the first pack, during the handshake, and behind it.
Fresh(p, q, w, u) ==
    /\ p.pack = Key(<<>>) /\ q.unpack = Key(<<>>)
    /\ q.buffer = <<>> /\ w = <<>> /\ u = <<>>

Greeting(p, q, w, u, tag, nonce, c) ==
    /\ q.unpack = Key(<<>>) /\ Len(q.buffer) < HandshakeSize
    /\ tag \in Tags /\ nonce \in Nonces /\ c \in Bytes
    /\ Joins(q.buffer \o w, tag \o nonce, c)
    /\ CipherLink(p.pack, Key(Sha512(nonce \o q.arg.iv)), c, u)

NonceLink(p, q, w, u) ==
    \/ Fresh(p, q, w, u)
    \/ \E tag, nonce, c : Greeting(p, q, w, u, tag, nonce, c)
    \/ CipherLink(p.pack, q.unpack, w, u)

LEMMA NoKey == Key(<<>>) \notin IdleKeys
BY DEF Key, IdleKeys, Keys

\* Two ways to cut a stream: the first piece of one begins with that of the
\* other.
LEMMA CutFront ==
    ASSUME NEW t, NEW acc \in Bytes, NEW rest \in Bytes, NEW head \in Bytes, NEW c \in Bytes,
           Joins(t, acc, rest), Joins(t, head, c), Len(head) <= Len(acc)
    PROVE  LET more == After(acc, Len(head))
           IN  more \in Bytes /\ Joins(acc, head, more) /\ Joins(c, more, rest)
<1> DEFINE more == After(acc, Len(head))
<1>1. acc \in Seq(Byte) /\ rest \in Seq(Byte) /\ head \in Seq(Byte) /\ c \in Seq(Byte)
  BY DEF Bytes
<1>2. t \in Seq(Byte) /\ Begins(t, acc) /\ Begins(t, head)
  <2>1. Begins(acc \o rest, acc) /\ acc \o rest \in Seq(Byte)
    BY ONLY <1>1, BeginsConcat
  <2>2. Begins(head \o c, head)
    BY ONLY <1>1, BeginsConcat
  <2> QED
    BY <2>1, <2>2 DEF Joins
<1>3. Begins(acc, head)
  BY <1>1, <1>2, BeginsBoth
<1>4. more \in Seq(Byte) /\ acc = head \o more
  BY <1>1, <1>3, BeginsRest
<1> HIDE DEF more
<1>5. more \in Bytes /\ Joins(acc, head, more)
  BY <1>4 DEF Bytes, Joins
<1>6. Joins(t, head, more \o rest)
  <2>1. Joins(acc \o rest, head, more \o rest)
    BY <1>5, JoinsMore
  <2> QED
    BY <2>1 DEF Joins
<1>7. Joins(c, more, rest)
  <2>1. Joins(t, head \o more, rest)
    BY <1>5, <1>6, JoinsLess
  <2> QED
    BY <1>5, <2>1, JoinsRest
<1> QED
  BY <1>5, <1>7 DEF more

LEMMA NonceLinkPacks ==
    ASSUME NEW p \in NonceProcs, NEW q \in NonceProcs, p.arg.iv = q.arg.iv,
           NEW w \in Bytes, NEW u \in Bytes, NonceLink(p, q, w, u),
           NEW input \in Bytes, CfbNoncePack(p, input).status = "ok"
    PROVE  LET r == CfbNoncePack(p, input)
           IN  /\ r.out \in Seq(Bytes)
               /\ NonceLink(r.p, q, w \o Flat(r.out), u \o input)
<1> DEFINE r == CfbNoncePack(p, input)
           nonce == p.arg.nonce
           tag == Hmac(p.arg.hmac_key, nonce)
           iv == Sha512(nonce \o p.arg.iv)
           head == tag \o nonce
<1>1. Throws(p).status # "ok"
  BY DEF Throws
<1> HIDE DEF r
<1>2. \/ /\ p.pack \in IdleKeys
         /\ PackedWith(p, r, Encrypted(p.pack, input), <<>>)
      \/ /\ p.pack = Key(<<>>)
         /\ nonce \in Nonces /\ tag \in Tags /\ iv \in Bytes /\ iv # <<>>
         /\ PackedWith(p, r, Encrypted(Key(iv), input), head)
  BY <1>1, NoncePackCases DEF r
<1>3. CASE p.pack \in IdleKeys /\ PackedWith(p, r, Encrypted(p.pack, input), <<>>)
  <2> DEFINE e == Encrypted(p.pack, input)
             data == e.data
  <2>1. e \in Keys /\ data \in Bytes
    BY <1>3 DEF PackedWith, Keys
  <2>2. r.out \in Seq(Bytes) /\ Flat(r.out) = data /\ r.p.pack = Idle(e)
    <3>1. <<>> \o data = data
      BY <2>1, ConcatEmpty DEF Bytes
    <3> QED
      BY <1>3, <3>1 DEF PackedWith
  <2> HIDE DEF e, data
  <2>3. ~Fresh(p, q, w, u)
    BY <1>3, NoKey DEF Fresh
  <2>4. ASSUME NEW tg, NEW nc, NEW c, Greeting(p, q, w, u, tg, nc, c)
        PROVE  NonceLink(r.p, q, w \o data, u \o input)
    <3> DEFINE k == Key(Sha512(nc \o q.arg.iv))
    <3>1. /\ q.unpack = Key(<<>>) /\ Len(q.buffer) < HandshakeSize
          /\ tg \in Tags /\ nc \in Nonces /\ c \in Bytes
          /\ Joins(q.buffer \o w, tg \o nc, c) /\ CipherLink(p.pack, k, c, u)
      BY <2>4 DEF Greeting
    <3>2. CipherLink(Idle(e), k, c \o data, u \o input)
      <4> HIDE DEF k
      <4> QED
        BY <3>1, CipherLinkPacks DEF e, data
    <3>3. Joins(q.buffer \o (w \o data), tg \o nc, c \o data)
      <4> DEFINE b == q.buffer
                 h == tg \o nc
      <4>1. b \in Bytes /\ h \in Bytes
        BY <3>1, HandshakeTyped, ConcatTyped DEF NonceProcs, Bytes
      <4>2. Joins(b \o w, h, c)
        BY <3>1
      <4> HIDE DEF b, h
      <4>3. Joins((b \o w) \o data, h, c \o data)
        BY <2>1, <3>1, <4>1, <4>2, JoinsMore
      <4>4. b \in Seq(Byte) /\ w \in Seq(Byte) /\ data \in Seq(Byte)
        BY <2>1, <4>1 DEF Bytes
      <4>5. (b \o w) \o data = b \o (w \o data)
        <5>1. Associates(b, w, data)
          BY ONLY <4>4, ConcatAssociates
        <5> QED
          BY <5>1 DEF Associates
      <4> QED
        BY <4>3, <4>5 DEF b, h
    <3>4. c \o data \in Bytes
      BY <2>1, <3>1, ConcatTyped DEF Bytes
    <3>5. Greeting(r.p, q, w \o data, u \o input, tg, nc, c \o data)
      BY <2>2, <3>1, <3>2, <3>3, <3>4 DEF Greeting
    <3> QED
      BY <3>5 DEF NonceLink
  <2>5. ASSUME CipherLink(p.pack, q.unpack, w, u)
        PROVE  NonceLink(r.p, q, w \o data, u \o input)
    <3> DEFINE k == q.unpack
    <3>1. CipherLink(p.pack, k, w, u)
      BY <2>5
    <3> HIDE DEF k
    <3>2. CipherLink(Idle(e), k, w \o data, u \o input)
      BY <3>1, CipherLinkPacks DEF e, data
    <3>3. CipherLink(r.p.pack, q.unpack, w \o data, u \o input)
      BY <2>2, <3>2 DEF k
    <3> QED
      BY <3>3 DEF NonceLink
  <2>6. NonceLink(r.p, q, w \o data, u \o input)
    BY <2>3, <2>4, <2>5 DEF NonceLink
  <2> QED
    BY <2>2, <2>6 DEF r
<1>4. CASE /\ p.pack = Key(<<>>)
           /\ nonce \in Nonces /\ tag \in Tags /\ iv \in Bytes /\ iv # <<>>
           /\ PackedWith(p, r, Encrypted(Key(iv), input), head)
  <2> DEFINE e == Encrypted(Key(iv), input)
             data == e.data
  <2>1. Fresh(p, q, w, u)
    <3>1. ~CipherLink(p.pack, q.unpack, w, u)
      BY <1>4, NoKey, CipherLinkTyped
    <3>2. ASSUME NEW tg, NEW nc, NEW c, Greeting(p, q, w, u, tg, nc, c) PROVE FALSE
      <4>1. CipherLink(p.pack, Key(Sha512(nc \o q.arg.iv)), c, u)
        BY <3>2 DEF Greeting
      <4> QED
        BY <1>4, <4>1, NoKey, CipherLinkTyped
    <3> QED
      BY <3>1, <3>2 DEF NonceLink
  <2>2. e \in Keys /\ data \in Bytes
    BY <1>4 DEF PackedWith, Keys
  <2>3. r.out \in Seq(Bytes) /\ Flat(r.out) = head \o data /\ r.p.pack = Idle(e)
    BY <1>4 DEF PackedWith
  <2>4. head \in Bytes
    BY <1>4, HandshakeTyped, ConcatTyped DEF Bytes
  <2>5. Sha512(nonce \o q.arg.iv) = iv
    OBVIOUS
  <2> HIDE DEF head, tag, nonce, iv
  <2>6. CipherLink(Idle(e), Key(iv), data, input)
    <3>1. CipherLink(Key(iv), Key(iv), <<>>, <<>>) /\ <<>> \in Bytes
      BY <1>4, CipherLinkStart DEF Bytes
    <3>2. CipherLink(Idle(e), Key(iv), <<>> \o data, <<>> \o input)
      <4> DEFINE k == Key(iv)
      <4>1. CipherLink(k, k, <<>>, <<>>)
        BY <3>1
      <4> HIDE DEF k
      <4>2. LET x == Encrypted(k, input)
            IN  CipherLink(Idle(x), k, <<>> \o x.data, <<>> \o input)
        BY <3>1, <4>1, CipherLinkPacks
      <4> QED
        BY <4>2 DEF k
    <3>3. <<>> \o data = data /\ <<>> \o input = input
      BY <2>2, ConcatEmpty DEF Bytes
    <3> QED
      BY <3>2, <3>3
  <2> HIDE DEF e, data
  <2>7. q.buffer = <<>> /\ w = <<>> /\ u = <<>> /\ q.unpack = Key(<<>>)
    BY <2>1 DEF Fresh
  <2> DEFINE f == head \o data
  <2>8. f \in Bytes /\ Joins(f, head, data)
    BY <2>2, <2>4, ConcatTyped DEF Bytes, Joins
  <2>9. Flat(r.out) = f
    BY <2>3
  <2> HIDE DEF f
  <2>10. <<>> \o f = f /\ <<>> \o input = input
    BY <2>8, ConcatEmpty DEF Bytes
  <2>11. Greeting(r.p, q, w \o f, u \o input, tag, nonce, data)
    <3>1. Joins(q.buffer \o (w \o f), tag \o nonce, data)
      BY <2>7, <2>8, <2>10 DEF head
    <3>2. Len(q.buffer) < HandshakeSize
      BY <2>7, HandshakeTyped
    <3>3. CipherLink(r.p.pack, Key(Sha512(nonce \o q.arg.iv)), data, u \o input)
      BY <2>3, <2>5, <2>6, <2>7, <2>10
    <3> QED
      BY <1>4, <2>2, <2>7, <3>1, <3>2, <3>3 DEF Greeting
  <2>12. NonceLink(r.p, q, w \o f, u \o input)
    BY <2>11 DEF NonceLink
  <2> QED
    BY <2>3, <2>9, <2>12 DEF r
<1> QED
  BY <1>2, <1>3, <1>4

LEMMA EmptyParts ==
    ASSUME NEW a \in Seq(Byte), NEW b \in Seq(Byte), a \o b = <<>>
    PROVE  a = <<>> /\ b = <<>>
<1>1. Len(a \o b) = Len(a) + Len(b) /\ Len(a) \in Nat /\ Len(b) \in Nat
  BY ConcatTyped
<1>2. Len(a \o b) = 0
  OBVIOUS
<1>3. Len(a) = 0 /\ Len(b) = 0
  BY ONLY <1>1, <1>2
<1> QED
  BY <1>3

LEMMA NonceLinkUnpacks ==
    ASSUME NEW p \in NonceProcs, NEW q \in NonceProcs, p.arg.iv = q.arg.iv,
           NEW input \in Bytes, NEW rest \in Bytes, NEW u \in Bytes,
           NonceLink(p, q, input \o rest, u), CfbNonceUnpack(q, input).status = "ok"
    PROVE  LET r == CfbNonceUnpack(q, input)
           IN  /\ r.out \in Seq(Bytes)
               /\ \E v \in Bytes : Joins(u, Flat(r.out), v) /\ NonceLink(p, r.p, rest, v)
<1> DEFINE r == CfbNonceUnpack(q, input)
           b == q.buffer
           acc == b \o input
           iv == Sha512(NonceOf(acc) \o q.arg.iv)
           remain == SubSeq(acc, HandshakeSize + 1, Len(acc))
           Goal == \E v \in Bytes : Joins(u, Flat(r.out), v) /\ NonceLink(p, r.p, rest, v)
<1>0. r.status # "throw"
  OBVIOUS
<1> HIDE DEF r
<1>1. \/ /\ q.unpack \in IdleKeys
         /\ UnpackedWith(q, r, Decrypted(q.unpack, input))
      \/ /\ q.unpack = Key(<<>>) /\ Len(acc) < HandshakeSize
         /\ r.p \in NonceProcs /\ Same(q, r.p)
         /\ r.p.pack = q.pack /\ r.p.unpack = q.unpack /\ r.p.buffer = acc
         /\ r.out = <<>>
      \/ /\ q.unpack = Key(<<>>) /\ HandshakeSize <= Len(acc)
         /\ iv \in Bytes /\ iv # <<>> /\ remain \in Bytes
         /\ UnpackedWith(q, r, Decrypted(Key(iv), remain))
  BY <1>0, NonceUnpackCases DEF r
<1>2. b \in Bytes /\ b \in Seq(Byte) /\ input \in Seq(Byte) /\ rest \in Seq(Byte)
  BY DEF NonceProcs, Bytes
<1> HIDE DEF b
<1>3. acc \in Bytes /\ Len(acc) \in Nat /\ Joins(acc, b, input)
  BY <1>2, ConcatTyped DEF Bytes, Joins
<1>4. Joins(b \o (input \o rest), acc, rest)
  <2>1. (b \o input) \o rest = b \o (input \o rest)
    <3>1. Associates(b, input, rest)
      BY ONLY <1>2, ConcatAssociates
    <3> QED
      BY <3>1 DEF Associates
  <2> QED
    BY <2>1 DEF Joins
<1> HIDE DEF acc, iv, remain
<1>5. CASE q.unpack \in IdleKeys /\ UnpackedWith(q, r, Decrypted(q.unpack, input))
  <2> DEFINE k == q.unpack
             d == Decrypted(k, input)
  <2>1. CipherLink(p.pack, k, input \o rest, u)
    BY <1>5, NoKey DEF NonceLink, Fresh, Greeting
  <2>2. r.out \in Seq(Bytes) /\ Flat(r.out) = d.data /\ r.p.unpack = Idle(d)
    BY <1>5 DEF UnpackedWith
  <2> HIDE DEF k
  <2>3. \E v \in Bytes : Joins(u, d.data, v) /\ CipherLink(p.pack, Idle(d), rest, v)
    BY <2>1, CipherLinkUnpacks
  <2>4. Goal
    BY <2>2, <2>3 DEF NonceLink
  <2> QED
    BY <2>2, <2>4 DEF r
<1>6. CASE /\ q.unpack = Key(<<>>) /\ Len(acc) < HandshakeSize
           /\ r.p \in NonceProcs /\ Same(q, r.p)
           /\ r.p.pack = q.pack /\ r.p.unpack = q.unpack /\ r.p.buffer = acc
           /\ r.out = <<>>
  <2>1. r.out \in Seq(Bytes) /\ Flat(r.out) = <<>> /\ Joins(u, <<>>, u)
    BY <1>6, FlatEmpty, ConcatEmpty DEF Joins, Bytes
  <2>2. ASSUME Fresh(p, q, input \o rest, u) PROVE NonceLink(p, r.p, rest, u)
    <3>1. p.pack = Key(<<>>) /\ b = <<>> /\ u = <<>> /\ input \o rest = <<>>
      BY <2>2 DEF Fresh, b
    <3>2. input = <<>> /\ rest = <<>>
      BY ONLY <1>2, <3>1, EmptyParts
    <3>3. acc = <<>>
      BY <3>1, <3>2, ConcatEmpty DEF acc
    <3>4. Fresh(p, r.p, rest, u)
      BY <1>6, <3>1, <3>2, <3>3 DEF Fresh
    <3> QED
      BY <3>4 DEF NonceLink
  <2>3. ASSUME NEW tag, NEW nonce, NEW c, Greeting(p, q, input \o rest, u, tag, nonce, c)
        PROVE  NonceLink(p, r.p, rest, u)
    <3>1. /\ tag \in Tags /\ nonce \in Nonces /\ c \in Bytes
          /\ Joins(b \o (input \o rest), tag \o nonce, c)
          /\ CipherLink(p.pack, Key(Sha512(nonce \o q.arg.iv)), c, u)
      BY <2>3 DEF Greeting, b
    <3>2. Joins(acc \o rest, tag \o nonce, c)
      BY <1>4, <3>1 DEF Joins
    <3>3. r.p.arg = q.arg
      BY <1>6 DEF Same
    <3>4. Greeting(p, r.p, rest, u, tag, nonce, c)
      BY <1>6, <3>1, <3>2, <3>3 DEF Greeting
    <3> QED
      BY <3>4 DEF NonceLink
  <2>4. ~CipherLink(p.pack, q.unpack, input \o rest, u)
    BY <1>6, NoKey, CipherLinkTyped
  <2>5. NonceLink(p, r.p, rest, u)
    BY <2>2, <2>3, <2>4 DEF NonceLink
  <2>6. Goal
    BY <2>1, <2>5
  <2> QED
    BY <2>1, <2>6 DEF r
<1>7. CASE /\ q.unpack = Key(<<>>) /\ HandshakeSize <= Len(acc)
           /\ iv \in Bytes /\ iv # <<>> /\ remain \in Bytes
           /\ UnpackedWith(q, r, Decrypted(Key(iv), remain))
  <2>1. ~Fresh(p, q, input \o rest, u)
    <3> SUFFICES ASSUME Fresh(p, q, input \o rest, u) PROVE FALSE
      OBVIOUS
    <3>1. b = <<>> /\ input \o rest = <<>>
      BY DEF Fresh, b
    <3>2. input = <<>>
      BY ONLY <1>2, <3>1, EmptyParts
    <3>3. acc = <<>>
      BY <3>1, <3>2, ConcatEmpty DEF acc
    <3> QED
      BY <1>7, <3>3, HandshakeTyped
  <2>2. ~CipherLink(p.pack, q.unpack, input \o rest, u)
    BY <1>7, NoKey, CipherLinkTyped
  <2>3. PICK tag, nonce, c : Greeting(p, q, input \o rest, u, tag, nonce, c)
    BY <2>1, <2>2 DEF NonceLink
  <2> DEFINE head == tag \o nonce
  <2>4. /\ tag \in Tags /\ nonce \in Nonces /\ c \in Bytes
        /\ Joins(b \o (input \o rest), head, c)
        /\ CipherLink(p.pack, Key(Sha512(nonce \o q.arg.iv)), c, u)
    BY <2>3 DEF Greeting, b
  <2>5. /\ tag \in Seq(Byte) /\ nonce \in Seq(Byte) /\ Len(tag) = TagSize /\ Len(nonce) = NonceSize
    BY <2>4, HandshakeTyped DEF Bytes
  <2>6. /\ head \in Bytes /\ Len(head) = HandshakeSize
        /\ \A i \in 1..NonceSize : head[TagSize + i] = nonce[i]
    <3>1. /\ head \in Seq(Byte) /\ Len(head) = Len(tag) + Len(nonce)
          /\ \A i \in 1..Len(nonce) : head[Len(tag) + i] = nonce[i]
      <4>1. tag \in Seq(Byte) /\ nonce \in Seq(Byte)
        BY <2>5
      <4> QED
        BY ONLY <4>1, ConcatTyped
    <3> QED
      BY <2>5, <3>1, HandshakeTyped DEF Bytes
  <2> HIDE DEF head
  <2>7. remain = After(acc, Len(head))
    BY <2>6 DEF remain, After
  <2>8. Joins(acc, head, remain) /\ Joins(c, remain, rest)
    <3> DEFINE t == b \o (input \o rest)
    <3>1. Joins(t, acc, rest) /\ Joins(t, head, c) /\ Len(head) <= Len(acc)
      BY <1>4, <1>7, <2>4, <2>6
    <3> HIDE DEF t
    <3> QED
      BY <1>3, <2>4, <2>6, <2>7, <3>1, CutFront
  <2>9. NonceOf(acc) = nonce
    <3> DEFINE n == NonceOf(acc)
    <3>1. n \in Nonces /\ \A i \in 1..NonceSize : n[i] = acc[TagSize + i]
      BY <1>3, <1>7, NonceOfTyped
    <3> HIDE DEF n
    <3>2. \A i \in 1..NonceSize : acc[TagSize + i] = head[TagSize + i]
      <4> TAKE i \in 1..NonceSize
      <4>1. TagSize + i \in 1..Len(head)
        BY <2>6, HandshakeTyped
      <4>2. Begins(acc, head)
        <5>1. head \in Seq(Byte) /\ remain \in Seq(Byte)
          BY <1>7, <2>6 DEF Bytes
        <5>2. Begins(head \o remain, head)
          BY ONLY <5>1, BeginsConcat
        <5> QED
          BY <2>8, <5>2 DEF Joins
      <4> QED
        BY <4>1, <4>2 DEF Begins
    <3>3. \A i \in 1..NonceSize : n[i] = nonce[i]
      BY <2>6, <3>1, <3>2
    <3>4. n = nonce
      <4>1. n \in [1..NonceSize -> Byte] /\ nonce \in [1..NonceSize -> Byte]
        BY <2>4, <3>1 DEF Nonces
      <4>2. n = [i \in 1..NonceSize |-> n[i]] /\ nonce = [i \in 1..NonceSize |-> nonce[i]]
        BY ONLY <4>1
      <4>3. [i \in 1..NonceSize |-> n[i]] = [i \in 1..NonceSize |-> nonce[i]]
        BY ONLY <3>3
      <4> QED
        BY ONLY <4>2, <4>3
    <3> QED
      BY <3>4 DEF n
  <2> DEFINE k == Key(iv)
             d == Decrypted(k, remain)
  <2>10. CipherLink(p.pack, k, remain \o rest, u)
    BY <2>4, <2>8, <2>9 DEF iv, Joins
  <2>11. r.out \in Seq(Bytes) /\ Flat(r.out) = d.data /\ r.p.unpack = Idle(d)
    BY <1>7 DEF UnpackedWith
  <2> HIDE DEF k
  <2>12. \E v \in Bytes : Joins(u, d.data, v) /\ CipherLink(p.pack, Idle(d), rest, v)
    BY <1>7, <2>10, CipherLinkUnpacks
  <2>13. Goal
    BY <2>11, <2>12 DEF NonceLink
  <2> QED
    BY <2>11, <2>13 DEF r
<1> QED
  BY <1>1, <1>5, <1>6, <1>7

LEMMA NonceLinkDelivers ==
    ASSUME NEW p \in NonceProcs, NEW q \in NonceProcs, NEW u \in Bytes,
           NonceLink(p, q, <<>>, u)
    PROVE  u = <<>>
<1>1. CASE Fresh(p, q, <<>>, u)
  BY <1>1 DEF Fresh
<1>2. ASSUME NEW tag, NEW nonce, NEW c, Greeting(p, q, <<>>, u, tag, nonce, c) PROVE FALSE
  <2> DEFINE b == q.buffer
             head == tag \o nonce
  <2>1. /\ Len(b) < HandshakeSize /\ tag \in Tags /\ nonce \in Nonces /\ c \in Seq(Byte)
        /\ b \o <<>> = head \o c /\ b \in Seq(Byte)
    BY <1>2 DEF Greeting, Joins, NonceProcs, Bytes
  <2>2. /\ tag \in Seq(Byte) /\ nonce \in Seq(Byte) /\ Len(tag) = TagSize /\ Len(nonce) = NonceSize
    BY <2>1, HandshakeTyped DEF Bytes
  <2>3. head \in Seq(Byte) /\ Len(head) = Len(tag) + Len(nonce)
    BY ONLY <2>2, ConcatTyped
  <2>4. Len(head) = HandshakeSize
    BY <2>2, <2>3, HandshakeTyped
  <2> HIDE DEF b, head
  <2>5. b = head \o c
    BY <2>1, ConcatEmpty
  <2>6. Len(head \o c) = Len(head) + Len(c) /\ Len(head) \in Nat /\ Len(c) \in Nat
    <3>1. head \in Seq(Byte) /\ c \in Seq(Byte)
      BY <2>1, <2>3
    <3> QED
      BY ONLY <3>1, ConcatTyped
  <2>7. Len(b) = Len(head \o c)
    BY <2>5
  <2>8. ~(Len(b) < Len(head))
    BY ONLY <2>6, <2>7
  <2> QED
    BY <2>1, <2>4, <2>8
<1>3. CASE CipherLink(p.pack, q.unpack, <<>>, u)
  BY <1>3, CipherLinkDelivers
<1> QED
  BY <1>1, <1>2, <1>3 DEF NonceLink

-----------------------------------------------------------------------------
(* The two ends of a processor. *)

\* p packs and q unpacks: when w, which is on its way, has reached q, it has
\* given back u, all that p was given and q has not given back yet.
Linked(p, q, w, u) ==
    /\ p.kind = q.kind
    /\ p.kind = "identity" => w = u
    /\ p.kind = "cfb" => CipherLink(p.pack, q.unpack, w, u)
    /\ p.kind = "cfb_nonce" => p.arg.iv = q.arg.iv /\ NonceLink(p, q, w, u)
    /\ p.kind = "padding" => PadLink(q.buffer, w, u)

LEMMA LinkPacks ==
    ASSUME DrawsNumbers, NEW p \in Procs, NEW q \in Procs, NEW w \in Bytes, NEW u \in Bytes,
           Linked(p, q, w, u), NEW input \in Bytes, pack(p, input).status = "ok"
    PROVE  LET r == pack(p, input)
           IN  /\ r.out \in Seq(Bytes) /\ r.p \in Procs
               /\ Linked(r.p, q, w \o Flat(r.out), u \o input)
<1> DEFINE r == pack(p, input)
           f == Flat(r.out)
<1>1. /\ r.p \in Procs /\ r.out \in Seq(Bytes)
      /\ r.p.kind = p.kind /\ r.p.arg = p.arg
  BY PackSound DEF Sound
<1>2. q.kind = p.kind
  BY DEF Linked
<1>3. CASE p \in IdentityProcs /\ p.kind = "identity"
  <2>1. r = Returns(p, <<input>>)
    BY <1>3, PackCases
  <2>2. f = input
    BY <1>3, <2>1, IdentitySound
  <2>3. w \o input = u \o input
    BY <1>3 DEF Linked
  <2> HIDE DEF r
  <2> QED
    BY <1>1, <1>2, <1>3, <2>2, <2>3 DEF Linked, r
<1>4. CASE p \in CfbProcs /\ p.kind = "cfb"
  <2> DEFINE k == p.pack
             l == q.unpack
             e == Encrypted(k, input)
  <2>1. r = encrypt(p, input)
    BY <1>4, PackCases
  <2>2. k \in IdleKeys
    BY <1>4 DEF CfbProcs
  <2>3. f = e.data /\ r.p.pack = Idle(e)
    BY <1>4, <2>1, <2>2, EncryptSound
  <2>4. CipherLink(k, l, w, u)
    BY <1>4 DEF Linked
  <2> HIDE DEF r, k, l
  <2>5. CipherLink(Idle(e), l, w \o e.data, u \o input)
    BY <2>4, CipherLinkPacks
  <2> QED
    BY <1>1, <1>2, <1>4, <2>3, <2>5 DEF Linked, r, l
<1>5. CASE p \in NonceProcs /\ p.kind = "cfb_nonce"
  <2>1. r = CfbNoncePack(p, input)
    BY <1>5, PackCases
  <2>2. q \in NonceProcs
    BY <1>2, <1>5, KindCases
  <2>3. p.arg.iv = q.arg.iv /\ NonceLink(p, q, w, u)
    BY <1>5 DEF Linked
  <2>4. NonceLink(r.p, q, w \o f, u \o input)
    BY <1>5, <2>1, <2>2, <2>3, NonceLinkPacks
  <2> HIDE DEF r
  <2> QED
    BY <1>1, <1>2, <1>5, <2>3, <2>4 DEF Linked, r
<1>6. CASE p \in PaddingProcs /\ p.kind = "padding"
  <2> DEFINE b == q.buffer
  <2>1. r = apply_pack(p, input)
    BY <1>6, PackCases
  <2>2. b \in Bytes /\ PadLink(b, w, u)
    <3>1. q \in PaddingProcs
      BY <1>2, <1>6, KindCases
    <3> QED
      BY <1>6, <3>1 DEF Linked, PaddingProcs
  <2> HIDE DEF b
  <2>3. PadLink(b, w \o f, u \o input)
    BY <1>6, <2>1, <2>2, PadLinkPacks
  <2> HIDE DEF r
  <2> QED
    BY <1>1, <1>2, <1>6, <2>3 DEF Linked, r, b
<1> QED
  BY <1>3, <1>4, <1>5, <1>6, KindCases

LEMMA LinkUnpacks ==
    ASSUME NEW p \in Procs, NEW q \in Procs,
           NEW input \in Bytes, NEW rest \in Bytes, NEW u \in Bytes,
           Linked(p, q, input \o rest, u), unpack(q, input).status = "ok"
    PROVE  LET r == unpack(q, input)
           IN  /\ r.out \in Seq(Bytes) /\ r.p \in Procs
               /\ \E v \in Bytes : Joins(u, Flat(r.out), v) /\ Linked(p, r.p, rest, v)
<1> DEFINE r == unpack(q, input)
           f == Flat(r.out)
<1>1. /\ r.p \in Procs /\ r.out \in Seq(Bytes)
      /\ r.p.kind = q.kind /\ r.p.arg = q.arg
  BY UnpackSound DEF Sound
<1>2. q.kind = p.kind
  BY DEF Linked
<1> SUFFICES \E v \in Bytes : Joins(u, f, v) /\ Linked(p, r.p, rest, v)
  BY <1>1
<1>3. CASE q \in IdentityProcs /\ q.kind = "identity"
  <2>1. r = Returns(q, <<input>>)
    BY <1>3, UnpackCases
  <2>2. f = input
    BY <1>3, <2>1, IdentitySound
  <2>3. Joins(u, input, rest)
    BY <1>2, <1>3 DEF Linked, Joins
  <2> HIDE DEF r
  <2>4. Linked(p, r.p, rest, rest)
    BY <1>1, <1>2, <1>3 DEF Linked
  <2> QED
    BY <2>2, <2>3, <2>4
<1>4. CASE q \in CfbProcs /\ q.kind = "cfb"
  <2> DEFINE k == p.pack
             l == q.unpack
             d == Decrypted(l, input)
  <2>1. r = decrypt(q, input)
    BY <1>4, UnpackCases
  <2>2. l \in IdleKeys
    BY <1>4 DEF CfbProcs
  <2>3. f = d.data /\ r.p.unpack = Idle(d)
    BY <1>4, <2>1, <2>2, DecryptSound
  <2>4. CipherLink(k, l, input \o rest, u)
    BY <1>2, <1>4 DEF Linked
  <2> HIDE DEF r, k, l
  <2>5. PICK v \in Bytes : Joins(u, d.data, v) /\ CipherLink(k, Idle(d), rest, v)
    BY <2>4, CipherLinkUnpacks
  <2>6. Linked(p, r.p, rest, v)
    BY <1>1, <1>2, <1>4, <2>3, <2>5 DEF Linked, k
  <2> QED
    BY <2>3, <2>5, <2>6
<1>5. CASE q \in NonceProcs /\ q.kind = "cfb_nonce"
  <2>1. r = CfbNonceUnpack(q, input)
    BY <1>5, UnpackCases
  <2>2. p \in NonceProcs
    BY <1>2, <1>5, KindCases
  <2>3. p.arg.iv = q.arg.iv /\ NonceLink(p, q, input \o rest, u)
    BY <1>2, <1>5 DEF Linked
  <2>4. PICK v \in Bytes : Joins(u, f, v) /\ NonceLink(p, r.p, rest, v)
    BY <1>5, <2>1, <2>2, <2>3, NonceLinkUnpacks
  <2> HIDE DEF r
  <2>5. Linked(p, r.p, rest, v)
    BY <1>1, <1>2, <1>5, <2>3, <2>4 DEF Linked
  <2> QED
    BY <2>4, <2>5
<1>6. CASE q \in PaddingProcs /\ q.kind = "padding"
  <2>1. r = apply_unpack(q, input)
    BY <1>6, UnpackCases
  <2>2. PadLink(q.buffer, input \o rest, u)
    BY <1>2, <1>6 DEF Linked
  <2>3. PICK v \in Bytes : u = f \o v /\ PadLink(r.p.buffer, rest, v)
    BY <1>6, <2>1, <2>2, PadLinkUnpacks
  <2> HIDE DEF r
  <2>4. Linked(p, r.p, rest, v)
    BY <1>1, <1>2, <1>6, <2>3 DEF Linked
  <2> QED
    BY <2>3, <2>4 DEF Joins
<1> QED
  BY <1>3, <1>4, <1>5, <1>6, KindCases

LEMMA LinkDelivers ==
    ASSUME NEW p \in Procs, NEW q \in Procs, NEW u \in Bytes, Linked(p, q, <<>>, u)
    PROVE  u = <<>>
<1>1. p.kind = q.kind
  BY DEF Linked
<1>2. CASE q \in IdentityProcs /\ q.kind = "identity"
  BY <1>1, <1>2 DEF Linked
<1>3. CASE q \in CfbProcs /\ q.kind = "cfb"
  BY <1>1, <1>3, CipherLinkDelivers DEF Linked
<1>4. CASE q \in NonceProcs /\ q.kind = "cfb_nonce"
  BY <1>1, <1>4, KindCases, NonceLinkDelivers DEF Linked
<1>5. CASE q \in PaddingProcs /\ q.kind = "padding"
  BY <1>1, <1>5, PadLinkDelivers DEF Linked, PaddingProcs
<1> QED
  BY <1>2, <1>3, <1>4, <1>5, KindCases

-----------------------------------------------------------------------------
(* One processor of a chain takes a list of buffers. *)

Sides == {"local", "remote"}
Results == [p : Procs, out : Seq(Bytes), status : Statuses]

\* on_local_data or on_remote_data.
Call(side, p, buf) == IF side = "local" THEN on_local_data(p, buf) ELSE on_remote_data(p, buf)

\* What the call does; for identity it is the same.
Packs(side, p) == p.kind = "identity" \/ ((side = "local") <=> ~p.reverse)
Unpacks(side, p) == p.kind = "identity" \/ ((side = "local") <=> p.reverse)

LEMMA CallCases ==
    ASSUME NEW side \in Sides, NEW p \in Procs, NEW buf
    PROVE  /\ Packs(side, p) => Call(side, p, buf) = pack(p, buf)
           /\ Unpacks(side, p) => Call(side, p, buf) = unpack(p, buf)
           /\ Packs(side, p) \/ Unpacks(side, p)
<1>1. p.reverse \in BOOLEAN
  BY DEF Procs, IdentityProcs, CfbProcs, NonceProcs, PaddingProcs
<1>2. ASSUME p.kind = "identity" PROVE pack(p, buf) = unpack(p, buf)
  <2>1. pack(p, buf) = Returns(p, <<buf>>)
    BY <1>2, PackCases
  <2>2. unpack(p, buf) = Returns(p, <<buf>>)
    BY <1>2, UnpackCases
  <2> QED
    BY <2>1, <2>2
<1>3. Call(side, p, buf) = IF (side = "local") <=> ~p.reverse THEN pack(p, buf) ELSE unpack(p, buf)
  BY <1>1 DEF Call, on_local_data, on_remote_data
<1> QED
  BY <1>1, <1>2, <1>3 DEF Packs, Unpacks

IsResult(r) == r = [p |-> r.p, out |-> r.out, status |-> r.status]

LEMMA PackResult ==
    ASSUME NEW p \in Procs, NEW input \in Bytes
    PROVE  IsResult(pack(p, input)) /\ IsResult(unpack(p, input))
<1>1. CASE p \in IdentityProcs /\ p.kind = "identity"
  BY <1>1, PackCases, UnpackCases DEF Returns, IsResult
<1>2. CASE p \in CfbProcs /\ p.kind = "cfb"
  <2>1. pack(p, input) = encrypt(p, input) /\ unpack(p, input) = decrypt(p, input)
    BY <1>2, PackCases, UnpackCases
  <2> QED
    BY <2>1 DEF encrypt, decrypt, Returns, IsResult
<1>3. CASE p \in NonceProcs /\ p.kind = "cfb_nonce"
  <2>1. pack(p, input) = CfbNoncePack(p, input) /\ unpack(p, input) = CfbNonceUnpack(p, input)
    BY <1>3, PackCases, UnpackCases
  <2>2. IsResult(CfbNoncePack(p, input))
    BY DEF CfbNoncePack, init_pack, encrypt, Returns, Throws, IsResult
  <2>3. IsResult(CfbNonceUnpack(p, input))
    <3>1. \A x : IsResult(init_unpack(p, x))
      BY DEF init_unpack, Returns, Throws, IsResult
    <3>2. \A x, y : IsResult(decrypt(x, y)) /\ IsResult(Returns(x, y))
      BY DEF decrypt, Returns, IsResult
    <3> QED
      BY <3>1, <3>2 DEF CfbNonceUnpack
  <2> QED
    BY <2>1, <2>2, <2>3
<1>4. CASE p \in PaddingProcs /\ p.kind = "padding"
  <2>1. pack(p, input) = apply_pack(p, input) /\ unpack(p, input) = apply_unpack(p, input)
    BY <1>4, PackCases, UnpackCases
  <2>2. IsResult(apply_pack(p, input))
    BY DEF apply_pack, Returns, Hangs, IsResult
  <2>3. apply_unpack(p, input) \in PadResults
    BY <1>4, UnpackSettles
  <2>4. IsResult(apply_unpack(p, input))
    BY <2>3 DEF PadResults, IsResult
  <2> QED
    BY <2>1, <2>2, <2>4
<1> QED
  BY <1>1, <1>2, <1>3, <1>4, KindCases

LEMMA CallSound ==
    ASSUME DrawsNumbers, NEW side \in Sides, NEW p \in Procs, NEW buf \in Bytes
    PROVE  Sound(p, Call(side, p, buf)) /\ Call(side, p, buf) \in Results
<1> DEFINE r == Call(side, p, buf)
<1>1. Sound(p, r) /\ IsResult(r)
  BY CallCases, PackSound, UnpackSound, PackResult
<1> HIDE DEF r
<1>2. r \in Results
  BY <1>1 DEF Sound, IsResult, Results
<1> QED
  BY <1>1, <1>2 DEF r

LEMMA FeedOneSound ==
    ASSUME DrawsNumbers, NEW side \in Sides, NEW acc \in Results, NEW buf \in Bytes
    PROVE  LET r == Call(side, acc.p, buf)
               s == FeedOne(side, acc, buf)
           IN  /\ s \in Results
               /\ acc.status # "ok" => s = acc
               /\ acc.status = "ok" => /\ s.p = r.p /\ s.status = r.status
                                       /\ s.out = acc.out \o r.out
               /\ acc.p \in Procs /\ r \in Results /\ Sound(acc.p, r)
<1> DEFINE r == Call(side, acc.p, buf)
           s == FeedOne(side, acc, buf)
<1>1. acc.p \in Procs /\ acc.out \in Seq(Bytes)
  BY DEF Results
<1>2. r \in Results /\ Sound(acc.p, r)
  BY <1>1, CallSound
<1>3. s = IF acc.status # "ok" THEN acc ELSE [r EXCEPT !.out = acc.out \o @]
  BY DEF FeedOne, Call
<1> HIDE DEF r, s
<1>4. r.out \in Seq(Bytes) /\ acc.out \o r.out \in Seq(Bytes)
  BY <1>1, <1>2, ConcatTyped DEF Results
<1>5. [r EXCEPT !.out = acc.out \o @] \in Results
  BY <1>2, <1>4 DEF Results
<1>6. /\ [r EXCEPT !.out = acc.out \o @].p = r.p
      /\ [r EXCEPT !.out = acc.out \o @].status = r.status
      /\ [r EXCEPT !.out = acc.out \o @].out = acc.out \o r.out
  BY <1>2 DEF Results
<1> QED
  BY <1>1, <1>2, <1>3, <1>5, <1>6 DEF r, s

FeedRun(f, side, p, buffers) ==
    /\ f \in [0..Len(buffers) -> Results]
    /\ f[0] = Returns(p, <<>>)
    /\ \A i \in 1..Len(buffers) : f[i] = FeedOne(side, f[i - 1], buffers[i])

LEMMA FeedRuns ==
    ASSUME DrawsNumbers, NEW side \in Sides, NEW p \in Procs, NEW buffers \in Seq(Bytes)
    PROVE  \E f : FeedRun(f, side, p, buffers) /\ Feed(side, p, buffers) = f[Len(buffers)]
<1> DEFINE n == Len(buffers)
           start == Returns(p, <<>>)
           F(g) == [i \in 0..n |-> IF i = 0 THEN start ELSE FeedOne(side, g[i - 1], buffers[i])]
           run == CHOOSE g : g = F(g)
           step == [x \in Results \X (1..n) |-> FeedOne(side, x[1], buffers[x[2]])]
<1>1. n \in Nat /\ start \in Results
  BY DEF Returns, Results, Statuses
<1>2. step \in [Results \X (1..n) -> Results]
  <2>1. \A i \in 1..n : buffers[i] \in Bytes
    OBVIOUS
  <2>2. ASSUME NEW x \in Results \X (1..n) PROVE FeedOne(side, x[1], buffers[x[2]]) \in Results
    BY <2>1, FeedOneSound
  <2> QED
    BY <2>2
<1>3. Feed(side, p, buffers) = run[n]
  BY DEF Feed
<1> HIDE DEF n, start
<1>4. \A f : \A i \in 1..n : f[i - 1] \in Results =>
                step[<<f[i - 1], i>>] = FeedOne(side, f[i - 1], buffers[i])
  OBVIOUS
<1> HIDE DEF step
<1>5. PICK f : IsRun(f, Results, start, step, n)
  BY <1>1, <1>2, RunExists
<1>6. f = F(f)
  <2> DEFINE g == F(f)
  <2>1. g = [i \in 0..n |-> g[i]] /\ g[0] = start
    BY <1>1
  <2>2. \A i \in 1..n : g[i] = FeedOne(side, f[i - 1], buffers[i])
    BY <1>1
  <2> HIDE DEF g
  <2>3. \A i \in 1..n : f[i - 1] \in Results => g[i] = step[<<f[i - 1], i>>]
    BY <1>4, <2>2
  <2> HIDE DEF F
  <2>4. Follows(g, f, Results, start, step, n)
    BY <2>1, <2>3 DEF Follows
  <2>5. f = g
    BY <1>1, <1>5, <2>4, FollowsFixed
  <2> QED
    BY <2>5 DEF g
<1>7. run = F(run)
  <2> HIDE DEF F
  <2> QED
    BY <1>6
<1> HIDE DEF run
<1>8. run = [i \in 0..n |-> run[i]] /\ run[0] = start
  BY <1>1, <1>7
<1>9. ASSUME NEW i \in 1..n PROVE run[i] = FeedOne(side, run[i - 1], buffers[i])
  <2>1. i \in 0..n /\ i # 0
    BY <1>1
  <2>2. run[i] = F(run)[i]
    BY <1>7
  <2> QED
    BY <2>1, <2>2
<1> HIDE DEF F
<1>10. IsRun(run, Results, start, step, n)
  BY <1>1, <1>2, <1>4, <1>8, <1>9, RunTyped
<1>11. FeedRun(run, side, p, buffers)
  BY <1>9, <1>10 DEF FeedRun, IsRun, n, start
<1> QED
  BY <1>3, <1>11 DEF n

LEMMA FeedSound ==
    ASSUME DrawsNumbers, NEW side \in Sides, NEW p \in Procs, NEW buffers \in Seq(Bytes)
    PROVE  Feed(side, p, buffers) \in Results /\ Sound(p, Feed(side, p, buffers))
<1> DEFINE n == Len(buffers)
<1>1. n \in Nat /\ \A i \in 1..n : buffers[i] \in Bytes
  OBVIOUS
<1>2. PICK f : FeedRun(f, side, p, buffers) /\ Feed(side, p, buffers) = f[n]
  BY FeedRuns
<1>3. /\ \A i \in 0..n : f[i] \in Results
      /\ f[0] = Returns(p, <<>>)
      /\ \A i \in 1..n : f[i] = FeedOne(side, f[i - 1], buffers[i])
  BY <1>2 DEF FeedRun
<1> HIDE DEF n
<1> DEFINE T == {i \in 0..n : Sound(p, f[i])}
<1>4. 0 \in T
  <2>1. f[0].p = p /\ f[0].out = <<>> /\ f[0].status = "ok"
    BY <1>3 DEF Returns
  <2>2. Sound(p, f[0])
    BY <2>1 DEF Sound, Statuses
  <2> QED
    BY <1>1, <2>2
<1>5. ASSUME NEW i \in 0..(n - 1), i \in T
      PROVE  i + 1 \in T
  <2> DEFINE acc == f[i]
             b == buffers[i + 1]
             r == Call(side, acc.p, b)
             s == FeedOne(side, acc, b)
  <2>1. i + 1 \in 1..n /\ i + 1 \in 0..n /\ i \in 0..n /\ (i + 1) - 1 = i
    BY <1>1
  <2>2. f[i + 1] = s /\ acc \in Results /\ b \in Bytes /\ Sound(p, acc)
    BY <1>1, <1>3, <1>5, <2>1
  <2> HIDE DEF acc, b
  <2>3. /\ s \in Results
        /\ acc.status # "ok" => s = acc
        /\ acc.status = "ok" => s.p = r.p /\ s.status = r.status
        /\ Sound(acc.p, r)
    BY <2>2, FeedOneSound
  <2> HIDE DEF r, s
  <2>4. CASE acc.status # "ok"
    BY <2>1, <2>2, <2>3, <2>4
  <2>5. CASE acc.status = "ok"
    <3>1. /\ s.p.kind = p.kind /\ s.p.reverse = p.reverse /\ s.p.arg = p.arg
      BY <2>2, <2>3, <2>5 DEF Sound
    <3>2. s.status = "hang" => p.kind = "padding" /\ p.arg.chunk = 0
      BY <2>2, <2>3, <2>5 DEF Sound
    <3>3. s.status # "throw" /\ Small(p) => Small(s.p)
      BY <2>2, <2>3, <2>5 DEF Sound
    <3>4. Sound(p, s)
      BY <2>3, <3>1, <3>2, <3>3 DEF Sound, Results
    <3> QED
      BY <2>1, <2>2, <3>4
  <2> QED
    BY <2>4, <2>5
<1>6. n \in T
  <2> HIDE DEF T
  <2>1. 0..n \subseteq T
    BY <1>1, <1>4, <1>5, UpTo
  <2> QED
    BY <1>1, <2>1
<1> QED
  BY <1>1, <1>2, <1>3, <1>6

\* What a processor does does not change.
LEMMA SoundPacks ==
    ASSUME NEW side, NEW p, NEW r, Sound(p, r)
    PROVE  /\ Packs(side, p) => Packs(side, r.p)
           /\ Unpacks(side, p) => Unpacks(side, r.p)
BY DEF Sound, Packs, Unpacks

\* Three parts, put together from either end.
LEMMA BytesAssoc ==
    ASSUME NEW a \in Bytes, NEW b \in Bytes, NEW c \in Bytes
    PROVE  (a \o b) \o c = a \o (b \o c) /\ a \o b \in Bytes /\ b \o c \in Bytes
<1>1. a \in Seq(Byte) /\ b \in Seq(Byte) /\ c \in Seq(Byte)
  BY DEF Bytes
<1>2. (a \o b) \o c = a \o (b \o c)
  <2>1. Associates(a, b, c)
    BY ONLY <1>1, ConcatAssociates
  <2> QED
    BY <2>1 DEF Associates
<1>3. a \o b \in Seq(Byte) /\ b \o c \in Seq(Byte)
  BY ONLY <1>1, ConcatTyped
<1> QED
  BY <1>2, <1>3 DEF Bytes

LEMMA BytesAssociate ==
    ASSUME NEW a \in Bytes, NEW b \in Bytes, NEW c \in Bytes
    PROVE  Associates(a, b, c)
<1>1. a \in Seq(Byte) /\ b \in Seq(Byte) /\ c \in Seq(Byte)
  BY DEF Bytes
<1> QED
  BY <1>1, ConcatAssociates

LEMMA FeedLinkPacks ==
    ASSUME DrawsNumbers, NEW side \in Sides, NEW p \in Procs, NEW q \in Procs,
           NEW w \in Bytes, NEW u \in Bytes, Packs(side, p), Linked(p, q, w, u),
           NEW buffers \in Seq(Bytes), Feed(side, p, buffers).status = "ok"
    PROVE  LET r == Feed(side, p, buffers)
           IN  Linked(r.p, q, w \o Flat(r.out), u \o Flat(buffers))
<1> DEFINE n == Len(buffers)
<1>1. n \in Nat /\ \A i \in 1..n : buffers[i] \in Bytes
  OBVIOUS
<1>2. PICK f : FeedRun(f, side, p, buffers) /\ Feed(side, p, buffers) = f[n]
  BY FeedRuns
<1>3. /\ \A i \in 0..n : f[i] \in Results
      /\ f[0] = Returns(p, <<>>)
      /\ \A i \in 1..n : f[i] = FeedOne(side, f[i - 1], buffers[i])
  BY <1>2 DEF FeedRun
<1>4. PICK g : FlatRun(g, buffers) /\ Flat(buffers) = g[n]
  BY FlatRuns
<1>5. /\ \A i \in 0..n : g[i] \in Bytes
      /\ g[0] = <<>>
      /\ \A i \in 1..n : g[i] = g[i - 1] \o buffers[i]
  BY <1>4 DEF FlatRun
<1> HIDE DEF n
<1> DEFINE P(i) == f[i].status = "ok" =>
                      /\ Packs(side, f[i].p)
                      /\ Linked(f[i].p, q, w \o Flat(f[i].out), u \o g[i])
           T == {i \in 0..n : P(i)}
<1>6. 0 \in T
  <2>1. f[0].p = p /\ f[0].out = <<>>
    BY <1>3 DEF Returns
  <2>2. w \o <<>> = w /\ u \o <<>> = u
    BY ConcatEmpty DEF Bytes
  <2>3. P(0)
    BY <1>5, <2>1, <2>2, FlatEmpty
  <2> HIDE DEF P
  <2> QED
    BY <1>1, <2>3
<1>7. ASSUME NEW i \in 0..(n - 1), i \in T
      PROVE  i + 1 \in T
  <2> DEFINE acc == f[i]
             b == buffers[i + 1]
             r == Call(side, acc.p, b)
             s == FeedOne(side, acc, b)
             h == g[i]
             wa == w \o Flat(acc.out)
             ua == u \o h
  <2>1. i + 1 \in 1..n /\ i + 1 \in 0..n /\ i \in 0..n /\ (i + 1) - 1 = i
    BY <1>1
  <2>2. /\ f[i + 1] = s /\ acc \in Results /\ b \in Bytes
        /\ g[i + 1] = h \o b /\ h \in Bytes
        /\ acc.status = "ok" => Packs(side, acc.p) /\ Linked(acc.p, q, wa, ua)
    BY <1>1, <1>3, <1>5, <1>7, <2>1
  <2> HIDE DEF acc, b, h
  <2>3. /\ s \in Results
        /\ acc.status # "ok" => s = acc
        /\ acc.status = "ok" => s.p = r.p /\ s.status = r.status /\ s.out = acc.out \o r.out
        /\ acc.p \in Procs /\ Sound(acc.p, r) /\ r \in Results
    BY <2>2, FeedOneSound
  <2>4. acc.out \in Seq(Bytes) /\ r.out \in Seq(Bytes)
    BY <2>2, <2>3 DEF Results
  <2>5. ASSUME s.status = "ok"
        PROVE  Packs(side, s.p) /\ Linked(s.p, q, w \o Flat(s.out), u \o (h \o b))
    <3>1. acc.status = "ok" /\ r.status = "ok"
      BY <2>3, <2>5
    <3>2. r = pack(acc.p, b)
      BY <2>2, <2>3, <3>1, CallCases
    <3>3. wa \in Bytes /\ ua \in Bytes
      <4>1. Flat(acc.out) \in Bytes
        BY <2>4, FlatTyped
      <4> QED
        BY <2>2, <4>1, BytesAssoc
    <3>4. Linked(r.p, q, wa \o Flat(r.out), ua \o b)
      <4> HIDE DEF wa, ua, r
      <4> QED
        BY <2>2, <2>3, <3>1, <3>2, <3>3, LinkPacks
    <3> HIDE DEF r, s
    <3>5. wa \o Flat(r.out) = w \o Flat(s.out)
      <4> DEFINE x == Flat(acc.out)
                 y == Flat(r.out)
      <4>1. x \in Bytes /\ y \in Bytes /\ Flat(s.out) = x \o y
        BY <2>3, <2>4, <3>1, FlatTyped, FlatConcat
      <4> HIDE DEF x, y
      <4>2. (w \o x) \o y = w \o (x \o y)
        <5>1. Associates(w, x, y)
          BY <4>1, BytesAssociate
        <5> QED
          BY <5>1 DEF Associates
      <4> QED
        BY <4>1, <4>2 DEF x, y
    <3>6. ua \o b = u \o (h \o b)
      BY <2>2, BytesAssoc
    <3>7. Packs(side, s.p)
      BY <2>2, <2>3, <3>1, SoundPacks
    <3> HIDE DEF wa, ua
    <3> QED
      BY <2>3, <3>1, <3>4, <3>5, <3>6, <3>7
  <2>6. P(i + 1)
    BY <2>2, <2>5
  <2> HIDE DEF P
  <2> QED
    BY <2>1, <2>6
<1>8. n \in T
  <2> HIDE DEF T
  <2>1. 0..n \subseteq T
    BY <1>1, <1>6, <1>7, UpTo
  <2> QED
    BY <1>1, <2>1
<1> QED
  BY <1>1, <1>2, <1>4, <1>8

LEMMA FlatAfter ==
    ASSUME NEW buffers \in Seq(Bytes), NEW i \in 0..(Len(buffers) - 1)
    PROVE  /\ After(buffers, i) \in Seq(Bytes) /\ After(buffers, i + 1) \in Seq(Bytes)
           /\ buffers[i + 1] \in Bytes
           /\ Flat(After(buffers, i)) = buffers[i + 1] \o Flat(After(buffers, i + 1))
<1> DEFINE a == After(buffers, i)
           t == Tail(a)
           b == After(buffers, i + 1)
<1>0. /\ Len(buffers) \in Nat /\ i \in Nat /\ i < Len(buffers) /\ i + 1 \in 1..Len(buffers)
  OBVIOUS
<1>1. a \in Seq(Bytes) /\ a # <<>> /\ Head(a) = buffers[i + 1] /\ Tail(a) = After(buffers, i + 1)
  <2>1. /\ a \in Seq(Bytes) /\ Len(a) = Len(buffers) - i
        /\ \A k \in 1..(Len(buffers) - i) : a[k] = buffers[i + k]
    <3>1. i \in 0..Len(buffers)
      BY <1>0
    <3> QED
      BY <3>1, AfterTyped
  <2>2. /\ b \in Seq(Bytes) /\ Len(b) = Len(buffers) - (i + 1)
        /\ \A k \in 1..(Len(buffers) - (i + 1)) : b[k] = buffers[i + 1 + k]
    <3>1. i + 1 \in 0..Len(buffers)
      BY <1>0
    <3> QED
      BY <3>1, AfterTyped
  <2> HIDE DEF a, b
  <2>3. a # <<>> /\ Head(a) = buffers[i + 1]
    BY <1>0, <2>1
  <2>4. t \in Seq(Bytes) /\ Len(t) = Len(a) - 1 /\ \A k \in 1..(Len(a) - 1) : t[k] = a[k + 1]
    BY <2>1, <2>3
  <2> HIDE DEF t
  <2>5. ASSUME NEW k \in 1..Len(t) PROVE t[k] = b[k]
    <3>1. k \in 1..(Len(a) - 1) /\ k + 1 \in 1..(Len(buffers) - i) /\ i + (k + 1) = i + 1 + k
          /\ k \in 1..(Len(buffers) - (i + 1))
      BY <1>0, <2>1, <2>4
    <3> QED
      BY <2>1, <2>2, <2>4, <3>1
  <2>6. t = b
    <3>1. Len(t) = Len(b)
      BY <1>0, <2>1, <2>2, <2>4
    <3>2. t \in Seq(Bytes) /\ b \in Seq(Bytes)
      BY <2>2, <2>4
    <3> QED
      BY ONLY <2>5, <3>1, <3>2, SeqEqual
  <2> QED
    BY <2>1, <2>3, <2>6 DEF t, b
<1> HIDE DEF a, t, b
<1>2. /\ Head(a) \in Bytes /\ Tail(a) \in Seq(Bytes)
      /\ Flat(a) = Head(a) \o Flat(Tail(a))
  BY <1>1, FlatHead
<1> QED
  BY <1>1, <1>2 DEF a

LEMMA FlatAfterRest ==
    ASSUME NEW buffers \in Seq(Bytes), NEW i \in 0..(Len(buffers) - 1), NEW rest \in Bytes
    PROVE  /\ Flat(After(buffers, i + 1)) \o rest \in Bytes
           /\ Flat(After(buffers, i)) \o rest
                = buffers[i + 1] \o (Flat(After(buffers, i + 1)) \o rest)
<1> DEFINE a == Flat(After(buffers, i + 1))
           b == buffers[i + 1]
           c == Flat(After(buffers, i))
<1>1. a \in Bytes /\ b \in Bytes /\ c = b \o a
  BY FlatAfter, FlatTyped
<1> HIDE DEF a, b, c
<1>2. a \in Bytes /\ b \in Bytes
  BY <1>1
<1>3. (b \o a) \o rest = b \o (a \o rest)
  <2>1. Associates(b, a, rest)
    BY <1>2, BytesAssociate
  <2> QED
    BY <2>1 DEF Associates
<1>4. a \o rest \in Bytes
  BY <1>2, BytesAssoc
<1> QED
  BY <1>1, <1>3, <1>4 DEF a, b, c

LEMMA JoinsTwice ==
    ASSUME NEW u \in Bytes, NEW y \in Bytes, NEW v \in Bytes, NEW z \in Bytes, NEW x \in Bytes,
           Joins(u, y, v), Joins(v, z, x)
    PROVE  Joins(u, y \o z, x)
<1>1. (y \o z) \o x = y \o (z \o x)
  <2>1. Associates(y, z, x)
    BY BytesAssociate
  <2> QED
    BY <2>1 DEF Associates
<1> QED
  BY <1>1 DEF Joins

LEMMA FeedLinkUnpacks ==
    ASSUME DrawsNumbers, NEW side \in Sides, NEW p \in Procs, NEW q \in Procs,
           NEW buffers \in Seq(Bytes), NEW rest \in Bytes, NEW u \in Bytes,
           Unpacks(side, q), Linked(p, q, Flat(buffers) \o rest, u),
           Feed(side, q, buffers).status = "ok"
    PROVE  LET r == Feed(side, q, buffers)
           IN  \E v \in Bytes : Joins(u, Flat(r.out), v) /\ Linked(p, r.p, rest, v)
<1> DEFINE n == Len(buffers)
           R(i) == Flat(After(buffers, i)) \o rest
<1>1. n \in Nat /\ \A i \in 1..n : buffers[i] \in Bytes
  OBVIOUS
<1>2. PICK f : FeedRun(f, side, q, buffers) /\ Feed(side, q, buffers) = f[n]
  BY FeedRuns
<1>3. /\ \A i \in 0..n : f[i] \in Results
      /\ f[0] = Returns(q, <<>>)
      /\ \A i \in 1..n : f[i] = FeedOne(side, f[i - 1], buffers[i])
  BY <1>2 DEF FeedRun
<1>4. After(buffers, 0) = buffers /\ After(buffers, n) = <<>>
  BY DEF After
<1>5. R(0) = Flat(buffers) \o rest /\ R(n) = rest
  <2>1. <<>> \o rest = rest
    BY ConcatEmpty DEF Bytes
  <2> QED
    BY <1>4, <2>1, FlatEmpty
<1>6. \A i \in 0..(n - 1) : /\ R(i + 1) \in Bytes
                            /\ R(i) = buffers[i + 1] \o R(i + 1)
  BY FlatAfterRest
<1> HIDE DEF n
<1> DEFINE Q(i, v) == Joins(u, Flat(f[i].out), v) /\ Linked(p, f[i].p, R(i), v)
           P(i) == f[i].status = "ok" => Unpacks(side, f[i].p) /\ \E v \in Bytes : Q(i, v)
           T == {i \in 0..n : P(i)}
<1>7. 0 \in T
  <2>1. f[0].p = q /\ f[0].out = <<>>
    BY <1>3 DEF Returns
  <2>2. Joins(u, <<>>, u)
    BY ConcatEmpty DEF Bytes, Joins
  <2> HIDE DEF R
  <2>3. Q(0, u)
    BY <1>5, <2>1, <2>2, FlatEmpty
  <2> HIDE DEF Q
  <2>4. P(0)
    BY <2>1, <2>3
  <2> HIDE DEF P
  <2> QED
    BY <1>1, <2>4
<1>8. ASSUME NEW i \in 0..(n - 1), i \in T
      PROVE  i + 1 \in T
  <2> DEFINE acc == f[i]
             b == buffers[i + 1]
             r == Call(side, acc.p, b)
             s == FeedOne(side, acc, b)
             more == R(i + 1)
  <2>1. i + 1 \in 1..n /\ i + 1 \in 0..n /\ i \in 0..n /\ (i + 1) - 1 = i
    BY <1>1
  <2>2. f[i + 1] = s /\ acc \in Results /\ b \in Bytes
    BY <1>1, <1>3, <2>1
  <2>3. acc.status = "ok" => /\ Unpacks(side, acc.p)
                             /\ \E v \in Bytes : Joins(u, Flat(acc.out), v) /\ Linked(p, acc.p, R(i), v)
    BY <1>8
  <2>4. more \in Bytes /\ R(i) = b \o more
    BY <1>6
  <2> HIDE DEF acc, b, more, R
  <2>5. /\ s \in Results
        /\ acc.status # "ok" => s = acc
        /\ acc.status = "ok" => s.p = r.p /\ s.status = r.status /\ s.out = acc.out \o r.out
        /\ acc.p \in Procs /\ Sound(acc.p, r) /\ r \in Results
    BY <2>2, FeedOneSound
  <2>6. acc.out \in Seq(Bytes) /\ r.out \in Seq(Bytes)
    BY <2>2, <2>5 DEF Results
  <2>7. ASSUME s.status = "ok"
        PROVE  /\ Unpacks(side, s.p)
               /\ \E v \in Bytes : Joins(u, Flat(s.out), v) /\ Linked(p, s.p, more, v)
    <3>1. acc.status = "ok" /\ r.status = "ok"
      BY <2>5, <2>7
    <3>2. r = unpack(acc.p, b)
      BY <2>2, <2>3, <2>5, <3>1, CallCases
    <3>3. PICK v \in Bytes : Joins(u, Flat(acc.out), v) /\ Linked(p, acc.p, b \o more, v)
      BY <2>3, <2>4, <3>1
    <3> HIDE DEF r
    <3>4. PICK x \in Bytes : Joins(v, Flat(r.out), x) /\ Linked(p, r.p, more, x)
      BY <2>2, <2>4, <2>5, <3>1, <3>2, <3>3, LinkUnpacks
    <3> HIDE DEF s
    <3>5. Joins(u, Flat(s.out), x)
      <4> DEFINE y == Flat(acc.out)
                 z == Flat(r.out)
      <4>1. y \in Bytes /\ z \in Bytes /\ Flat(s.out) = y \o z
        BY <2>5, <2>6, <3>1, FlatTyped, FlatConcat
      <4>2. Joins(u, y, v) /\ Joins(v, z, x)
        BY <3>3, <3>4
      <4> HIDE DEF y, z
      <4> QED
        BY <4>1, <4>2, JoinsTwice
    <3>6. Unpacks(side, s.p)
      BY <2>3, <2>5, <3>1, SoundPacks
    <3> QED
      BY <2>5, <3>1, <3>4, <3>5, <3>6
  <2>8. P(i + 1)
    BY <2>2, <2>7 DEF more
  <2> HIDE DEF P
  <2> QED
    BY <2>1, <2>8
<1>9. n \in T
  <2> HIDE DEF T
  <2>1. 0..n \subseteq T
    BY <1>1, <1>7, <1>8, UpTo
  <2> QED
    BY <1>1, <2>1
<1> HIDE DEF R
<1> QED
  BY <1>1, <1>2, <1>5, <1>9

-----------------------------------------------------------------------------
(* A chain takes a list of buffers. *)

\* The position of the i-th processor that is visited.
At(side, n, i) == IF side = "local" THEN i ELSE n + 1 - i

ChainResults(n) == [p : [1..n -> Procs], out : Seq(Bytes), status : Statuses]

LEMMA AtTyped ==
    ASSUME NEW side \in Sides, NEW n \in Nat, NEW i \in 1..n
    PROVE  /\ At(side, n, i) \in 1..n
           /\ \A j \in 1..n : At(side, n, j) = At(side, n, i) => j = i
BY DEF At, Sides

LEMMA AtRange ==
    ASSUME NEW side \in Sides, NEW n \in Nat, NEW i \in 1..n
    PROVE  At(side, n, i) \in 1..n
BY DEF At, Sides

\* What the visit of one processor does to the chain.
VisitedOne(side, n, acc, k) ==
    LET r == Feed(side, acc.p[k], acc.out)
        s == VisitOne(side, acc, k)
    IN  /\ s \in ChainResults(n)
        /\ acc.status # "ok" => s = acc
        /\ acc.status = "ok" => /\ s.p = [acc.p EXCEPT ![k] = r.p]
                                /\ s.out = r.out /\ s.status = r.status
        /\ acc.p \in [1..n -> Procs]
        /\ Sound(acc.p[k], r)

LEMMA VisitOneSound ==
    ASSUME DrawsNumbers, NEW side \in Sides, NEW n \in Nat,
           NEW acc \in ChainResults(n), NEW k \in 1..n
    PROVE  VisitedOne(side, n, acc, k)
<1> DEFINE r == Feed(side, acc.p[k], acc.out)
           s == VisitOne(side, acc, k)
<1>1. acc.p \in [1..n -> Procs] /\ acc.p[k] \in Procs /\ acc.out \in Seq(Bytes)
  BY DEF ChainResults
<1>2. r \in Results /\ Sound(acc.p[k], r)
  <2> DEFINE p == acc.p[k]
             b == acc.out
  <2>1. p \in Procs /\ b \in Seq(Bytes)
    BY <1>1
  <2> HIDE DEF p, b
  <2> QED
    BY <2>1, FeedSound DEF p, b
<1>3. s = IF acc.status # "ok" THEN acc ELSE [r EXCEPT !.p = [acc.p EXCEPT ![k] = r.p]]
  BY DEF VisitOne
<1> HIDE DEF r, s
<1> DEFINE c == [acc.p EXCEPT ![k] = r.p]
<1>4. c \in [1..n -> Procs]
  BY <1>1, <1>2 DEF Results
<1>5. s = IF acc.status # "ok" THEN acc ELSE [r EXCEPT !.p = c]
  BY <1>3
<1> HIDE DEF c
<1>6. /\ [r EXCEPT !.p = c] \in ChainResults(n)
      /\ [r EXCEPT !.p = c].p = c
      /\ [r EXCEPT !.p = c].status = r.status
      /\ [r EXCEPT !.p = c].out = r.out
  BY <1>2, <1>4 DEF Results, ChainResults
<1>7. /\ s \in ChainResults(n)
      /\ acc.status # "ok" => s = acc
      /\ acc.status = "ok" => s.p = c /\ s.out = r.out /\ s.status = r.status
  BY <1>5, <1>6
<1> QED
  BY ONLY <1>1, <1>2, <1>7 DEF VisitedOne, r, s, c

VisitRun(f, side, c, buffers) ==
    /\ f \in [0..Len(c) -> ChainResults(Len(c))]
    /\ f[0] = Returns(c, buffers)
    /\ \A i \in 1..Len(c) : f[i] = VisitOne(side, f[i - 1], At(side, Len(c), i))

LEMMA VisitRuns ==
    ASSUME DrawsNumbers, NEW side \in Sides, NEW c \in Seq(Procs), NEW buffers \in Seq(Bytes)
    PROVE  \E f : VisitRun(f, side, c, buffers) /\ Visit(side, c, buffers) = f[Len(c)]
<1> DEFINE n == Len(c)
           S == ChainResults(n)
           start == Returns(c, buffers)
           F(g) == [i \in 0..n |-> IF i = 0 THEN start ELSE VisitOne(side, g[i - 1], At(side, n, i))]
           run == CHOOSE g : g = F(g)
           step == [x \in S \X (1..n) |-> VisitOne(side, x[1], At(side, n, x[2]))]
<1>1. n \in Nat /\ start \in S
  <2>1. n \in Nat /\ c \in [1..n -> Procs]
    OBVIOUS
  <2> QED
    BY <2>1 DEF Returns, ChainResults, Statuses
<1>3. Visit(side, c, buffers) = run[n]
  BY DEF Visit, At
<1> HIDE DEF n, start
<1>2. step \in [S \X (1..n) -> S]
  <2>2. ASSUME NEW x \in S \X (1..n) PROVE VisitOne(side, x[1], At(side, n, x[2])) \in S
    <3>1. x[1] \in ChainResults(n) /\ At(side, n, x[2]) \in 1..n
      BY <1>1, AtTyped
    <3> QED
      BY <1>1, <3>1, VisitOneSound DEF VisitedOne
  <2> QED
    BY <2>2
<1> HIDE DEF S
<1>4. \A f : \A i \in 1..n : f[i - 1] \in S =>
                step[<<f[i - 1], i>>] = VisitOne(side, f[i - 1], At(side, n, i))
  OBVIOUS
<1> HIDE DEF step
<1>5. PICK f : IsRun(f, S, start, step, n)
  BY <1>1, <1>2, RunExists
<1>6. f = F(f)
  <2> DEFINE g == F(f)
  <2>1. g = [i \in 0..n |-> g[i]] /\ g[0] = start
    BY <1>1
  <2>2. \A i \in 1..n : g[i] = VisitOne(side, f[i - 1], At(side, n, i))
    BY <1>1
  <2> HIDE DEF g
  <2>3. \A i \in 1..n : f[i - 1] \in S => g[i] = step[<<f[i - 1], i>>]
    BY <1>4, <2>2
  <2> HIDE DEF F
  <2>4. Follows(g, f, S, start, step, n)
    BY <2>1, <2>3 DEF Follows
  <2>5. f = g
    BY <1>1, <1>5, <2>4, FollowsFixed
  <2> QED
    BY <2>5 DEF g
<1>7. run = F(run)
  <2> HIDE DEF F
  <2> QED
    BY <1>6
<1> HIDE DEF run
<1>8. run = [i \in 0..n |-> run[i]] /\ run[0] = start
  BY <1>1, <1>7
<1>9. ASSUME NEW i \in 1..n PROVE run[i] = VisitOne(side, run[i - 1], At(side, n, i))
  <2>1. i \in 0..n /\ i # 0
    BY <1>1
  <2>2. run[i] = F(run)[i]
    BY <1>7
  <2> QED
    BY <2>1, <2>2
<1> HIDE DEF F
<1>10. IsRun(run, S, start, step, n)
  BY <1>1, <1>2, <1>4, <1>8, <1>9, RunTyped
<1>11. VisitRun(run, side, c, buffers)
  BY <1>9, <1>10 DEF VisitRun, IsRun, n, S, start
<1> QED
  BY <1>3, <1>11 DEF n

\* What every call of a chain promises, whatever the input is.
ChainSound(c, r) ==
    /\ r \in ChainResults(Len(c))
    /\ \A k \in 1..Len(c) : Same(c[k], r.p[k])
    /\ r.status = "hang" => \E k \in 1..Len(c) : c[k].kind = "padding" /\ c[k].arg.chunk = 0
    /\ r.status # "throw" /\ (\A k \in 1..Len(c) : Small(c[k]))
         => \A k \in 1..Len(c) : Small(r.p[k])

LEMMA ChainSoundStart ==
    ASSUME NEW c \in Seq(Procs), NEW buffers \in Seq(Bytes)
    PROVE  ChainSound(c, Returns(c, buffers))
<1> DEFINE r == Returns(c, buffers)
<1>1. r.p = c /\ r.out = buffers /\ r.status = "ok" /\ r = [p |-> c, out |-> buffers, status |-> "ok"]
  BY DEF Returns
<1>2. c \in [1..Len(c) -> Procs]
  OBVIOUS
<1> HIDE DEF r
<1> QED
  BY <1>1, <1>2 DEF ChainSound, ChainResults, Statuses, Same, r

LEMMA ChainSoundStep ==
    ASSUME DrawsNumbers, NEW side \in Sides, NEW c \in Seq(Procs), NEW acc,
           ChainSound(c, acc), NEW k \in 1..Len(c)
    PROVE  ChainSound(c, VisitOne(side, acc, k))
<1> DEFINE n == Len(c)
           r == Feed(side, acc.p[k], acc.out)
           s == VisitOne(side, acc, k)
<1>1. n \in Nat /\ acc \in ChainResults(n)
  BY DEF ChainSound
<1>2. /\ s \in ChainResults(n)
      /\ acc.status # "ok" => s = acc
      /\ acc.status = "ok" => /\ s.p = [acc.p EXCEPT ![k] = r.p]
                              /\ s.out = r.out /\ s.status = r.status
      /\ acc.p \in [1..n -> Procs]
      /\ Sound(acc.p[k], r)
  <2>1. k \in 1..n
    OBVIOUS
  <2> HIDE DEF n
  <2>2. VisitedOne(side, n, acc, k)
    BY <1>1, <2>1, VisitOneSound
  <2> QED
    BY ONLY <2>2 DEF VisitedOne
<1>3. CASE acc.status # "ok"
  BY <1>2, <1>3
<1>4. CASE acc.status = "ok"
  <2> HIDE DEF r, s
  <2>1. \A j \in 1..n : s.p[j] = IF j = k THEN r.p ELSE acc.p[j]
    BY <1>2, <1>4
  <2>2. Same(acc.p[k], r.p) /\ Same(c[k], acc.p[k])
    BY <1>2 DEF Sound, Same, ChainSound
  <2>3. ASSUME NEW j \in 1..n PROVE Same(c[j], s.p[j])
    BY <2>1, <2>2 DEF Same, ChainSound
  <2>4. s.status = "hang" => \E j \in 1..n : c[j].kind = "padding" /\ c[j].arg.chunk = 0
    BY <1>2, <1>4, <2>2 DEF Sound, Same
  <2>5. ASSUME s.status # "throw", \A j \in 1..n : Small(c[j]), NEW j \in 1..n
        PROVE  Small(s.p[j])
    <3>1. \A i \in 1..n : Small(acc.p[i])
      BY <1>4, <2>5 DEF ChainSound
    <3> QED
      BY <1>2, <1>4, <2>1, <2>5, <3>1 DEF Sound
  <2> QED
    BY <1>2, <2>3, <2>4, <2>5 DEF ChainSound, s
<1> QED
  BY <1>3, <1>4

LEMMA VisitSound ==
    ASSUME DrawsNumbers, NEW side \in Sides, NEW c \in Seq(Procs), NEW buffers \in Seq(Bytes)
    PROVE  ChainSound(c, Visit(side, c, buffers))
<1> DEFINE n == Len(c)
<1>1. n \in Nat
  OBVIOUS
<1>2. PICK f : VisitRun(f, side, c, buffers) /\ Visit(side, c, buffers) = f[n]
  BY VisitRuns
<1>3. /\ f[0] = Returns(c, buffers)
      /\ \A i \in 1..n : f[i] = VisitOne(side, f[i - 1], At(side, n, i))
  BY <1>2 DEF VisitRun
<1> DEFINE T == {i \in 0..n : ChainSound(c, f[i])}
<1>4. 0 \in T
  BY <1>1, <1>3, ChainSoundStart
<1>5. ASSUME NEW i \in 0..(n - 1), i \in T
      PROVE  i + 1 \in T
  <2> DEFINE acc == f[i]
             k == At(side, n, i + 1)
  <2>1. i + 1 \in 1..n /\ i + 1 \in 0..n /\ (i + 1) - 1 = i
    BY <1>1
  <2>2. f[i + 1] = VisitOne(side, acc, k) /\ k \in 1..n /\ ChainSound(c, acc)
    BY <1>1, <1>3, <1>5, <2>1, AtTyped
  <2> HIDE DEF acc, k
  <2>3. ChainSound(c, VisitOne(side, acc, k))
    BY <2>2, ChainSoundStep
  <2> QED
    BY <2>1, <2>2, <2>3
<1>6. n \in T
  <2> HIDE DEF T, n
  <2>1. 0..n \subseteq T
    BY <1>1, <1>4, <1>5, UpTo
  <2> QED
    BY <1>1, <2>1
<1> QED
  BY <1>2, <1>6

\* A call that returns went through every processor, each with the buffers of
\* the one before: the j-th takes a and gives b, and d is the chain behind.
Stage(side, c, d, j, a, b) ==
    LET k == At(side, Len(c), j)
        s == Feed(side, c[k], a)
    IN  s.status = "ok" /\ s.out = b /\ s.p = d[k]

LEMMA VisitStages ==
    ASSUME DrawsNumbers, NEW side \in Sides, NEW c \in Seq(Procs), NEW buffers \in Seq(Bytes),
           Visit(side, c, buffers).status = "ok"
    PROVE  LET r == Visit(side, c, buffers)
               n == Len(c)
           IN  \E outs \in [0..n -> Seq(Bytes)] :
                  /\ outs[0] = buffers /\ outs[n] = r.out
                  /\ \A j \in 1..n : Stage(side, c, r.p, j, outs[j - 1], outs[j])
<1> DEFINE n == Len(c)
           K(j) == At(side, n, j)
<1>1. n \in Nat
  OBVIOUS
<1>2. PICK f : VisitRun(f, side, c, buffers) /\ Visit(side, c, buffers) = f[n]
  BY VisitRuns
<1>3. /\ f[0] = Returns(c, buffers)
      /\ \A i \in 0..n : f[i] \in ChainResults(n)
      /\ \A i \in 1..n : f[i] = VisitOne(side, f[i - 1], K(i))
  BY <1>2 DEF VisitRun
<1>4. \A j \in 1..n : K(j) \in 1..n /\ \A i \in 1..n : K(i) = K(j) => i = j
  BY <1>1, AtTyped
<1> DEFINE outs == [i \in 0..n |-> f[i].out]
<1>5. outs \in [0..n -> Seq(Bytes)] /\ \A i \in 0..n : outs[i] = f[i].out
  BY <1>3 DEF ChainResults
<1>6. outs[0] = buffers /\ outs[n] = f[n].out
  BY <1>1, <1>3, <1>5 DEF Returns
<1> HIDE DEF outs, K
<1> DEFINE Before(i) == \A j \in 1..n : j > i => f[i].p[K(j)] = c[K(j)]
           Behind0(i) == \A j \in 1..n : j <= i => Stage(side, c, f[i].p, j, outs[j - 1], outs[j])
           P(i) == f[i].status = "ok" => Before(i) /\ Behind0(i)
           T == {i \in 0..n : P(i)}
<1>7. 0 \in T
  <2>1. Before(0) /\ Behind0(0)
    BY <1>1, <1>3 DEF Returns
  <2> HIDE DEF Before, Behind0
  <2> QED
    BY <1>1, <2>1
<1>8. ASSUME NEW i \in 0..(n - 1), i \in T
      PROVE  i + 1 \in T
  <2> DEFINE acc == f[i]
             k == K(i + 1)
             r == Feed(side, acc.p[k], acc.out)
             s == VisitOne(side, acc, k)
  <2>1. i + 1 \in 1..n /\ i + 1 \in 0..n /\ i \in 0..n /\ (i + 1) - 1 = i
    BY <1>1
  <2>2. f[i + 1] = s /\ k \in 1..n /\ acc \in ChainResults(n) /\ outs[i] = acc.out
    BY <1>3, <1>4, <1>5, <2>1
  <2>3. acc.status = "ok" => Before(i) /\ Behind0(i)
    BY <1>8
  <2>4. ASSUME s.status = "ok" PROVE Before(i + 1) /\ Behind0(i + 1)
    <3>1. /\ acc.status # "ok" => s = acc
          /\ acc.status = "ok" => /\ s.p = [acc.p EXCEPT ![k] = r.p]
                                  /\ s.out = r.out /\ s.status = r.status
          /\ acc.p \in [1..n -> Procs]
      <4> HIDE DEF acc, k
      <4>1. n \in Nat /\ acc \in ChainResults(n) /\ k \in 1..n
        BY <1>1, <2>2
      <4> HIDE DEF n
      <4>2. VisitedOne(side, n, acc, k)
        BY <4>1, VisitOneSound
      <4> QED
        BY ONLY <4>2 DEF VisitedOne
    <3>2. acc.status = "ok" /\ r.status = "ok" /\ s.p = [acc.p EXCEPT ![k] = r.p] /\ s.out = r.out
      BY <2>4, <3>1
    <3>3. \A j \in 1..n : K(j) \in 1..n /\ s.p[K(j)] = IF j = i + 1 THEN r.p ELSE acc.p[K(j)]
      <4> HIDE DEF acc, r, s
      <4> QED
        BY <1>4, <2>1, <2>2, <3>1, <3>2
    <3>4. acc.p[k] = c[k]
      <4>1. i + 1 > i
        BY <1>1
      <4>2. Before(i)
        BY <2>3, <3>2
      <4> QED
        BY <2>1, <4>1, <4>2
    <3>5. outs[i + 1] = r.out
      BY <1>5, <2>1, <2>2, <3>2
    <3> HIDE DEF s
    <3>6. Before(i + 1)
      <4> HIDE DEF r
      <4> SUFFICES ASSUME NEW j \in 1..n, j > i + 1 PROVE f[i + 1].p[K(j)] = c[K(j)]
        OBVIOUS
      <4>1. j > i /\ j # i + 1
        BY <1>1, <2>1
      <4> QED
        BY <2>2, <2>3, <3>2, <3>3, <4>1
    <3>7. ASSUME NEW j \in 1..n, j <= i + 1
          PROVE  Stage(side, c, s.p, j, outs[j - 1], outs[j])
      <4>1. CASE j = i + 1
        <5>1. s.p[K(j)] = r.p /\ j - 1 = i
          BY <3>3, <2>1, <4>1
        <5>2. r = Feed(side, c[K(j)], outs[j - 1])
          BY <2>2, <3>4, <4>1, <5>1
        <5> QED
          BY <3>2, <3>5, <4>1, <5>1, <5>2 DEF Stage, K
      <4>2. CASE j <= i
        <5>1. Stage(side, c, acc.p, j, outs[j - 1], outs[j])
          BY <2>3, <3>2, <4>2
        <5>2. s.p[K(j)] = acc.p[K(j)]
          BY <2>1, <3>3, <4>2
        <5> HIDE DEF acc
        <5> QED
          BY <5>1, <5>2 DEF Stage, K
      <4>3. j = i + 1 \/ j <= i
        BY <1>1, <2>1, <3>7
      <4> QED
        BY <4>1, <4>2, <4>3
    <3> QED
      BY <2>2, <3>6, <3>7
  <2>5. P(i + 1)
    BY <2>2, <2>4
  <2> HIDE DEF P
  <2> QED
    BY <2>1, <2>5
<1>9. n \in T
  <2> HIDE DEF T, n
  <2>1. 0..n \subseteq T
    BY <1>1, <1>7, <1>8, UpTo
  <2> QED
    BY <1>1, <2>1
<1>10. ASSUME NEW j \in 1..n PROVE Stage(side, c, f[n].p, j, outs[j - 1], outs[j])
  BY <1>1, <1>2, <1>9
<1> HIDE DEF T
<1> QED
  BY <1>2, <1>5, <1>6, <1>10

-----------------------------------------------------------------------------
(* The two ends of a chain. *)

\* c packs and d, in the opposite order, unpacks.  U[i] is what was given to
\* the stages up to i of c and has not been given back by their counterparts
\* in d: U[0] of the chain, U[Len(c)] is what is on the way.
ChainLink(side, c, d, U) ==
    LET m == Len(c)
    IN  /\ Len(d) = m /\ U \in [0..m -> Bytes]
        /\ \A k \in 1..m : Packs(side, c[k]) /\ Unpacks(side, d[k])
        /\ \A i \in 1..m : Linked(c[At(side, m, i)], d[At(side, m, m + 1 - i)], U[i], U[i - 1])

LEMMA ChainTyped ==
    ASSUME NEW n \in Nat, NEW c \in [1..n -> Procs]
    PROVE  c \in Seq(Procs) /\ Len(c) = n
OBVIOUS

\* The chain behind a call.
LEMMA VisitKeeps ==
    ASSUME DrawsNumbers, NEW side \in Sides, NEW c \in Seq(Procs), NEW buffers \in Seq(Bytes)
    PROVE  LET r == Visit(side, c, buffers)
           IN  /\ r.p \in Seq(Procs) /\ Len(r.p) = Len(c) /\ r.out \in Seq(Bytes)
               /\ r.status \in Statuses
               /\ \A x, k : k \in 1..Len(c) => /\ Packs(x, c[k]) => Packs(x, r.p[k])
                                               /\ Unpacks(x, c[k]) => Unpacks(x, r.p[k])
<1> DEFINE r == Visit(side, c, buffers)
<1>1. ChainSound(c, r)
  BY VisitSound
<1> HIDE DEF r
<1>2. r \in ChainResults(Len(c)) /\ \A k \in 1..Len(c) : Same(c[k], r.p[k])
  BY <1>1 DEF ChainSound
<1>3. Len(c) \in Nat /\ r.p \in [1..Len(c) -> Procs] /\ r.out \in Seq(Bytes) /\ r.status \in Statuses
  BY <1>2 DEF ChainResults
<1>4. r.p \in Seq(Procs) /\ Len(r.p) = Len(c)
  <2> DEFINE d == r.p
             n == Len(c)
  <2>1. d \in [1..n -> Procs] /\ n \in Nat
    BY <1>3
  <2> HIDE DEF d, n
  <2> QED
    BY <2>1, ChainTyped DEF d, n
<1>5. ASSUME NEW x, NEW k \in 1..Len(c)
      PROVE  (Packs(x, c[k]) => Packs(x, r.p[k])) /\ (Unpacks(x, c[k]) => Unpacks(x, r.p[k]))
  BY <1>2 DEF Same, Packs, Unpacks
<1> QED
  BY <1>3, <1>4, <1>5 DEF r

\* A chain packs buffers: they wait behind what its peer has to give back.
Packed(side, c, d, U, buffers, r) ==
    \E V : /\ ChainLink(side, r.p, d, V)
           /\ V[0] = U[0] \o Flat(buffers)
           /\ V[Len(c)] = U[Len(c)] \o Flat(r.out)

LEMMA VisitPacks ==
    ASSUME DrawsNumbers, NEW side \in Sides, NEW c \in Seq(Procs), NEW d \in Seq(Procs), NEW U,
           ChainLink(side, c, d, U), NEW buffers \in Seq(Bytes),
           Visit(side, c, buffers).status = "ok"
    PROVE  Packed(side, c, d, U, buffers, Visit(side, c, buffers))
<1> DEFINE m == Len(c)
           r == Visit(side, c, buffers)
           e == r.p
<1>1. m \in Nat
  OBVIOUS
<1>2. /\ e \in Seq(Procs) /\ Len(e) = m
      /\ \A k \in 1..m : Packs(side, c[k]) => Packs(side, e[k])
  BY VisitKeeps
<1>3. PICK outs \in [0..m -> Seq(Bytes)] :
        /\ outs[0] = buffers /\ outs[m] = r.out
        /\ \A j \in 1..m : Stage(side, c, e, j, outs[j - 1], outs[j])
  BY VisitStages
<1> HIDE DEF r, e
<1> DEFINE V == [j \in 0..m |-> U[j] \o Flat(outs[j])]
<1>4. \A j \in 0..m : U[j] \in Bytes /\ outs[j] \in Seq(Bytes)
  BY DEF ChainLink
<1>5. ASSUME NEW j \in 0..m PROVE U[j] \o Flat(outs[j]) \in Bytes
  <2> DEFINE a == U[j]
             b == Flat(outs[j])
  <2>1. a \in Bytes /\ b \in Bytes
    BY <1>4, FlatTyped
  <2> HIDE DEF a, b
  <2>2. a \o b \in Bytes
    BY <2>1, BytesAssoc
  <2> QED
    BY <2>2 DEF a, b
<1>6. V \in [0..m -> Bytes]
  BY <1>5
<1>7. ASSUME NEW i \in 1..m
      PROVE  Linked(e[At(side, m, i)], d[At(side, m, m + 1 - i)], V[i], V[i - 1])
  <2> DEFINE k == At(side, m, i)
             l == At(side, m, m + 1 - i)
             p == c[k]
             q == d[l]
             w == U[i]
             u == U[i - 1]
             a == outs[i - 1]
             b == outs[i]
             s == Feed(side, p, a)
  <2>1. /\ i \in 0..m /\ i - 1 \in 0..m /\ m + 1 - i \in 1..m /\ Len(d) = m
    BY <1>1 DEF ChainLink
  <2>2. k \in 1..m /\ l \in 1..m
    BY <1>1, <2>1, AtRange
  <2>3. p \in Procs /\ q \in Procs /\ w \in Bytes /\ u \in Bytes /\ a \in Seq(Bytes)
    <3>1. \A x \in 1..m : c[x] \in Procs
      OBVIOUS
    <3>2. \A x \in 1..m : d[x] \in Procs
      BY <2>1
    <3> HIDE DEF k, l
    <3> QED
      BY <1>4, <2>1, <2>2, <3>1, <3>2
  <2>4. Packs(side, p) /\ Linked(p, q, w, u)
    BY <2>2 DEF ChainLink
  <2>5. s.status = "ok" /\ s.out = b /\ s.p = e[k]
    BY <1>3 DEF Stage
  <2>6. V[i] = w \o Flat(b) /\ V[i - 1] = u \o Flat(a)
    BY <2>1
  <2> HIDE DEF V, k, l, p, q, w, u, a, b
  <2>7. Linked(s.p, q, w \o Flat(s.out), u \o Flat(a))
    BY <2>3, <2>4, <2>5, FeedLinkPacks
  <2> HIDE DEF s
  <2>8. Linked(e[k], q, V[i], V[i - 1])
    BY <2>5, <2>6, <2>7
  <2> QED
    BY <2>8 DEF k, l, q
<1>8. V[0] = U[0] \o Flat(buffers) /\ V[m] = U[m] \o Flat(r.out)
  <2>1. 0 \in 0..m /\ m \in 0..m
    BY <1>1
  <2>2. V[0] = U[0] \o Flat(outs[0]) /\ V[m] = U[m] \o Flat(outs[m])
    BY <2>1
  <2> QED
    BY <1>3, <2>2
<1> HIDE DEF V
<1>9. ChainLink(side, e, d, V)
  <2>1. Len(d) = m /\ \A k \in 1..m : Packs(side, e[k]) /\ Unpacks(side, d[k])
    BY <1>2 DEF ChainLink
  <2> QED
    BY <1>2, <1>6, <1>7, <2>1 DEF ChainLink
<1> QED
  BY <1>8, <1>9 DEF r, e, Packed

\* What is joined to a given beginning is what is left behind it.
LEMMA JoinsAfter ==
    ASSUME NEW t, NEW a \in Bytes, NEW b \in Bytes, Joins(t, a, b)
    PROVE  b = After(t, Len(a)) /\ t \in Bytes
<1>1. a \in Seq(Byte) /\ b \in Seq(Byte)
  BY DEF Bytes
<1>2. After(a \o b, Len(a)) = b
  BY ONLY <1>1, BeginsConcat
<1>3. a \o b \in Seq(Byte)
  BY ONLY <1>1, ConcatTyped
<1> QED
  BY <1>2, <1>3 DEF Joins, Bytes

\* A chain unpacks buffers from the front of what is on its way.
Unpacked(side, c, U, rest, r) ==
    \E V : /\ ChainLink(side, c, r.p, V)
           /\ Joins(U[0], Flat(r.out), V[0])
           /\ V[Len(c)] = rest

LEMMA VisitUnpacks ==
    ASSUME DrawsNumbers, NEW side \in Sides, NEW c \in Seq(Procs), NEW d \in Seq(Procs), NEW U,
           ChainLink(side, c, d, U), NEW buffers \in Seq(Bytes), NEW rest \in Bytes,
           Joins(U[Len(c)], Flat(buffers), rest),
           Visit(side, d, buffers).status = "ok"
    PROVE  Unpacked(side, c, U, rest, Visit(side, d, buffers))
<1> DEFINE m == Len(c)
           r == Visit(side, d, buffers)
           e == r.p
<1>1. m \in Nat /\ Len(d) = m /\ \A i \in 0..m : U[i] \in Bytes
  <2>1. m \in Nat
    OBVIOUS
  <2>2. Len(d) = m /\ U \in [0..m -> Bytes]
    BY DEF ChainLink
  <2> HIDE DEF m
  <2> QED
    BY <2>1, <2>2
<1>2. /\ e \in Seq(Procs) /\ Len(e) = m
      /\ \A k \in 1..m : Unpacks(side, d[k]) => Unpacks(side, e[k])
  BY <1>1, VisitKeeps
<1>3. PICK outs \in [0..m -> Seq(Bytes)] :
        /\ outs[0] = buffers /\ outs[m] = r.out
        /\ \A j \in 1..m : Stage(side, d, e, j, outs[j - 1], outs[j])
  <2> DEFINE n == Len(d)
  <2>1. \E outs \in [0..n -> Seq(Bytes)] :
          /\ outs[0] = buffers /\ outs[n] = r.out
          /\ \A j \in 1..n : Stage(side, d, e, j, outs[j - 1], outs[j])
    BY VisitStages
  <2>2. n = m
    BY <1>1
  <2> HIDE DEF r, e, n, m
  <2> QED
    BY <2>1, <2>2
<1>4. \A k \in 1..m : c[k] \in Procs /\ d[k] \in Procs
  BY <1>1
<1> HIDE DEF r, e, m
<1> DEFINE V == [i \in 0..m |-> After(U[i], Len(Flat(outs[m - i])))]
           P(j) == V[m - j] \in Bytes /\ Joins(U[m - j], Flat(outs[j]), V[m - j])
           L(j) == Linked(c[At(side, m, m + 1 - j)], e[At(side, m, j)], V[m + 1 - j], V[m - j])
           T == {j \in 0..m : P(j) /\ (j > 0 => L(j))}
<1>5. \A j \in 0..m : m - j \in 0..m /\ V[m - j] = After(U[m - j], Len(Flat(outs[j])))
  <2>1. \A j \in 0..m : m - j \in 0..m /\ m - (m - j) = j
    BY <1>1
  <2> QED
    BY <2>1
<1> HIDE DEF V
<1>6. 0 \in T
  <2>1. m - 0 = m /\ 0 \in 0..m /\ ~(0 > 0)
    BY <1>1
  <2>2. V[m] = After(U[m], Len(Flat(buffers)))
    BY <1>3, <1>5, <2>1
  <2>3. V[m] = rest
    BY <2>2, FlatTyped, JoinsAfter DEF m
  <2>4. P(0)
    BY <1>3, <2>1, <2>3 DEF m
  <2> HIDE DEF P, L
  <2> QED
    BY <2>1, <2>4
<1>7. ASSUME NEW j \in 0..(m - 1), j \in T
      PROVE  j + 1 \in T
  <2> DEFINE i == m - j
             k == At(side, m, i)
             l == At(side, m, j + 1)
             p == c[k]
             q == d[l]
             w == U[i]
             u == U[i - 1]
             x == V[i]
             a == outs[j]
             b == outs[j + 1]
             s == Feed(side, q, a)
  <2>1. /\ j \in 0..m /\ j + 1 \in 0..m /\ j + 1 \in 1..m /\ (j + 1) - 1 = j
        /\ i \in 1..m /\ i \in 0..m /\ i - 1 \in 0..m /\ m + 1 - i = j + 1
        /\ m - (j + 1) = i - 1 /\ m + 1 - (j + 1) = i
    BY <1>1
  <2>2. k \in 1..m /\ l \in 1..m
    BY <1>1, <2>1, AtRange
  <2>3. p \in Procs /\ q \in Procs /\ w \in Bytes /\ u \in Bytes /\ a \in Seq(Bytes) /\ b \in Seq(Bytes)
    <3> HIDE DEF k, l, i
    <3> QED
      BY <1>1, <1>4, <2>1, <2>2
  <2>4. Unpacks(side, q) /\ Linked(p, q, w, u)
    <3>1. \A z \in 1..m : Unpacks(side, d[z])
      BY DEF ChainLink, m
    <3>2. \A z \in 1..m : Linked(c[At(side, m, z)], d[At(side, m, m + 1 - z)], U[z], U[z - 1])
      BY DEF ChainLink, m
    <3>3. Linked(c[At(side, m, i)], d[At(side, m, m + 1 - i)], U[i], U[i - 1])
      BY <2>1, <3>2
    <3> QED
      BY <2>1, <2>2, <3>1, <3>3
  <2>5. s.status = "ok" /\ s.out = b /\ s.p = e[l]
    <3>1. Stage(side, d, e, j + 1, outs[(j + 1) - 1], outs[j + 1])
      BY <1>3, <2>1
    <3> QED
      BY <1>1, <2>1, <3>1 DEF Stage
  <2>6. x \in Bytes /\ Joins(w, Flat(a), x)
    BY <1>7
  <2>7. V[i - 1] = After(u, Len(Flat(b)))
    BY <1>5, <2>1
  <2> HIDE DEF k, l, p, q, w, u, a, b, x
  <2>8. PICK v \in Bytes : Joins(u, Flat(b), v) /\ Linked(p, e[l], x, v)
    <3>1. Linked(p, q, Flat(a) \o x, u)
      BY <2>4, <2>6 DEF Joins
    <3>2. \E v \in Bytes : Joins(u, Flat(s.out), v) /\ Linked(p, s.p, x, v)
      BY <2>3, <2>4, <2>5, <2>6, <3>1, FeedLinkUnpacks
    <3> HIDE DEF s
    <3> QED
      BY <2>5, <3>2
  <2>9. V[i - 1] = v
    BY <2>3, <2>7, <2>8, FlatTyped, JoinsAfter
  <2>10. P(j + 1)
    BY <2>1, <2>8, <2>9 DEF u, b
  <2>11. L(j + 1)
    BY <2>1, <2>8, <2>9 DEF p, k, l, x
  <2> HIDE DEF P, L
  <2> QED
    BY <2>1, <2>10, <2>11
<1>8. 0..m \subseteq T
  <2> HIDE DEF T
  <2> QED
    BY <1>1, <1>6, <1>7, UpTo
<1>9. ASSUME NEW i \in 0..m PROVE V[i] \in Bytes
  <2>1. m - i \in 0..m /\ m - (m - i) = i
    BY <1>1
  <2>2. P(m - i)
    BY <1>8, <2>1
  <2> QED
    BY <2>1, <2>2
<1>10. ASSUME NEW i \in 1..m
       PROVE  Linked(c[At(side, m, i)], e[At(side, m, m + 1 - i)], V[i], V[i - 1])
  <2>1. /\ m + 1 - i \in 0..m /\ m + 1 - i > 0
        /\ m + 1 - (m + 1 - i) = i /\ m - (m + 1 - i) = i - 1
    BY <1>1
  <2>2. L(m + 1 - i)
    BY <1>8, <2>1
  <2> QED
    BY <2>1, <2>2
<1>11. V[m] = rest
  <2>1. m - 0 = m /\ 0 \in 0..m
    BY <1>1
  <2>2. V[m] = After(U[m], Len(Flat(buffers)))
    BY <1>3, <1>5, <2>1
  <2> QED
    BY <2>2, FlatTyped, JoinsAfter DEF m
<1>12. Joins(U[0], Flat(r.out), V[0])
  <2>1. m - m = 0 /\ m \in 0..m
    BY <1>1
  <2>2. P(m)
    BY <1>8, <2>1
  <2> QED
    BY <1>3, <2>1, <2>2
<1>13. V \in [0..m -> Bytes]
  <2>1. V = [i \in 0..m |-> V[i]]
    BY DEF V
  <2> QED
    BY <1>9, <2>1
<1>14. ChainLink(side, c, e, V)
  <2>1. Len(e) = m /\ \A k \in 1..m : Packs(side, c[k]) /\ Unpacks(side, e[k])
    BY <1>2 DEF ChainLink, m
  <2> QED
    BY <1>10, <1>13, <2>1 DEF ChainLink, m
<1> QED
  BY <1>11, <1>12, <1>14 DEF r, e, m, Unpacked

\* Nothing is kept back: when nothing is on its way, all was given back.
LEMMA ChainDelivers ==
    ASSUME NEW side \in Sides, NEW c \in Seq(Procs), NEW d \in Seq(Procs), NEW U,
           ChainLink(side, c, d, U), U[Len(c)] = <<>>
    PROVE  U[0] = <<>>
<1> DEFINE m == Len(c)
           T == {j \in 0..m : U[m - j] = <<>>}
<1>1. m \in Nat
  OBVIOUS
<1>2. /\ \A k \in 1..m : c[k] \in Procs /\ d[k] \in Procs
      /\ \A i \in 1..m : Linked(c[At(side, m, i)], d[At(side, m, m + 1 - i)], U[i], U[i - 1])
  <2>1. Len(d) = m
    BY DEF ChainLink
  <2>2. \A k \in 1..m : c[k] \in Procs /\ d[k] \in Procs
    BY <2>1
  <2> QED
    BY <2>2 DEF ChainLink
<1>3. \A i \in 0..m : U[i] \in Bytes
  <2>1. U \in [0..m -> Bytes]
    BY DEF ChainLink
  <2> HIDE DEF m
  <2> QED
    BY <2>1
<1>4. U[m] = <<>>
  OBVIOUS
<1> HIDE DEF m
<1>5. 0 \in T
  <2>1. m - 0 = m /\ 0 \in 0..m
    BY <1>1
  <2> QED
    BY <1>4, <2>1
<1>6. ASSUME NEW j \in 0..(m - 1), j \in T
      PROVE  j + 1 \in T
  <2> DEFINE i == m - j
             p == c[At(side, m, i)]
             q == d[At(side, m, m + 1 - i)]
             u == U[i - 1]
  <2>1. /\ i \in 1..m /\ m + 1 - i \in 1..m /\ j + 1 \in 0..m /\ m - (j + 1) = i - 1
        /\ i - 1 \in 0..m
    BY <1>1
  <2>2. At(side, m, i) \in 1..m /\ At(side, m, m + 1 - i) \in 1..m
    BY <1>1, <2>1, AtRange
  <2>3. p \in Procs /\ q \in Procs /\ u \in Bytes
    BY <1>2, <1>3, <2>1, <2>2
  <2>4. Linked(p, q, <<>>, u)
    BY <1>2, <1>6, <2>1
  <2> HIDE DEF p, q, u
  <2>5. u = <<>>
    BY <2>3, <2>4, LinkDelivers
  <2> QED
    BY <2>1, <2>5 DEF u
<1>7. m \in T
  <2> HIDE DEF T
  <2>1. 0..m \subseteq T
    BY <1>1, <1>5, <1>6, UpTo
  <2> QED
    BY <1>1, <2>1
<1>8. m - m = 0
  BY <1>1
<1> QED
  BY <1>7, <1>8
==============================================================================
