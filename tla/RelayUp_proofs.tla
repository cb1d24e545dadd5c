--------------------------- MODULE RelayUp_proofs ---------------------------
(***************************************************************************)
(* Upstream nothing is lost or duplicated while C holds the session, for   *)
(* any number of sessions and units.  First what moving a unit from one    *)
(* place to another does to EachOnce, then what a frame that is written,   *)
(* read, buffered or drained does to the places of a session, then the     *)
(* steps of B and of C.                                                    *)
(***************************************************************************)
EXTENDS Relay_proofs

-----------------------------------------------------------------------------
(* Units that move from one place to another *)

Place == {"wire", "buffer", "pending", "written"}

\* A sequence without its first element, and one with a new last element.
LEMMA Front ==
    ASSUME NEW s \in Seq(Nat), s # <<>>
    PROVE  /\ Head(s) = s[1] /\ s[1] \in Nat /\ Tail(s) \in Seq(Nat)
           /\ Len(s) \in Nat /\ Len(s) >= 1
           /\ DOMAIN s = 1..Len(s) /\ DOMAIN Tail(s) = 1..(Len(s) - 1)
           /\ \A i \in 1..(Len(s) - 1) : Tail(s)[i] = s[i + 1]
<1>1. Head(s) \in Nat /\ Tail(s) \in Seq(Nat) /\ Len(Tail(s)) = Len(s) - 1
  BY HeadTailProperties
<1>2. \A i \in 1..Len(Tail(s)) : Tail(s)[i] = s[i + 1]
  BY HeadTailProperties
<1>3. Head(s) = s[1] /\ Len(s) \in Nat /\ Len(s) >= 1
  OBVIOUS
<1>4. DOMAIN s = 1..Len(s) /\ DOMAIN Tail(s) = 1..Len(Tail(s))
  BY <1>1, LenProperties
<1> QED
  BY <1>1, <1>2, <1>3, <1>4

LEMMA Back ==
    ASSUME NEW s \in Seq(Nat), NEW n \in Nat
    PROVE  /\ Append(s, n) \in Seq(Nat) /\ Len(s) \in Nat
           /\ DOMAIN s = 1..Len(s) /\ DOMAIN Append(s, n) = 1..(Len(s) + 1)
           /\ \A i \in 1..Len(s) : Append(s, n)[i] = s[i]
           /\ Append(s, n)[Len(s) + 1] = n
<1>1. Append(s, n) \in Seq(Nat) /\ Len(Append(s, n)) = Len(s) + 1 /\ Len(s) \in Nat
  BY AppendProperties, LenProperties
<1>2. DOMAIN s = 1..Len(s) /\ DOMAIN Append(s, n) = 1..Len(Append(s, n))
  BY <1>1, LenProperties
<1>3. \A i \in 1..Len(s) : Append(s, n)[i] = s[i]
  BY AppendProperties
<1>4. Append(s, n)[Len(s) + 1] = n
  BY AppendProperties
<1> QED
  BY <1>1, <1>2, <1>3, <1>4

\* What p has at (r, i) q has somewhere, and two places of q are never filled
\* from one place of p.
Rearranged(p, q) ==
    /\ DOMAIN p = Place /\ DOMAIN q = Place
    /\ \A r \in Place : \A i \in DOMAIN p[r] :
          p[r][i] = 0 \/ \E s \in Place : \E j \in DOMAIN q[s] : q[s][j] = p[r][i]
    /\ \A r \in Place : \A i \in DOMAIN q[r] :
          /\ \E s \in Place : \E j \in DOMAIN p[s] : p[s][j] = q[r][i]
          /\ q[r][i] = 0 => r = "wire"
    /\ \A r, s \in Place : \A i \in DOMAIN q[r], j \in DOMAIN q[s] :
          q[r][i] = q[s][j] /\ q[r][i] # 0 => r = s /\ i = j

LEMMA RearrangedOnce ==
    ASSUME NEW p, NEW q, NEW m \in Nat, Rearranged(p, q), EachOnce(p, m)
    PROVE  EachOnce(q, m)
<1>1. \A n \in 1..m : \E k \in DOMAIN q : \E i \in DOMAIN q[k] : q[k][i] = n
  <2> SUFFICES ASSUME NEW n \in 1..m PROVE \E k \in Place : \E i \in DOMAIN q[k] : q[k][i] = n
    BY DEF Rearranged
  <2>1. PICK r \in Place : \E i \in DOMAIN p[r] : p[r][i] = n
    BY DEF Rearranged, EachOnce
  <2> QED
    BY <2>1 DEF Rearranged
<1>2. ASSUME NEW k \in DOMAIN q, NEW i \in DOMAIN q[k]
      PROVE  q[k][i] \in 1..m \/ (k = "wire" /\ q[k][i] = 0)
  <2>1. k \in Place
    BY DEF Rearranged
  <2>2. PICK s \in Place : \E j \in DOMAIN p[s] : p[s][j] = q[k][i]
    BY <2>1 DEF Rearranged
  <2>3. \A j \in DOMAIN p[s] : p[s][j] \in 1..m \/ p[s][j] = 0
    BY DEF Rearranged, EachOnce
  <2> QED
    BY <2>1, <2>2, <2>3 DEF Rearranged
<1> QED
  BY <1>1, <1>2 DEF Rearranged, EachOnce

\* A unit moves from the front of k to the back of l.
Moves(p, q, k, l) ==
    /\ DOMAIN p = Place /\ DOMAIN q = Place /\ \A r \in Place : p[r] \in Seq(Nat)
    /\ k \in Place /\ l \in Place /\ k # l /\ l # "wire"
    /\ p[k] # <<>> /\ Head(p[k]) # 0
    /\ q[k] = Tail(p[k]) /\ q[l] = Append(p[l], Head(p[k]))
    /\ \A r \in Place : r # k /\ r # l => q[r] = p[r]

LEMMA Moved ==
    ASSUME NEW p, NEW q, NEW k, NEW l, NEW m \in Nat, EachOnce(p, m), Moves(p, q, k, l)
    PROVE  EachOnce(q, m)
<1> USE DEF Moves
<1> DEFINE n == Len(p[l])
<1>1. /\ p[k][1] # 0 /\ 1 \in DOMAIN p[k] /\ Len(p[k]) \in Nat
      /\ DOMAIN p[k] = 1..Len(p[k]) /\ DOMAIN q[k] = 1..(Len(p[k]) - 1)
      /\ \A i \in DOMAIN q[k] : q[k][i] = p[k][i + 1]
  BY Front
<1>2. /\ n \in Nat /\ DOMAIN p[l] = 1..n /\ DOMAIN q[l] = 1..(n + 1)
      /\ \A i \in 1..n : q[l][i] = p[l][i]
      /\ q[l][n + 1] = p[k][1]
  BY Front, Back
<1> HIDE DEF n
<1>3. ASSUME NEW r \in Place, NEW i \in DOMAIN q[r]
      PROVE  \/ r = k /\ i \in Nat /\ i + 1 \in DOMAIN p[k] /\ i + 1 # 1 /\ q[r][i] = p[k][i + 1]
             \/ r = l /\ i = n + 1 /\ q[r][i] = p[k][1]
             \/ r # k /\ (r = l => i # n + 1) /\ i \in DOMAIN p[r] /\ q[r][i] = p[r][i]
  <2>1. CASE r = k
    BY <1>1, <2>1
  <2>2. CASE r = l
    BY <1>2, <2>2
  <2>3. CASE r # k /\ r # l
    BY <2>3
  <2> QED
    BY <2>1, <2>2, <2>3
<1>4. ASSUME NEW r \in Place, NEW i \in DOMAIN p[r]
      PROVE  \E s \in Place : \E j \in DOMAIN q[s] : q[s][j] = p[r][i]
  <2>1. CASE r = k /\ i = 1
    <3>1. n + 1 \in DOMAIN q[l] /\ q[l][n + 1] = p[r][i]
      BY <1>2, <2>1
    <3> QED
      BY <3>1
  <2>2. CASE r = k /\ i # 1
    <3>1. i - 1 \in DOMAIN q[k] /\ (i - 1) + 1 = i
      BY <1>1, <2>2
    <3>2. q[k][i - 1] = p[r][i]
      BY <1>1, <2>2, <3>1
    <3> QED
      BY <3>1, <3>2
  <2>3. CASE r # k
    <3>1. CASE r = l
      <4>1. i \in 1..n /\ i \in 1..(n + 1)
        BY ONLY <1>2, <3>1, i \in DOMAIN p[r]
      <4> QED
        BY ONLY <1>2, <3>1, <4>1, r \in Place
    <3>2. CASE r # l
      <4>1. q[r] = p[r]
        BY <2>3, <3>2
      <4> QED
        BY ONLY <4>1, r \in Place, i \in DOMAIN p[r]
    <3> QED
      BY <3>1, <3>2
  <2> QED
    BY <2>1, <2>2, <2>3
<1>5. ASSUME NEW r \in Place, NEW i \in DOMAIN q[r], q[r][i] = 0
      PROVE  r = "wire"
  <2>1. \A r1 \in Place : \A i1 \in DOMAIN p[r1] : p[r1][i1] = 0 => r1 = "wire"
    BY DEF EachOnce
  <2> QED
    BY ONLY <1>1, <1>3, <1>5, <2>1, k \in Place, r \in Place, i \in DOMAIN q[r]
<1>6. ASSUME NEW r \in Place, NEW s \in Place, NEW i \in DOMAIN q[r], NEW j \in DOMAIN q[s],
             q[r][i] = q[s][j], q[r][i] # 0
      PROVE  r = s /\ i = j
  <2>1. \A r1, r2 \in Place : \A i1 \in DOMAIN p[r1], i2 \in DOMAIN p[r2] :
           p[r1][i1] = p[r2][i2] /\ p[r1][i1] # 0 => r1 = r2 /\ i1 = i2
    BY DEF EachOnce
  <2> DEFINE First(x, a) == /\ x = k /\ a \in Nat /\ a + 1 \in DOMAIN p[k] /\ a + 1 # 1
                            /\ q[x][a] = p[k][a + 1]
  <2> DEFINE Last(x, a) == x = l /\ a = n + 1 /\ q[x][a] = p[k][1]
  <2> DEFINE Kept(x, a) == /\ x # k /\ (x = l => a # n + 1)
                           /\ a \in DOMAIN p[x] /\ q[x][a] = p[x][a]
  <2>2. (First(r, i) \/ Last(r, i) \/ Kept(r, i)) /\ (First(s, j) \/ Last(s, j) \/ Kept(s, j))
    BY <1>3
  <2>3. CASE First(r, i)
    <3>1. CASE First(s, j)
      <4>1. i + 1 = j + 1
        BY ONLY <1>6, <2>1, <2>3, <3>1, k \in Place
      <4> QED
        BY ONLY <2>3, <3>1, <4>1
    <3>2. CASE Last(s, j)
      BY ONLY <1>1, <1>6, <2>1, <2>3, <3>2, k \in Place
    <3>3. CASE Kept(s, j)
      BY ONLY <1>6, <2>1, <2>3, <3>3, k \in Place, s \in Place
    <3> QED
      BY ONLY <2>2, <3>1, <3>2, <3>3
  <2>4. CASE Last(r, i)
    <3>1. CASE First(s, j)
      BY ONLY <1>1, <1>6, <2>1, <2>4, <3>1, k \in Place
    <3>2. CASE Last(s, j)
      BY ONLY <2>4, <3>2
    <3>3. CASE Kept(s, j)
      BY ONLY <1>1, <1>6, <2>1, <2>4, <3>3, k \in Place, s \in Place
    <3> QED
      BY ONLY <2>2, <3>1, <3>2, <3>3
  <2>5. CASE Kept(r, i)
    <3>0. \A i1 \in DOMAIN p[r], i2 \in DOMAIN p[k] :
             p[r][i1] = p[k][i2] /\ p[r][i1] # 0 => r = k /\ i1 = i2
      BY ONLY <2>1, k \in Place, r \in Place
    <3>1. CASE First(s, j)
      BY ONLY <1>6, <2>5, <3>0, <3>1
    <3>2. CASE Last(s, j)
      BY ONLY <1>1, <1>6, <2>5, <3>0, <3>2
    <3>3. CASE Kept(s, j)
      <4>1. \A i1 \in DOMAIN p[r], i2 \in DOMAIN p[s] :
               p[r][i1] = p[s][i2] /\ p[r][i1] # 0 => r = s /\ i1 = i2
        BY ONLY <2>1, r \in Place, s \in Place
      <4> QED
        BY ONLY <1>6, <2>5, <3>3, <4>1
    <3> QED
      BY ONLY <2>2, <3>1, <3>2, <3>3
  <2> QED
    BY ONLY <2>2, <2>3, <2>4, <2>5
<1>7. \A r \in Place : \A i \in DOMAIN q[r] : \E s \in Place : \E j \in DOMAIN p[s] : p[s][j] = q[r][i]
  BY ONLY <1>1, <1>3, k \in Place
<1>8. Rearranged(p, q)
  BY ONLY <1>4, <1>5, <1>6, <1>7, DOMAIN p = Place, DOMAIN q = Place DEF Rearranged
<1> QED
  BY <1>8, RearrangedOnce

\* The frame at the front of the wire leaves it without carrying a unit.
LEMMA Skipped ==
    ASSUME NEW p, NEW q, NEW m \in Nat, EachOnce(p, m),
           DOMAIN p = Place, DOMAIN q = Place, \A r \in Place : p[r] \in Seq(Nat),
           p["wire"] # <<>>, Head(p["wire"]) = 0, q["wire"] = Tail(p["wire"]),
           \A r \in Place : r # "wire" => q[r] = p[r]
    PROVE  EachOnce(q, m)
<1> DEFINE w == "wire"
<1>0. w \in Place
  BY DEF Place
<1>1. /\ p[w][1] = 0 /\ Len(p[w]) \in Nat
      /\ DOMAIN p[w] = 1..Len(p[w]) /\ DOMAIN q[w] = 1..(Len(p[w]) - 1)
      /\ \A i \in DOMAIN q[w] : q[w][i] = p[w][i + 1]
  BY <1>0, Front
<1> HIDE DEF w
<1>2. ASSUME NEW r \in Place, NEW i \in DOMAIN q[r]
      PROVE  \/ r = w /\ i \in Nat /\ i + 1 \in DOMAIN p[w] /\ q[r][i] = p[w][i + 1]
             \/ r # w /\ i \in DOMAIN p[r] /\ q[r][i] = p[r][i]
  <2>1. CASE r = w
    <3>1. i \in 1..(Len(p[w]) - 1)
      BY ONLY <1>1, <2>1, i \in DOMAIN q[r]
    <3>2. i \in Nat /\ i + 1 \in 1..Len(p[w])
      BY ONLY <1>1, <3>1
    <3> QED
      BY ONLY <1>1, <2>1, <3>2, i \in DOMAIN q[r]
  <2>2. CASE r # w
    BY <2>2 DEF w
  <2> QED
    BY <2>1, <2>2
<1>3. ASSUME NEW r \in Place, NEW i \in DOMAIN p[r], p[r][i] # 0
      PROVE  \E s \in Place : \E j \in DOMAIN q[s] : q[s][j] = p[r][i]
  <2>1. CASE r = w
    <3>1. i - 1 \in DOMAIN q[w] /\ (i - 1) + 1 = i
      BY ONLY <1>1, <1>3, <2>1, i \in DOMAIN p[r]
    <3>2. q[w][i - 1] = p[r][i]
      BY <1>1, <2>1, <3>1
    <3> QED
      BY <1>0, <3>1, <3>2
  <2>2. CASE r # w
    BY <2>2 DEF w
  <2> QED
    BY <2>1, <2>2
<1>4. ASSUME NEW r \in Place, NEW i \in DOMAIN q[r], q[r][i] = 0 PROVE r = "wire"
  BY <1>2, <1>4 DEF EachOnce, w
<1>5. ASSUME NEW r \in Place, NEW s \in Place, NEW i \in DOMAIN q[r], NEW j \in DOMAIN q[s],
             q[r][i] = q[s][j], q[r][i] # 0
      PROVE  r = s /\ i = j
  <2>1. \A r1, r2 \in Place : \A i1 \in DOMAIN p[r1], i2 \in DOMAIN p[r2] :
           p[r1][i1] = p[r2][i2] /\ p[r1][i1] # 0 => r1 = r2 /\ i1 = i2
    BY DEF EachOnce
  <2>2. CASE r = w /\ s = w
    <3>1. i + 1 = j + 1 /\ i \in Nat /\ j \in Nat
      BY <1>0, <1>2, <1>5, <2>1, <2>2
    <3> QED
      BY <2>2, <3>1
  <2>3. CASE ~(r = w /\ s = w)
    BY <1>0, <1>2, <1>5, <2>1, <2>3
  <2> QED
    BY <2>2, <2>3
<1>6. \A r \in Place : \A i \in DOMAIN q[r] : \E s \in Place : \E j \in DOMAIN p[s] : p[s][j] = q[r][i]
  BY <1>0, <1>2
<1>7. Rearranged(p, q)
  BY ONLY <1>3, <1>4, <1>5, <1>6, DOMAIN p = Place, DOMAIN q = Place DEF Rearranged
<1> QED
  BY <1>7, RearrangedOnce

\* A frame is added to the wire: one that carries no unit, or the next one.
LEMMA Added ==
    ASSUME NEW p, NEW q, NEW m \in Nat, EachOnce(p, m),
           DOMAIN p = Place, DOMAIN q = Place, \A r \in Place : p[r] \in Seq(Nat),
           NEW n \in {0, m + 1}, q["wire"] = Append(p["wire"], n),
           \A r \in Place : r # "wire" => q[r] = p[r]
    PROVE  EachOnce(q, IF n = 0 THEN m ELSE m + 1)
<1> DEFINE w == "wire"
<1> DEFINE e == Len(p[w])
<1> DEFINE t == IF n = 0 THEN m ELSE m + 1
<1>0. w \in Place /\ n \in Nat
  BY DEF Place
<1>1. /\ e \in Nat /\ DOMAIN p[w] = 1..e /\ DOMAIN q[w] = 1..(e + 1)
      /\ \A i \in 1..e : q[w][i] = p[w][i]
      /\ q[w][e + 1] = n
  BY <1>0, Back
<1>t. t \in Nat /\ m <= t /\ n <= t /\ \A i \in 1..t : i \in 1..m \/ i = n
  OBVIOUS
<1> HIDE DEF w, e, t
<1>2. ASSUME NEW r \in Place, NEW i \in DOMAIN q[r]
      PROVE  \/ r = w /\ i = e + 1 /\ q[r][i] = n
             \/ i \in DOMAIN p[r] /\ q[r][i] = p[r][i] /\ (r = w => i # e + 1)
  <2>1. CASE r = w
    BY <1>1, <2>1
  <2>2. CASE r # w
    BY <2>2 DEF w
  <2> QED
    BY <2>1, <2>2
<1>3. \A r \in Place : \A i \in DOMAIN p[r] : i \in DOMAIN q[r] /\ q[r][i] = p[r][i]
  <2> SUFFICES ASSUME NEW r \in Place, NEW i \in DOMAIN p[r]
               PROVE  i \in DOMAIN q[r] /\ q[r][i] = p[r][i]
    OBVIOUS
  <2>1. CASE r = w
    BY <1>1, <2>1
  <2>2. CASE r # w
    BY <2>2 DEF w
  <2> QED
    BY <2>1, <2>2
<1>4. \A r \in Place : \A i \in DOMAIN p[r] : p[r][i] \in 1..m \/ (r = w /\ p[r][i] = 0)
  BY DEF EachOnce, w
<1>5. ASSUME NEW k \in 1..t PROVE \E r \in DOMAIN q : \E i \in DOMAIN q[r] : q[r][i] = k
  <2>1. CASE k \in 1..m
    <3>1. PICK r \in Place : \E i \in DOMAIN p[r] : p[r][i] = k
      BY <2>1 DEF EachOnce
    <3> QED
      BY <1>3, <3>1
  <2>2. CASE k = n
    <3>1. e + 1 \in DOMAIN q[w] /\ q[w][e + 1] = k
      BY <1>1, <2>2
    <3> QED
      BY <1>0, <3>1
  <2> QED
    BY <1>t, <2>1, <2>2
<1>6. ASSUME NEW r \in DOMAIN q, NEW i \in DOMAIN q[r]
      PROVE  q[r][i] \in 1..t \/ (r = "wire" /\ q[r][i] = 0)
  <2>1. r \in Place
    OBVIOUS
  <2>2. CASE r = w /\ q[r][i] = n
    <3>1. n = 0 \/ n \in 1..t
      BY <1>0, <1>t
    <3> QED
      BY <2>2, <3>1 DEF w
  <2>3. CASE i \in DOMAIN p[r] /\ q[r][i] = p[r][i]
    <3>1. \A v \in 1..m : v \in 1..t
      BY <1>t
    <3> QED
      BY <1>4, <2>1, <2>3, <3>1 DEF w
  <2> QED
    BY <1>2, <2>1, <2>2, <2>3
<1>7. ASSUME NEW r \in Place, NEW s \in Place, NEW i \in DOMAIN q[r], NEW j \in DOMAIN q[s],
             q[r][i] = q[s][j], q[r][i] # 0
      PROVE  r = s /\ i = j
  <2>1. \A r1, r2 \in Place : \A i1 \in DOMAIN p[r1], i2 \in DOMAIN p[r2] :
           p[r1][i1] = p[r2][i2] /\ p[r1][i1] # 0 => r1 = r2 /\ i1 = i2
    BY DEF EachOnce
  <2>2. \A r1 \in Place : \A i1 \in DOMAIN p[r1] : p[r1][i1] = n => n = 0
    <3>1. n \in 1..m => n = 0
      OBVIOUS
    <3> QED
      BY ONLY <1>4, <3>1
  <2>3. CASE r = w /\ i = e + 1 /\ q[r][i] = n
    <3>1. CASE s = w /\ j = e + 1
      BY ONLY <2>3, <3>1
    <3>2. CASE j \in DOMAIN p[s] /\ q[s][j] = p[s][j]
      BY ONLY <1>7, <2>2, <2>3, <3>2, s \in Place
    <3> QED
      BY <1>2, <3>1, <3>2
  <2>4. CASE i \in DOMAIN p[r] /\ q[r][i] = p[r][i]
    <3>1. CASE s = w /\ j = e + 1 /\ q[s][j] = n
      BY ONLY <1>7, <2>2, <2>4, <3>1, r \in Place
    <3>2. CASE j \in DOMAIN p[s] /\ q[s][j] = p[s][j]
      <4>1. \A i1 \in DOMAIN p[r], i2 \in DOMAIN p[s] :
               p[r][i1] = p[s][i2] /\ p[r][i1] # 0 => r = s /\ i1 = i2
        BY ONLY <2>1, r \in Place, s \in Place
      <4> QED
        BY ONLY <1>7, <2>4, <3>2, <4>1
    <3> QED
      BY <1>2, <3>1, <3>2
  <2> QED
    BY <1>2, <2>3, <2>4
<1>8. EachOnce(q, t)
  BY ONLY <1>5, <1>6, <1>7, DOMAIN q = Place DEF EachOnce
<1> QED
  BY <1>8 DEF t

-----------------------------------------------------------------------------
(* The places of one session *)

\* The units of u among the frames of s, and those of some writes.
WireUnits(s, u) == [i \in DOMAIN s |-> IF s[i].method = "DATA" /\ s[i].uuid = u
                                       THEN s[i].unit ELSE 0]
WriteUnits(w) == [i \in DOMAIN w |-> w[i].unit]

At(u, s, b, w, d) == [wire |-> WireUnits(s, u), buffer |-> b, pending |-> WriteUnits(w), written |-> d]

LEMMA WireUnitsTyped ==
    ASSUME NEW s \in Seq(Frame), NEW u
    PROVE  /\ WireUnits(s, u) \in Seq(Nat) /\ Len(WireUnits(s, u)) = Len(s)
           /\ \A i \in 1..Len(s) : WireUnits(s, u)[i] =
                 IF s[i].method = "DATA" /\ s[i].uuid = u THEN s[i].unit ELSE 0
<1>1. DOMAIN s = 1..Len(s) /\ Len(s) \in Nat
  BY LenProperties
<1>2. \A i \in 1..Len(s) : s[i] \in Frame
  BY ElementOfSeq
<1>3. \A i \in 1..Len(s) : s[i].unit \in Nat
  BY <1>2 DEF Frame
<1> QED
  BY <1>1, <1>3 DEF WireUnits

LEMMA WriteUnitsTyped ==
    ASSUME NEW w \in Seq(RemoteWrite)
    PROVE  /\ WriteUnits(w) \in Seq(Nat) /\ Len(WriteUnits(w)) = Len(w)
           /\ \A i \in 1..Len(w) : WriteUnits(w)[i] = w[i].unit
<1>1. DOMAIN w = 1..Len(w) /\ Len(w) \in Nat
  BY LenProperties
<1>2. \A i \in 1..Len(w) : w[i] \in RemoteWrite
  BY ElementOfSeq
<1>3. \A i \in 1..Len(w) : w[i].unit \in Nat
  BY <1>2 DEF RemoteWrite
<1> QED
  BY <1>1, <1>3 DEF WriteUnits

LEMMA AtFields ==
    ASSUME NEW u, NEW s, NEW b, NEW w, NEW d
    PROVE  /\ DOMAIN At(u, s, b, w, d) = Place
           /\ At(u, s, b, w, d)["wire"] = WireUnits(s, u)
           /\ At(u, s, b, w, d)["buffer"] = b
           /\ At(u, s, b, w, d)["pending"] = WriteUnits(w)
           /\ At(u, s, b, w, d)["written"] = d
<1> DEFINE x == WireUnits(s, u)
<1> DEFINE y == WriteUnits(w)
<1>1. At(u, s, b, w, d) = [wire |-> x, buffer |-> b, pending |-> y, written |-> d]
  BY DEF At
<1> HIDE DEF x, y
<1>2. /\ DOMAIN At(u, s, b, w, d) = Place
      /\ At(u, s, b, w, d)["wire"] = x /\ At(u, s, b, w, d)["buffer"] = b
      /\ At(u, s, b, w, d)["pending"] = y /\ At(u, s, b, w, d)["written"] = d
  BY <1>1 DEF Place
<1> QED
  BY <1>2 DEF x, y

LEMMA AtTyped ==
    ASSUME NEW u, NEW s \in Seq(Frame), NEW b \in Seq(Nat), NEW w \in Seq(RemoteWrite),
           NEW d \in Seq(Nat)
    PROVE  \A r \in Place : At(u, s, b, w, d)[r] \in Seq(Nat)
<1>1. WireUnits(s, u) \in Seq(Nat) /\ WriteUnits(w) \in Seq(Nat)
  BY WireUnitsTyped, WriteUnitsTyped
<1> QED
  BY <1>1, AtFields DEF Place

\* What taking and adding an element does to the units.
LEMMA WireTail ==
    ASSUME NEW s \in Seq(Frame), s # <<>>, NEW u
    PROVE  /\ WireUnits(Tail(s), u) = Tail(WireUnits(s, u)) /\ WireUnits(s, u) # <<>>
           /\ Head(WireUnits(s, u)) =
                 IF s[1].method = "DATA" /\ s[1].uuid = u THEN s[1].unit ELSE 0
<1> DEFINE x == WireUnits(s, u)
<1> DEFINE y == WireUnits(Tail(s), u)
<1>1. /\ x \in Seq(Nat) /\ Len(x) = Len(s)
      /\ \A i \in 1..Len(s) : x[i] = IF s[i].method = "DATA" /\ s[i].uuid = u THEN s[i].unit ELSE 0
  BY WireUnitsTyped
<1>2. /\ Tail(s) \in Seq(Frame) /\ Len(s) \in Nat /\ Len(s) >= 1 /\ Len(Tail(s)) = Len(s) - 1
      /\ \A i \in 1..Len(Tail(s)) : Tail(s)[i] = s[i + 1]
  BY HeadFrame
<1>3. /\ y \in Seq(Nat) /\ Len(y) = Len(s) - 1
      /\ \A i \in 1..(Len(s) - 1) : y[i] =
            IF s[i + 1].method = "DATA" /\ s[i + 1].uuid = u THEN s[i + 1].unit ELSE 0
  <2> DEFINE t == Tail(s)
  <2>1. t \in Seq(Frame) /\ Len(t) = Len(s) - 1 /\ \A i \in 1..(Len(s) - 1) : t[i] = s[i + 1]
    BY <1>2
  <2> HIDE DEF t
  <2>2. /\ WireUnits(t, u) \in Seq(Nat) /\ Len(WireUnits(t, u)) = Len(t)
        /\ \A i \in 1..Len(t) : WireUnits(t, u)[i] =
              IF t[i].method = "DATA" /\ t[i].uuid = u THEN t[i].unit ELSE 0
    BY ONLY <2>1, WireUnitsTyped
  <2>3. y = WireUnits(t, u)
    BY DEF t
  <2> HIDE DEF y
  <2> QED
    BY ONLY <2>1, <2>2, <2>3
<1> HIDE DEF x, y
<1>4. x # <<>>
  BY <1>1, <1>2
<1>5. /\ Head(x) = x[1] /\ Tail(x) \in Seq(Nat) /\ Len(Tail(x)) = Len(s) - 1
      /\ \A i \in 1..(Len(s) - 1) : Tail(x)[i] = x[i + 1]
  BY <1>1, <1>4, HeadTailProperties
<1>6. \A i \in 1..(Len(s) - 1) : i + 1 \in 1..Len(s)
  BY <1>2
<1>7. \A i \in 1..(Len(s) - 1) : y[i] = Tail(x)[i]
  <2> SUFFICES ASSUME NEW i \in 1..(Len(s) - 1) PROVE y[i] = Tail(x)[i]
    OBVIOUS
  <2>1. x[i + 1] = IF s[i + 1].method = "DATA" /\ s[i + 1].uuid = u THEN s[i + 1].unit ELSE 0
    BY ONLY <1>1, <1>6, i \in 1..(Len(s) - 1)
  <2>2. y[i] = IF s[i + 1].method = "DATA" /\ s[i + 1].uuid = u THEN s[i + 1].unit ELSE 0
    BY ONLY <1>3, i \in 1..(Len(s) - 1)
  <2>3. Tail(x)[i] = x[i + 1]
    BY ONLY <1>5, i \in 1..(Len(s) - 1)
  <2> QED
    BY ONLY <2>1, <2>2, <2>3
<1>8. y = Tail(x)
  <2> DEFINE z == Tail(x)
  <2>1. z \in Seq(Nat) /\ Len(y) = Len(z) /\ \A i \in 1..Len(y) : y[i] = z[i]
    BY <1>3, <1>5, <1>7
  <2> HIDE DEF z
  <2>2. y = z
    BY ONLY <1>3, <2>1, SeqEqual
  <2> QED
    BY ONLY <2>2 DEF z
<1>9. 1 \in 1..Len(s)
  BY <1>2
<1> QED
  BY <1>1, <1>4, <1>5, <1>8, <1>9 DEF x, y

LEMMA WireAppend ==
    ASSUME NEW s \in Seq(Frame), NEW f \in Frame, NEW u
    PROVE  WireUnits(Append(s, f), u) =
              Append(WireUnits(s, u), IF f.method = "DATA" /\ f.uuid = u THEN f.unit ELSE 0)
<1> DEFINE x == WireUnits(s, u)
<1> DEFINE y == WireUnits(Append(s, f), u)
<1> DEFINE n == IF f.method = "DATA" /\ f.uuid = u THEN f.unit ELSE 0
<1>0. n \in Nat
  BY DEF Frame
<1>1. /\ x \in Seq(Nat) /\ Len(x) = Len(s) /\ Len(s) \in Nat
      /\ \A i \in 1..Len(s) : x[i] = IF s[i].method = "DATA" /\ s[i].uuid = u THEN s[i].unit ELSE 0
  BY WireUnitsTyped, LenProperties
<1>2. /\ Append(s, f) \in Seq(Frame) /\ Len(Append(s, f)) = Len(s) + 1
      /\ \A i \in 1..Len(s) : Append(s, f)[i] = s[i]
      /\ Append(s, f)[Len(s) + 1] = f
  BY AppendProperties
<1>3. /\ y \in Seq(Nat) /\ Len(y) = Len(s) + 1
      /\ \A i \in 1..(Len(s) + 1) : y[i] =
            IF Append(s, f)[i].method = "DATA" /\ Append(s, f)[i].uuid = u
            THEN Append(s, f)[i].unit ELSE 0
  <2> DEFINE t == Append(s, f)
  <2>1. t \in Seq(Frame) /\ Len(t) = Len(s) + 1
    BY <1>2
  <2> HIDE DEF t
  <2>2. /\ WireUnits(t, u) \in Seq(Nat) /\ Len(WireUnits(t, u)) = Len(s) + 1
        /\ \A i \in 1..(Len(s) + 1) : WireUnits(t, u)[i] =
              IF t[i].method = "DATA" /\ t[i].uuid = u THEN t[i].unit ELSE 0
    BY ONLY <2>1, WireUnitsTyped
  <2> QED
    BY ONLY <2>2 DEF t
<1>4. \A i \in 1..Len(s) : i \in 1..(Len(s) + 1)
  BY <1>1
<1>5. Len(s) + 1 \in 1..(Len(s) + 1)
  BY <1>1
<1>6. (\A i \in 1..Len(s) : y[i] = x[i]) /\ y[Len(s) + 1] = n
  BY <1>1, <1>2, <1>3, <1>4, <1>5
<1> HIDE DEF x, y, n
<1>7. /\ Append(x, n) \in Seq(Nat) /\ Len(Append(x, n)) = Len(s) + 1
      /\ \A i \in 1..Len(s) : Append(x, n)[i] = x[i]
      /\ Append(x, n)[Len(s) + 1] = n
  BY <1>0, <1>1, AppendProperties
<1>8. \A i \in 1..(Len(s) + 1) : i \in 1..Len(s) \/ i = Len(s) + 1
  BY <1>1
<1>9. \A i \in 1..(Len(s) + 1) : y[i] = Append(x, n)[i]
  BY <1>6, <1>7, <1>8
<1>10. y = Append(x, n)
  BY <1>3, <1>7, <1>9, SeqEqual
<1> QED
  BY <1>10 DEF x, y, n

LEMMA WritesTail ==
    ASSUME NEW w \in Seq(RemoteWrite), w # <<>>
    PROVE  /\ WriteUnits(Tail(w)) = Tail(WriteUnits(w)) /\ WriteUnits(w) # <<>>
           /\ Tail(w) \in Seq(RemoteWrite) /\ Head(WriteUnits(w)) = Head(w).unit
           /\ Head(w).unit \in Nat
<1> DEFINE x == WriteUnits(w)
<1> DEFINE y == WriteUnits(Tail(w))
<1>1. x \in Seq(Nat) /\ Len(x) = Len(w) /\ \A i \in 1..Len(w) : x[i] = w[i].unit
  BY WriteUnitsTyped
<1>2. /\ Tail(w) \in Seq(RemoteWrite) /\ Len(Tail(w)) = Len(w) - 1
      /\ \A i \in 1..Len(Tail(w)) : Tail(w)[i] = w[i + 1]
  BY HeadTailProperties
<1>3. Len(w) \in Nat /\ Len(w) >= 1 /\ Head(w) = w[1]
  OBVIOUS
<1>4. y \in Seq(Nat) /\ Len(y) = Len(w) - 1 /\ \A i \in 1..(Len(w) - 1) : y[i] = Tail(w)[i].unit
  BY <1>2, WriteUnitsTyped
<1> HIDE DEF x, y
<1>5. x # <<>>
  BY <1>1, <1>3
<1>6. /\ Head(x) = x[1] /\ Tail(x) \in Seq(Nat) /\ Len(Tail(x)) = Len(w) - 1
      /\ \A i \in 1..(Len(w) - 1) : Tail(x)[i] = x[i + 1]
  BY <1>1, <1>5, HeadTailProperties
<1>7. 1 \in 1..Len(w) /\ \A i \in 1..(Len(w) - 1) : i + 1 \in 1..Len(w)
  BY <1>3
<1>8. \A i \in 1..(Len(w) - 1) : y[i] = Tail(x)[i]
  BY <1>1, <1>2, <1>4, <1>6, <1>7
<1>9. y = Tail(x)
  BY <1>4, <1>6, <1>8, SeqEqual
<1>10. Head(x) = Head(w).unit /\ Head(w).unit \in Nat
  BY <1>1, <1>3, <1>6, <1>7, ElementOfSeq
<1> QED
  BY <1>2, <1>5, <1>9, <1>10 DEF x, y

LEMMA WritesAppend ==
    ASSUME NEW w \in Seq(RemoteWrite), NEW a \in RemoteWrite
    PROVE  /\ WriteUnits(Append(w, a)) = Append(WriteUnits(w), a.unit)
           /\ Append(w, a) \in Seq(RemoteWrite)
<1> DEFINE x == WriteUnits(w)
<1> DEFINE y == WriteUnits(Append(w, a))
<1>0. a.unit \in Nat
  BY DEF RemoteWrite
<1>1. /\ x \in Seq(Nat) /\ Len(x) = Len(w) /\ Len(w) \in Nat /\ \A i \in 1..Len(w) : x[i] = w[i].unit
  BY WriteUnitsTyped, LenProperties
<1>2. /\ Append(w, a) \in Seq(RemoteWrite) /\ Len(Append(w, a)) = Len(w) + 1
      /\ \A i \in 1..Len(w) : Append(w, a)[i] = w[i]
      /\ Append(w, a)[Len(w) + 1] = a
  BY AppendProperties
<1>3. /\ y \in Seq(Nat) /\ Len(y) = Len(w) + 1
      /\ \A i \in 1..(Len(w) + 1) : y[i] = Append(w, a)[i].unit
  BY <1>2, WriteUnitsTyped
<1>4. /\ \A i \in 1..Len(w) : i \in 1..(Len(w) + 1)
      /\ Len(w) + 1 \in 1..(Len(w) + 1)
      /\ \A i \in 1..(Len(w) + 1) : i \in 1..Len(w) \/ i = Len(w) + 1
  BY <1>1
<1>5. (\A i \in 1..Len(w) : y[i] = x[i]) /\ y[Len(w) + 1] = a.unit
  BY <1>1, <1>2, <1>3, <1>4
<1> HIDE DEF x, y
<1>6. /\ Append(x, a.unit) \in Seq(Nat) /\ Len(Append(x, a.unit)) = Len(w) + 1
      /\ \A i \in 1..Len(w) : Append(x, a.unit)[i] = x[i]
      /\ Append(x, a.unit)[Len(w) + 1] = a.unit
  BY <1>0, <1>1, AppendProperties
<1>7. \A i \in 1..(Len(w) + 1) : y[i] = Append(x, a.unit)[i]
  BY <1>4, <1>5, <1>6
<1>8. y = Append(x, a.unit)
  BY <1>3, <1>6, <1>7, SeqEqual
<1> QED
  BY <1>2, <1>8 DEF x, y

\* DATA of u goes into the arrival buffer, or to the remote.
LEMMA FrameBuffered ==
    ASSUME NEW u, NEW s \in Seq(Frame), NEW b \in Seq(Nat), NEW w \in Seq(RemoteWrite),
           NEW d \in Seq(Nat), NEW m \in Nat, EachOnce(At(u, s, b, w, d), m),
           s # <<>>, s[1].method = "DATA", s[1].uuid = u, s[1].unit # 0
    PROVE  EachOnce(At(u, Tail(s), Append(b, s[1].unit), w, d), m)
<1> DEFINE n == s[1].unit
<1> DEFINE p == At(u, s, b, w, d)
<1> DEFINE q == At(u, Tail(s), Append(b, n), w, d)
<1>1. /\ WireUnits(Tail(s), u) = Tail(WireUnits(s, u)) /\ WireUnits(s, u) # <<>>
      /\ Head(WireUnits(s, u)) = n
  BY WireTail
<1>2. Tail(s) \in Seq(Frame) /\ n \in Nat
  BY HeadFrame
<1>3. Append(b, n) \in Seq(Nat)
  BY <1>2
<1>4. /\ DOMAIN p = Place /\ p["wire"] = WireUnits(s, u) /\ p["buffer"] = b
      /\ p["pending"] = WriteUnits(w) /\ p["written"] = d /\ \A r \in Place : p[r] \in Seq(Nat)
  BY AtFields, AtTyped
<1>5. /\ DOMAIN q = Place /\ q["wire"] = WireUnits(Tail(s), u) /\ q["buffer"] = Append(b, n)
      /\ q["pending"] = WriteUnits(w) /\ q["written"] = d
  <2> DEFINE s2 == Tail(s)
  <2> DEFINE b2 == Append(b, n)
  <2>1. q = At(u, s2, b2, w, d)
    OBVIOUS
  <2> HIDE DEF s2, b2, q
  <2>2. /\ DOMAIN q = Place /\ q["wire"] = WireUnits(s2, u) /\ q["buffer"] = b2
        /\ q["pending"] = WriteUnits(w) /\ q["written"] = d
    BY ONLY <2>1, AtFields
  <2> QED
    BY <2>2 DEF s2, b2
<1>6. n # 0 /\ EachOnce(p, m)
  OBVIOUS
<1> HIDE DEF n, p, q
<1>7. /\ "wire" \in Place /\ "buffer" \in Place
      /\ \A r \in Place : r # "wire" /\ r # "buffer" => q[r] = p[r]
  BY <1>4, <1>5 DEF Place
<1>8. /\ p["wire"] # <<>> /\ Head(p["wire"]) # 0 /\ q["wire"] = Tail(p["wire"])
      /\ q["buffer"] = Append(p["buffer"], Head(p["wire"]))
  BY <1>1, <1>4, <1>5, <1>6
<1>9. EachOnce(q, m)
  <2>1. Moves(p, q, "wire", "buffer")
    BY <1>4, <1>5, <1>7, <1>8 DEF Moves
  <2> QED
    BY ONLY <1>6, <2>1, m \in Nat, Moved
<1> QED
  BY <1>9 DEF q, n

LEMMA FrameWritten ==
    ASSUME NEW u, NEW s \in Seq(Frame), NEW b \in Seq(Nat), NEW w \in Seq(RemoteWrite),
           NEW d \in Seq(Nat), NEW m \in Nat, EachOnce(At(u, s, b, w, d), m),
           s # <<>>, s[1].method = "DATA", s[1].uuid = u, s[1].unit # 0,
           NEW a \in RemoteWrite, a.unit = s[1].unit
    PROVE  EachOnce(At(u, Tail(s), b, Append(w, a), d), m)
<1> DEFINE n == s[1].unit
<1> DEFINE p == At(u, s, b, w, d)
<1> DEFINE q == At(u, Tail(s), b, Append(w, a), d)
<1>1. /\ WireUnits(Tail(s), u) = Tail(WireUnits(s, u)) /\ WireUnits(s, u) # <<>>
      /\ Head(WireUnits(s, u)) = n
  BY WireTail
<1>2. Tail(s) \in Seq(Frame) /\ n \in Nat
  BY HeadFrame
<1>3. Append(w, a) \in Seq(RemoteWrite) /\ WriteUnits(Append(w, a)) = Append(WriteUnits(w), n)
  BY WritesAppend
<1>4. /\ DOMAIN p = Place /\ p["wire"] = WireUnits(s, u) /\ p["buffer"] = b
      /\ p["pending"] = WriteUnits(w) /\ p["written"] = d /\ \A r \in Place : p[r] \in Seq(Nat)
  BY AtFields, AtTyped
<1>5. /\ DOMAIN q = Place /\ q["wire"] = WireUnits(Tail(s), u) /\ q["buffer"] = b
      /\ q["pending"] = WriteUnits(Append(w, a)) /\ q["written"] = d
  <2> DEFINE s2 == Tail(s)
  <2> DEFINE w2 == Append(w, a)
  <2>1. q = At(u, s2, b, w2, d)
    OBVIOUS
  <2> HIDE DEF s2, w2, q
  <2>2. /\ DOMAIN q = Place /\ q["wire"] = WireUnits(s2, u) /\ q["buffer"] = b
        /\ q["pending"] = WriteUnits(w2) /\ q["written"] = d
    BY ONLY <2>1, AtFields
  <2> QED
    BY <2>2 DEF s2, w2
<1>6. n # 0 /\ EachOnce(p, m)
  OBVIOUS
<1> HIDE DEF n, p, q
<1>7. /\ "wire" \in Place /\ "pending" \in Place
      /\ \A r \in Place : r # "wire" /\ r # "pending" => q[r] = p[r]
  BY <1>4, <1>5 DEF Place
<1>8. /\ p["wire"] # <<>> /\ Head(p["wire"]) # 0 /\ q["wire"] = Tail(p["wire"])
      /\ q["pending"] = Append(p["pending"], Head(p["wire"]))
  BY <1>1, <1>3, <1>4, <1>5, <1>6
<1>9. EachOnce(q, m)
  <2>1. Moves(p, q, "wire", "pending")
    BY <1>4, <1>5, <1>7, <1>8 DEF Moves
  <2> QED
    BY ONLY <1>6, <2>1, m \in Nat, Moved
<1> QED
  BY <1>9 DEF q

\* The coroutine starts to write a buffered unit.
LEMMA UnitDrained ==
    ASSUME NEW u, NEW s \in Seq(Frame), NEW b \in Seq(Nat), NEW w \in Seq(RemoteWrite),
           NEW d \in Seq(Nat), NEW m \in Nat, EachOnce(At(u, s, b, w, d), m),
           b # <<>>, NEW a \in RemoteWrite, a.unit = Head(b)
    PROVE  EachOnce(At(u, s, Tail(b), Append(w, a), d), m)
<1> DEFINE n == Head(b)
<1> DEFINE p == At(u, s, b, w, d)
<1> DEFINE q == At(u, s, Tail(b), Append(w, a), d)
<1>1. Tail(b) \in Seq(Nat) /\ n = b[1] /\ n \in Nat /\ 1 \in DOMAIN b
  BY Front
<1>3. Append(w, a) \in Seq(RemoteWrite) /\ WriteUnits(Append(w, a)) = Append(WriteUnits(w), n)
  BY WritesAppend
<1>4. /\ DOMAIN p = Place /\ p["wire"] = WireUnits(s, u) /\ p["buffer"] = b
      /\ p["pending"] = WriteUnits(w) /\ p["written"] = d /\ \A r \in Place : p[r] \in Seq(Nat)
  BY AtFields, AtTyped
<1>5. /\ DOMAIN q = Place /\ q["wire"] = WireUnits(s, u) /\ q["buffer"] = Tail(b)
      /\ q["pending"] = WriteUnits(Append(w, a)) /\ q["written"] = d
  <2> DEFINE b2 == Tail(b)
  <2> DEFINE w2 == Append(w, a)
  <2>1. q = At(u, s, b2, w2, d)
    OBVIOUS
  <2> HIDE DEF b2, w2, q
  <2>2. /\ DOMAIN q = Place /\ q["wire"] = WireUnits(s, u) /\ q["buffer"] = b2
        /\ q["pending"] = WriteUnits(w2) /\ q["written"] = d
    BY ONLY <2>1, AtFields
  <2> QED
    BY <2>2 DEF b2, w2
<1>6. EachOnce(p, m) /\ b # <<>>
  OBVIOUS
<1> HIDE DEF n, p, q
<1>7. /\ "buffer" \in Place /\ "pending" \in Place
      /\ \A r \in Place : r # "buffer" /\ r # "pending" => q[r] = p[r]
  BY <1>4, <1>5 DEF Place
<1>8. n # 0
  <2>1. p["buffer"][1] \in 1..m
    BY <1>1, <1>4, <1>6, <1>7 DEF EachOnce
  <2> QED
    BY <1>1, <1>4, <2>1
<1>9. /\ p["buffer"] # <<>> /\ Head(p["buffer"]) # 0 /\ q["buffer"] = Tail(p["buffer"])
      /\ q["pending"] = Append(p["pending"], Head(p["buffer"]))
  BY <1>3, <1>4, <1>5, <1>6, <1>8 DEF n
<1>10. EachOnce(q, m)
  <2>1. Moves(p, q, "buffer", "pending")
    BY <1>4, <1>5, <1>7, <1>9 DEF Moves
  <2> QED
    BY ONLY <1>6, <2>1, m \in Nat, Moved
<1> QED
  BY <1>10 DEF q

\* A write on the remote returned.
LEMMA UnitDelivered ==
    ASSUME NEW u, NEW s \in Seq(Frame), NEW b \in Seq(Nat), NEW w \in Seq(RemoteWrite),
           NEW d \in Seq(Nat), NEW m \in Nat, EachOnce(At(u, s, b, w, d), m), w # <<>>
    PROVE  EachOnce(At(u, s, b, Tail(w), Append(d, Head(w).unit)), m)
<1> DEFINE n == Head(w).unit
<1> DEFINE p == At(u, s, b, w, d)
<1> DEFINE q == At(u, s, b, Tail(w), Append(d, n))
<1>1. /\ WriteUnits(Tail(w)) = Tail(WriteUnits(w)) /\ WriteUnits(w) # <<>>
      /\ Tail(w) \in Seq(RemoteWrite) /\ Head(WriteUnits(w)) = n /\ n \in Nat
  BY WritesTail
<1>2. Append(d, n) \in Seq(Nat)
  BY <1>1
<1>4. /\ DOMAIN p = Place /\ p["wire"] = WireUnits(s, u) /\ p["buffer"] = b
      /\ p["pending"] = WriteUnits(w) /\ p["written"] = d /\ \A r \in Place : p[r] \in Seq(Nat)
  BY AtFields, AtTyped
<1>5. /\ DOMAIN q = Place /\ q["wire"] = WireUnits(s, u) /\ q["buffer"] = b
      /\ q["pending"] = WriteUnits(Tail(w)) /\ q["written"] = Append(d, n)
  <2> DEFINE w2 == Tail(w)
  <2> DEFINE d2 == Append(d, n)
  <2>1. q = At(u, s, b, w2, d2)
    OBVIOUS
  <2> HIDE DEF w2, d2, q
  <2>2. /\ DOMAIN q = Place /\ q["wire"] = WireUnits(s, u) /\ q["buffer"] = b
        /\ q["pending"] = WriteUnits(w2) /\ q["written"] = d2
    BY ONLY <2>1, AtFields
  <2> QED
    BY <2>2 DEF w2, d2
<1>6. EachOnce(p, m)
  OBVIOUS
<1> HIDE DEF n, p, q
<1>7. /\ "pending" \in Place /\ "written" \in Place
      /\ \A r \in Place : r # "pending" /\ r # "written" => q[r] = p[r]
  BY <1>4, <1>5 DEF Place
<1>8. n # 0
  <2>1. /\ p["pending"] \in Seq(Nat) /\ p["pending"] # <<>> /\ Head(p["pending"]) = n
    BY <1>1, <1>4, <1>7
  <2>2. p["pending"][1] = n /\ 1 \in DOMAIN p["pending"]
    BY <2>1, Front
  <2>3. p["pending"][1] \in 1..m
    BY <1>4, <1>6, <1>7, <2>2 DEF EachOnce
  <2> QED
    BY <2>2, <2>3
<1>9. /\ p["pending"] # <<>> /\ Head(p["pending"]) # 0 /\ q["pending"] = Tail(p["pending"])
      /\ q["written"] = Append(p["written"], Head(p["pending"]))
  BY <1>1, <1>4, <1>5, <1>8
<1>10. EachOnce(q, m)
  <2>1. Moves(p, q, "pending", "written")
    BY <1>4, <1>5, <1>7, <1>9 DEF Moves
  <2> QED
    BY ONLY <1>6, <2>1, m \in Nat, Moved
<1> QED
  BY <1>10 DEF q, n

\* A frame that carries no unit of u leaves the wire.
LEMMA FrameSkipped ==
    ASSUME NEW u, NEW s \in Seq(Frame), NEW b \in Seq(Nat), NEW w \in Seq(RemoteWrite),
           NEW d \in Seq(Nat), NEW m \in Nat, EachOnce(At(u, s, b, w, d), m),
           s # <<>>, ~(s[1].method = "DATA" /\ s[1].uuid = u)
    PROVE  EachOnce(At(u, Tail(s), b, w, d), m)
<1> DEFINE p == At(u, s, b, w, d)
<1> DEFINE q == At(u, Tail(s), b, w, d)
<1>1. /\ WireUnits(Tail(s), u) = Tail(WireUnits(s, u)) /\ WireUnits(s, u) # <<>>
      /\ Head(WireUnits(s, u)) = 0
  BY WireTail
<1>2. Tail(s) \in Seq(Frame)
  BY HeadFrame
<1>4. /\ DOMAIN p = Place /\ p["wire"] = WireUnits(s, u) /\ p["buffer"] = b
      /\ p["pending"] = WriteUnits(w) /\ p["written"] = d /\ \A r \in Place : p[r] \in Seq(Nat)
  BY AtFields, AtTyped
<1>5. /\ DOMAIN q = Place /\ q["wire"] = WireUnits(Tail(s), u) /\ q["buffer"] = b
      /\ q["pending"] = WriteUnits(w) /\ q["written"] = d
  <2> DEFINE s2 == Tail(s)
  <2>1. q = At(u, s2, b, w, d)
    OBVIOUS
  <2> HIDE DEF s2, q
  <2>2. /\ DOMAIN q = Place /\ q["wire"] = WireUnits(s2, u) /\ q["buffer"] = b
        /\ q["pending"] = WriteUnits(w) /\ q["written"] = d
    BY ONLY <2>1, AtFields
  <2> QED
    BY <2>2 DEF s2
<1>6. EachOnce(p, m)
  OBVIOUS
<1> HIDE DEF p, q
<1>7. \A r \in Place : r # "wire" => q[r] = p[r]
  BY <1>4, <1>5 DEF Place
<1>8. p["wire"] # <<>> /\ Head(p["wire"]) = 0 /\ q["wire"] = Tail(p["wire"])
  BY <1>1, <1>4, <1>5
<1>9. EachOnce(q, m)
  BY <1>4, <1>5, <1>6, <1>7, <1>8, Skipped
<1> QED
  BY <1>9 DEF q

\* B adds a frame: the next unit of u, or one that carries none.
LEMMA FrameAdded ==
    ASSUME NEW u, NEW s \in Seq(Frame), NEW b \in Seq(Nat), NEW w \in Seq(RemoteWrite),
           NEW d \in Seq(Nat), NEW m \in Nat, EachOnce(At(u, s, b, w, d), m), NEW f \in Frame
    PROVE  /\ ~(f.method = "DATA" /\ f.uuid = u) => EachOnce(At(u, Append(s, f), b, w, d), m)
           /\ f.method = "DATA" /\ f.uuid = u /\ f.unit = m + 1
              => EachOnce(At(u, Append(s, f), b, w, d), m + 1)
<1> DEFINE n == IF f.method = "DATA" /\ f.uuid = u THEN f.unit ELSE 0
<1> DEFINE p == At(u, s, b, w, d)
<1> DEFINE q == At(u, Append(s, f), b, w, d)
<1>1. WireUnits(Append(s, f), u) = Append(WireUnits(s, u), n)
  BY WireAppend
<1>2. Append(s, f) \in Seq(Frame)
  OBVIOUS
<1>4. /\ DOMAIN p = Place /\ p["wire"] = WireUnits(s, u) /\ p["buffer"] = b
      /\ p["pending"] = WriteUnits(w) /\ p["written"] = d /\ \A r \in Place : p[r] \in Seq(Nat)
  BY AtFields, AtTyped
<1>5. /\ DOMAIN q = Place /\ q["wire"] = WireUnits(Append(s, f), u) /\ q["buffer"] = b
      /\ q["pending"] = WriteUnits(w) /\ q["written"] = d
  <2> DEFINE s2 == Append(s, f)
  <2>1. q = At(u, s2, b, w, d)
    OBVIOUS
  <2> HIDE DEF s2, q
  <2>2. /\ DOMAIN q = Place /\ q["wire"] = WireUnits(s2, u) /\ q["buffer"] = b
        /\ q["pending"] = WriteUnits(w) /\ q["written"] = d
    BY ONLY <2>1, AtFields
  <2> QED
    BY <2>2 DEF s2
<1>6. EachOnce(p, m)
  OBVIOUS
<1>7. /\ ~(f.method = "DATA" /\ f.uuid = u) => n = 0
      /\ f.method = "DATA" /\ f.uuid = u /\ f.unit = m + 1 => n = m + 1
  OBVIOUS
<1> HIDE DEF n, p, q
<1>8. \A r \in Place : r # "wire" => q[r] = p[r]
  BY <1>4, <1>5 DEF Place
<1>9. q["wire"] = Append(p["wire"], n)
  BY <1>1, <1>4, <1>5
<1>10. ASSUME n \in {0, m + 1} PROVE EachOnce(q, IF n = 0 THEN m ELSE m + 1)
  BY <1>4, <1>5, <1>6, <1>8, <1>9, <1>10, Added
<1>11. (n = 0 => EachOnce(q, m)) /\ (n = m + 1 => EachOnce(q, m + 1))
  <2>1. m + 1 # 0
    OBVIOUS
  <2> QED
    BY <1>10, <2>1
<1> QED
  BY <1>7, <1>11 DEF q

-----------------------------------------------------------------------------
(* The steps of B and of C *)

Kept(u) ==
    /\ linkB /\ linkC
    /\ u \in c_sessions \/ c_co[u] = "none"
    /\ c_co[u] # "thrown"

Units(u) ==
    EachOnce(At(u, up, c_arrival_buffer[u], c_pending[u], c_written[u]), b_read[u])

AllKept == \A u \in Uuid : Kept(u) => Units(u)

LEMMA PlacesAreAt == UpstreamConserved <=> AllKept
BY DEF UpstreamConserved, AllKept, Kept, Units, Places, At, WireUnits, WriteUnits

\* No DATA carries the unit 0, which stands for none.
DataNumbered == \A i \in 1..Len(up) : up[i].method = "DATA" => up[i].unit # 0

\* FORWARD_SESSION is ahead of the DATA of a session C has not heard of, so
\* that C never reads DATA of a session it will only know later.
DataBehindForward ==
    \A u \in Uuid : \A i \in 1..Len(up) :
        c_co[u] = "none" /\ Carries(up, i, "DATA", u) =>
        \E j \in 1..Len(up) : j < i /\ Carries(up, j, "FORWARD_SESSION", u)
ForwardUnderWay ==
    \A u \in Uuid : linkB /\ linkC /\ b_pump[u] # "none" /\ c_co[u] = "none" =>
        \E j \in 1..Len(up) : Carries(up, j, "FORWARD_SESSION", u)

\* Nothing is written to the remote of a session C has not heard of.
NoEarlyWrite == \A u \in Uuid : c_co[u] = "none" => c_pending[u] = <<>>

Ahead == DataNumbered /\ DataBehindForward /\ ForwardUnderWay
Heralded == Ahead /\ NoEarlyWrite

LEMMA UnitsTyped ==
    ASSUME TypeOK, NEW u \in Uuid
    PROVE  /\ up \in Seq(Frame) /\ c_arrival_buffer[u] \in Seq(Nat)
           /\ c_pending[u] \in Seq(RemoteWrite) /\ c_written[u] \in Seq(Nat) /\ b_read[u] \in Nat
BY DEF TypeOK, WireTypeOK, VisitorTypeOK, ProviderTypeOK

\* A step that does not touch the places of u.
LEMMA UnitsSame ==
    ASSUME NEW u, Units(u), up' = up, c_arrival_buffer'[u] = c_arrival_buffer[u],
           c_pending'[u] = c_pending[u], c_written'[u] = c_written[u], b_read'[u] = b_read[u]
    PROVE  Units(u)'
BY DEF Units

LEMMA UnitsSkipped ==
    ASSUME TypeOK, NEW u \in Uuid, Units(u), up # <<>>, up' = Tail(up),
           ~(up[1].method = "DATA" /\ up[1].uuid = u), c_arrival_buffer'[u] = c_arrival_buffer[u],
           c_pending'[u] = c_pending[u], c_written'[u] = c_written[u], b_read'[u] = b_read[u]
    PROVE  Units(u)'
BY UnitsTyped, FrameSkipped DEF Units

\* B writes the frame f.
LEMMA UnitsAdded ==
    ASSUME TypeOK, NEW u \in Uuid, Units(u), NEW f \in Frame, aconn_write_up(f), linkB, linkC,
           f.method # "DATA" \/ f.uuid # u \/ f.unit = b_read[u] + 1,
           b_read'[u] = IF f.method = "DATA" /\ f.uuid = u THEN b_read[u] + 1 ELSE b_read[u],
           c_arrival_buffer'[u] = c_arrival_buffer[u],
           c_pending'[u] = c_pending[u], c_written'[u] = c_written[u]
    PROVE  Units(u)'
<1> DEFINE g == Translated(f)
<1>1. /\ g \in Frame /\ g.uuid = f.uuid /\ g.unit = f.unit
      /\ g.method = "DATA" <=> f.method = "DATA"
  BY FrameTypes DEF Translated, Frame
<1>2. up' = Append(up, g)
  BY DEF aconn_write_up
<1> HIDE DEF g
<1>3. EachOnce(At(u, up, c_arrival_buffer[u], c_pending[u], c_written[u]), b_read[u])
  BY DEF Units
<1>4. /\ ~(g.method = "DATA" /\ g.uuid = u)
         => EachOnce(At(u, Append(up, g), c_arrival_buffer[u], c_pending[u], c_written[u]), b_read[u])
      /\ g.method = "DATA" /\ g.uuid = u /\ g.unit = b_read[u] + 1
         => EachOnce(At(u, Append(up, g), c_arrival_buffer[u], c_pending[u], c_written[u]), b_read[u] + 1)
  BY <1>1, <1>3, UnitsTyped, FrameAdded
<1>5. EachOnce(At(u, up', c_arrival_buffer'[u], c_pending'[u], c_written'[u]), b_read'[u])
  BY <1>1, <1>2, <1>4
<1> QED
  BY <1>5 DEF Units

LEMMA VisitorUnits ==
    ASSUME TypeOK, AllKept, VisitorNext, UNCHANGED providerVars, NEW u \in Uuid, Kept(u)'
    PROVE  Units(u)'
<1>1. /\ UNCHANGED <<c_sessions, c_co, c_arrival_buffer, c_pending, c_written>>
      /\ b_read \in [Uuid -> Nat]
  BY DEF providerVars, TypeOK, VisitorTypeOK
<1>2. ASSUME linkB' = linkB, linkC' = linkC PROVE linkB /\ linkC /\ Units(u)
  BY <1>1, <1>2 DEF Kept, AllKept
<1>3. ASSUME NEW v \in Uuid, Accept(v) PROVE Units(u)'
  <2> DEFINE f == ControlFrame("NEW_SESSION", v)
  <2>1. f \in Frame /\ f.method # "DATA"
    BY FrameTypes DEF ControlFrame, Method
  <2>2. aconn_write_up(f) /\ UNCHANGED <<linkB, linkC, b_read>>
    BY <1>3 DEF Accept
  <2> HIDE DEF f
  <2> QED
    BY <1>1, <1>2, <2>1, <2>2, UnitsAdded
<1>4. ASSUME NEW v \in Uuid, PumpRead(v) PROVE Units(u)'
  <2> DEFINE f == DataFrame(v, b_read[v] + 1)
  <2>1. f \in Frame /\ f.method = "DATA" /\ f.uuid = v /\ f.unit = b_read[v] + 1
    BY <1>1, FrameTypes DEF DataFrame
  <2>2. aconn_write_up(f) /\ UNCHANGED <<linkB, linkC>> /\ b_read' = [b_read EXCEPT ![v] = @ + 1]
    BY <1>4 DEF PumpRead
  <2> HIDE DEF f
  <2>3. b_read'[u] = IF u = v THEN b_read[u] + 1 ELSE b_read[u]
    BY <1>1, <2>2
  <2> QED
    BY <1>1, <1>2, <2>1, <2>2, <2>3, UnitsAdded
<1>5. ASSUME NEW v \in Uuid, PumpEof(v) PROVE Units(u)'
  <2> DEFINE f == ControlFrame("DATA_EOF", v)
  <2>1. f \in Frame /\ f.method # "DATA"
    BY FrameTypes DEF ControlFrame, Method
  <2>2. aconn_write_up(f) /\ UNCHANGED <<linkB, linkC, b_read>>
    BY <1>5 DEF PumpEof
  <2> HIDE DEF f
  <2> QED
    BY <1>1, <1>2, <2>1, <2>2, UnitsAdded
<1>6. CASE ReaderWriteFail
  <2> DEFINE f == ControlFrame("SESSION_CLOSE", b_cur)
  <2>1. f \in Frame /\ f.method # "DATA"
    BY <1>6, FrameTypes DEF ReaderWriteFail, ControlFrame, Method, TypeOK, VisitorTypeOK
  <2>2. aconn_write_up(f) /\ UNCHANGED <<linkB, linkC, b_read>>
    BY <1>6 DEF ReaderWriteFail
  <2> HIDE DEF f
  <2> QED
    BY <1>1, <1>2, <2>1, <2>2, UnitsAdded
<1>7. CASE UNCHANGED <<up, linkB, linkC, b_read>>
  BY <1>1, <1>2, <1>7, UnitsSame
<1>8. CASE ReaderStaleIterator
  BY <1>8 DEF ReaderStaleIterator, BreakLink, Kept
<1>9. CASE ReaderIgnore \/ ReaderReject \/ ReaderData \/ ReaderDataEof
  BY <1>7, <1>9 DEF ReaderIgnore, ReaderReject, ReaderData, ReaderDataEof, ReaderGets, visitorVars
<1>10. CASE AcceptFail \/ ReaderWrote \/ ReaderCloseSent \/ ReaderStop
  BY <1>7, <1>10 DEF AcceptFail, ReaderWrote, ReaderCloseSent, ReaderStop, wireVars
<1>11. ASSUME NEW v \in Uuid, PumpLoop(v) \/ PumpEofSent(v) PROVE Units(u)'
  BY <1>7, <1>11 DEF PumpLoop, PumpEofSent, wireVars
<1> QED
  BY <1>3, <1>4, <1>5, <1>6, <1>8, <1>9, <1>10, <1>11
     DEF VisitorNext, AcceptNext, ReaderNext, PumpNext

LEMMA MainUnits ==
    ASSUME TypeOK, WireInv, Heralded, AllKept, MainNext, UNCHANGED visitorVars,
           NEW u \in Uuid, Kept(u)'
    PROVE  Units(u)'
<1>1. /\ b_read' = b_read
      /\ c_co \in [Uuid -> CoState] /\ c_arrival_buffer \in [Uuid -> Seq(Nat)]
      /\ c_pending \in [Uuid -> Seq(RemoteWrite)] /\ c_written \in [Uuid -> Seq(Nat)]
  BY DEF visitorVars, TypeOK, ProviderTypeOK
<1>2. ASSUME NEW methods, MainGets(methods)
      PROVE  /\ up # <<>> /\ up' = Tail(up) /\ Head(up) = up[1] /\ 1 \in 1..Len(up)
             /\ up[1].uuid \in Uuid /\ up[1].unit \in Nat /\ up[1].method \in methods
             /\ linkB' = linkB /\ linkC' = linkC
  BY <1>2, HeadFrame DEF MainGets, TypeOK, WireTypeOK
<1>3. ASSUME linkB' = linkB, linkC' = linkC, c_co' = c_co, c_sessions' \subseteq c_sessions
      PROVE  Kept(u) /\ Units(u)
  BY <1>3 DEF Kept, AllKept
<1>4. CASE MainForwardSession
  <2> DEFINE v == Head(up).uuid
  <2>1. /\ MainGets({"FORWARD_SESSION"}) /\ c_sessions' = c_sessions \union {v}
        /\ c_co' = [c_co EXCEPT ![v] = "connecting"]
        /\ UNCHANGED <<c_arrival_buffer, c_pending, c_written>>
    BY <1>4 DEF MainForwardSession
  <2>2. up[1].method = "FORWARD_SESSION" /\ v = up[1].uuid /\ v \in Uuid /\ 1 \in 1..Len(up)
    BY <1>2, <2>1
  <2> HIDE DEF v
  <2>3. c_co[v] = "none"
    BY <2>2 DEF WireInv, UpInv, ForwardedOnce, Carries
  <2>4. Kept(u)
    BY <1>1, <1>2, <2>1, <2>2, <2>3 DEF Kept
  <2> QED
    BY <1>1, <1>2, <2>1, <2>2, <2>4, UnitsSkipped DEF AllKept
<1>5. CASE MainDataEof
  <2>1. /\ MainGets({"DATA_EOF"}) /\ c_sessions' \subseteq c_sessions
        /\ UNCHANGED <<c_co, c_arrival_buffer, c_pending, c_written>>
    BY <1>5 DEF MainDataEof
  <2>2. Units(u) /\ up # <<>> /\ up' = Tail(up) /\ up[1].method = "DATA_EOF"
    BY <1>2, <1>3, <2>1
  <2> QED
    BY <1>1, <2>1, <2>2, UnitsSkipped
<1>6. CASE MainSessionClose
  <2>1. /\ MainGets({"SESSION_CLOSE"}) /\ c_sessions' \subseteq c_sessions
        /\ UNCHANGED <<c_co, c_arrival_buffer, c_pending, c_written>>
    BY <1>6 DEF MainSessionClose
  <2>2. Units(u) /\ up # <<>> /\ up' = Tail(up) /\ up[1].method = "SESSION_CLOSE"
    BY <1>2, <1>3, <2>1
  <2> QED
    BY <1>1, <2>1, <2>2, UnitsSkipped
<1>7. CASE MainIgnore
  <2>1. /\ MainGets({"DATA", "DATA_EOF", "SESSION_CLOSE"})
        /\ Head(up).method = "DATA" => ~c_Live(Head(up).uuid)
        /\ UNCHANGED <<c_sessions, c_co, c_arrival_buffer, c_pending, c_written>>
    BY <1>7 DEF MainIgnore, providerVars
  <2>2. Kept(u) /\ Units(u)
    BY <1>2, <1>3, <2>1
  <2>3. ~(up[1].method = "DATA" /\ up[1].uuid = u)
    <3> SUFFICES ASSUME up[1].method = "DATA", up[1].uuid = u PROVE FALSE
      OBVIOUS
    <3>1. ~c_Live(u) /\ 1 \in 1..Len(up) /\ Carries(up, 1, "DATA", u)
      BY <1>2, <2>1 DEF Carries
    <3>2. u \notin c_sessions
      BY <3>1 DEF c_Live, WireInv, MapInv, MapOfC
    <3>3. c_co[u] = "none"
      BY <2>2, <3>2 DEF Kept
    <3>4. \E j \in 1..Len(up) : j < 1
      BY <3>1, <3>3 DEF Heralded, Ahead, DataBehindForward
    <3> QED
      BY <3>4
  <2> QED
    BY <1>1, <1>2, <2>1, <2>2, <2>3, UnitsSkipped
<1>8. CASE MainBuffer
  <2> DEFINE v == Head(up).uuid
  <2>1. /\ MainGets({"DATA"}) /\ UNCHANGED <<c_sessions, c_co, c_pending, c_written>>
        /\ c_arrival_buffer' = [c_arrival_buffer EXCEPT ![v] = Append(@, Head(up).unit)]
    BY <1>8 DEF MainBuffer
  <2>2. /\ up # <<>> /\ up' = Tail(up) /\ v = up[1].uuid /\ Head(up) = up[1] /\ 1 \in 1..Len(up)
        /\ up[1].method = "DATA" /\ v \in Uuid /\ Units(u)
    BY <1>2, <1>3, <2>1
  <2> HIDE DEF v
  <2>3. CASE u # v
    BY <1>1, <2>1, <2>2, <2>3, UnitsSkipped
  <2>4. CASE u = v
    <3>1. up[1].unit # 0
      BY <2>2 DEF Heralded, Ahead, DataNumbered
    <3>2. /\ c_arrival_buffer'[u] = Append(c_arrival_buffer[u], up[1].unit)
          /\ c_pending'[u] = c_pending[u] /\ c_written'[u] = c_written[u]
      BY <1>1, <2>1, <2>2, <2>4
    <3>3. EachOnce(At(u, up, c_arrival_buffer[u], c_pending[u], c_written[u]), b_read[u])
      BY <2>2 DEF Units
    <3>4. EachOnce(At(u, Tail(up), Append(c_arrival_buffer[u], up[1].unit), c_pending[u], c_written[u]),
                   b_read[u])
      BY <2>2, <2>4, <3>1, <3>3, UnitsTyped, FrameBuffered
    <3>5. EachOnce(At(u, up', c_arrival_buffer'[u], c_pending'[u], c_written'[u]), b_read'[u])
      BY <1>1, <2>2, <3>2, <3>4
    <3> QED
      BY <3>5 DEF Units
  <2> QED
    BY <2>3, <2>4
<1>9. CASE MainData
  <2> DEFINE v == Head(up).uuid
  <2> DEFINE a == [by |-> "main", unit |-> Head(up).unit]
  <2>1. /\ MainGets({"DATA"}) /\ UNCHANGED <<c_sessions, c_co, c_arrival_buffer, c_written>>
        /\ c_pending' = [c_pending EXCEPT ![v] = Append(@, a)]
    BY <1>9 DEF MainData, c_StartWrite
  <2>2. /\ up # <<>> /\ up' = Tail(up) /\ v = up[1].uuid /\ Head(up) = up[1] /\ 1 \in 1..Len(up)
        /\ up[1].method = "DATA" /\ v \in Uuid /\ Units(u)
    BY <1>2, <1>3, <2>1
  <2>3. a \in RemoteWrite /\ a.unit = up[1].unit
    BY <1>2, <2>1 DEF RemoteWrite, Writer
  <2> HIDE DEF v, a
  <2>4. CASE u # v
    BY <1>1, <2>1, <2>2, <2>4, UnitsSkipped
  <2>5. CASE u = v
    <3>1. up[1].unit # 0
      BY <2>2 DEF Heralded, Ahead, DataNumbered
    <3>2. /\ c_pending'[u] = Append(c_pending[u], a)
          /\ c_arrival_buffer'[u] = c_arrival_buffer[u] /\ c_written'[u] = c_written[u]
      BY <1>1, <2>1, <2>2, <2>5
    <3>3. EachOnce(At(u, up, c_arrival_buffer[u], c_pending[u], c_written[u]), b_read[u])
      BY <2>2 DEF Units
    <3>4. EachOnce(At(u, Tail(up), c_arrival_buffer[u], Append(c_pending[u], a), c_written[u]),
                   b_read[u])
      BY <2>2, <2>3, <2>5, <3>1, <3>3, UnitsTyped, FrameWritten
    <3>5. EachOnce(At(u, up', c_arrival_buffer'[u], c_pending'[u], c_written'[u]), b_read'[u])
      BY <1>1, <2>2, <3>2, <3>4
    <3> QED
      BY <3>5 DEF Units
  <2> QED
    BY <2>4, <2>5
<1>10. CASE MainWrote
  <2> DEFINE v == c_cur
  <2>1. /\ v \in Uuid /\ c_pending[v] # <<>> /\ up' = up /\ linkB' = linkB /\ linkC' = linkC
        /\ c_pending' = [c_pending EXCEPT ![v] = Tail(@)]
        /\ c_written' = [c_written EXCEPT ![v] = Append(@, Head(c_pending[v]).unit)]
        /\ UNCHANGED <<c_sessions, c_co, c_arrival_buffer>>
    BY <1>10 DEF MainWrote, c_Oldest, TypeOK, ProviderTypeOK, wireVars
  <2>2. Units(u)
    BY <1>3, <2>1
  <2> HIDE DEF v
  <2>3. CASE u # v
    BY <1>1, <2>1, <2>2, <2>3, UnitsSame
  <2>4. CASE u = v
    <3>1. /\ c_pending'[u] = Tail(c_pending[u]) /\ c_arrival_buffer'[u] = c_arrival_buffer[u]
          /\ c_written'[u] = Append(c_written[u], Head(c_pending[u]).unit)
      BY <1>1, <2>1, <2>4
    <3>2. EachOnce(At(u, up, c_arrival_buffer[u], Tail(c_pending[u]),
                      Append(c_written[u], Head(c_pending[u]).unit)), b_read[u])
      BY <2>1, <2>2, <2>4, UnitsTyped, UnitDelivered DEF Units
    <3>3. EachOnce(At(u, up', c_arrival_buffer'[u], c_pending'[u], c_written'[u]), b_read'[u])
      BY <1>1, <2>1, <3>1, <3>2
    <3> QED
      BY <3>3 DEF Units
  <2> QED
    BY <2>3, <2>4
<1>11. CASE MainWriteFail
  <2>1. /\ c_cur \in Uuid /\ c_pending[c_cur] # <<>> /\ up' = up /\ linkB' = linkB /\ linkC' = linkC
        /\ c_pending' = [c_pending EXCEPT ![c_cur] = Tail(@)] /\ c_sessions' = {}
        /\ UNCHANGED <<c_co, c_arrival_buffer, c_written>>
    BY <1>11 DEF MainWriteFail, c_Teardown, c_Oldest, TypeOK, ProviderTypeOK, wireVars
  <2>2. Units(u) /\ c_co[u] = "none"
    BY <1>3, <2>1 DEF Kept
  <2>3. u # c_cur
    BY <2>1, <2>2 DEF Heralded, NoEarlyWrite
  <2> QED
    BY <1>1, <2>1, <2>2, <2>3, UnitsSame
<1>12. CASE MainStop
  BY <1>12 DEF MainStop, Kept, wireVars
<1> QED
  BY <1>4, <1>5, <1>6, <1>7, <1>8, <1>9, <1>10, <1>11, <1>12 DEF MainNext

\* The coroutine goes on with the arrival buffer.
LEMMA DrainUnits ==
    ASSUME TypeOK, NEW u \in Uuid, NEW pending \in Seq(RemoteWrite), NEW d \in Seq(Nat),
           EachOnce(At(u, up, c_arrival_buffer[u], pending, d), b_read[u]),
           c_Drain(u, pending), c_co'[u] # "thrown",
           up' = up, c_written'[u] = d, b_read' = b_read
    PROVE  Units(u)'
<1> DEFINE buffer == c_arrival_buffer[u]
<1> DEFINE a == [by |-> "drain", unit |-> Head(buffer)]
<1>1. /\ c_pending \in [Uuid -> Seq(RemoteWrite)] /\ c_arrival_buffer \in [Uuid -> Seq(Nat)]
      /\ c_co \in [Uuid -> CoState] /\ buffer \in Seq(Nat) /\ up \in Seq(Frame) /\ b_read[u] \in Nat
  BY UnitsTyped DEF TypeOK, ProviderTypeOK
<1>2. CASE buffer # <<>> /\ c_remote[u] = "open"
  <2>1. a \in RemoteWrite /\ a.unit = Head(buffer)
    BY <1>1, <1>2, Front DEF RemoteWrite, Writer
  <2>2. /\ c_pending' = [c_pending EXCEPT ![u] = Append(pending, a)]
        /\ c_arrival_buffer' = [c_arrival_buffer EXCEPT ![u] = Tail(buffer)]
    BY <1>2 DEF c_Drain
  <2>3. EachOnce(At(u, up, buffer, pending, d), b_read[u])
    OBVIOUS
  <2> HIDE DEF buffer, a
  <2>4. EachOnce(At(u, up, Tail(buffer), Append(pending, a), d), b_read[u])
    BY <1>1, <1>2, <2>1, <2>3, UnitDrained
  <2>5. c_pending'[u] = Append(pending, a) /\ c_arrival_buffer'[u] = Tail(buffer)
    BY <1>1, <2>2
  <2>6. EachOnce(At(u, up', c_arrival_buffer'[u], c_pending'[u], c_written'[u]), b_read'[u])
    BY <2>4, <2>5
  <2> QED
    BY <2>6 DEF Units
<1>3. CASE buffer # <<>> /\ c_remote[u] # "open"
  BY <1>1, <1>3 DEF c_Drain
<1>4. CASE buffer = <<>>
  <2>1. c_pending' = [c_pending EXCEPT ![u] = pending] /\ UNCHANGED c_arrival_buffer
    BY <1>4 DEF c_Drain
  <2>2. c_pending'[u] = pending
    BY <1>1, <2>1
  <2>3. EachOnce(At(u, up', c_arrival_buffer'[u], c_pending'[u], c_written'[u]), b_read'[u])
    BY <2>1, <2>2
  <2> QED
    BY <2>3 DEF Units
<1> QED
  BY <1>2, <1>3, <1>4

\* What a coroutine leaves alone: the stream from B, the connections and the
\* other sessions.
LEMMA CoTouches ==
    ASSUME TypeOK, NEW v \in Uuid, CoNext(v)
    PROVE  /\ UNCHANGED <<up, linkB, linkC>> /\ c_sessions' \subseteq c_sessions
           /\ c_co[v] \notin {"none", "thrown"} /\ c_co'[v] # "none"
           /\ \A u \in Uuid \ {v} :
                 /\ c_co'[u] = c_co[u] /\ c_arrival_buffer'[u] = c_arrival_buffer[u]
                 /\ c_pending'[u] = c_pending[u] /\ c_written'[u] = c_written[u]
<1>1. /\ c_co \in [Uuid -> CoState] /\ c_arrival_buffer \in [Uuid -> Seq(Nat)]
      /\ c_pending \in [Uuid -> Seq(RemoteWrite)] /\ c_written \in [Uuid -> Seq(Nat)]
  BY DEF TypeOK, ProviderTypeOK
<1>2. CASE OkSent(v) \/ DrainWrote(v)
  BY <1>1, <1>2 DEF OkSent, DrainWrote, c_Drain, c_LoopHead, wireVars
<1>3. CASE ~(OkSent(v) \/ DrainWrote(v))
  BY <1>1, <1>3 DEF CoNext, ConnectFail, ErrSent, Connected, DrainFail, RemoteRead, RemoteSent,
     RemoteEof, RemoteEofSent, c_LoopHead, wireVars
<1> QED
  BY <1>2, <1>3

LEMMA CoUnits ==
    ASSUME TypeOK, AllKept, NEW v \in Uuid, CoNext(v), UNCHANGED visitorVars,
           NEW u \in Uuid, Kept(u)'
    PROVE  Units(u)'
<1>1. b_read' = b_read /\ up' = up
  BY CoTouches DEF visitorVars
<1>2. Kept(u) /\ Units(u)
  BY CoTouches DEF Kept, AllKept
<1>3. CASE u # v
  BY <1>1, <1>2, <1>3, CoTouches, UnitsSame
<1>4. CASE u = v
  <2>0. /\ c_co[u] # "none" /\ c_co'[u] # "none" /\ c_co'[u] # "thrown" /\ u \in c_sessions'
        /\ EachOnce(At(u, up, c_arrival_buffer[u], c_pending[u], c_written[u]), b_read[u])
    BY <1>2, <1>4, CoTouches DEF Kept, Units
  <2>t. /\ up \in Seq(Frame) /\ c_arrival_buffer[u] \in Seq(Nat)
        /\ c_pending[u] \in Seq(RemoteWrite) /\ c_written[u] \in Seq(Nat) /\ b_read[u] \in Nat
    BY UnitsTyped
  <2>1. CASE UNCHANGED <<c_arrival_buffer, c_pending, c_written>>
    BY <1>1, <1>2, <2>1, UnitsSame
  <2>2. CASE OkSent(u)
    <3>1. c_Drain(u, c_pending[u]) /\ c_written' = c_written
      BY <2>2 DEF OkSent
    <3> QED
      BY <1>1, <2>0, <2>t, <3>1, DrainUnits
  <2>3. CASE DrainWrote(u)
    <3> DEFINE d == Append(c_written[u], Head(c_pending[u]).unit)
    <3> DEFINE rest == Tail(c_pending[u])
    <3>1. c_pending[u] # <<>> /\ c_Drain(u, rest) /\ c_written' = [c_written EXCEPT ![u] = d]
      BY <2>3 DEF DrainWrote, c_Oldest
    <3>2. rest \in Seq(RemoteWrite) /\ Head(c_pending[u]).unit \in Nat
      BY <2>t, <3>1, PendingTyped DEF TypeOK
    <3>3. d \in Seq(Nat)
      BY <2>t, <3>2
    <3>4. EachOnce(At(u, up, c_arrival_buffer[u], rest, d), b_read[u])
      BY <2>0, <2>t, <3>1, UnitDelivered
    <3> HIDE DEF d, rest
    <3>5. c_written'[u] = d
      BY <3>1 DEF TypeOK, ProviderTypeOK
    <3> QED
      BY <1>1, <2>0, <3>1, <3>2, <3>3, <3>4, <3>5, DrainUnits
  <2>4. CASE DrainFail(u)
    BY <2>0, <2>4 DEF DrainFail, TypeOK, ProviderTypeOK
  <2>5. CASE ConnectFail(u) \/ ErrSent(u) \/ Connected(u) \/ RemoteRead(u) \/ RemoteSent(u)
               \/ RemoteEof(u) \/ RemoteEofSent(u)
    BY <2>1, <2>5 DEF ConnectFail, ErrSent, Connected, RemoteRead, RemoteSent, RemoteEof, RemoteEofSent
  <2> QED
    BY <1>4, <2>2, <2>3, <2>4, <2>5 DEF CoNext
<1> QED
  BY <1>3, <1>4

LEMMA AllKeptStep ==
    ASSUME TypeOK, WireInv, Heralded, AllKept, [Next]_vars
    PROVE  AllKept'
<1> SUFFICES ASSUME NEW u \in Uuid, Kept(u)' PROVE Units(u)'
  BY DEF AllKept
<1>1. CASE VisitorNext /\ UNCHANGED providerVars
  BY <1>1, VisitorUnits
<1>2. CASE MainNext /\ UNCHANGED visitorVars
  BY <1>2, MainUnits
<1>3. ASSUME NEW v \in Uuid, CoNext(v), UNCHANGED visitorVars PROVE Units(u)'
  BY <1>3, CoUnits
<1>4. CASE ProviderExit \/ LinkDown
  BY <1>4 DEF ProviderExit, LinkDown, BreakLink, Kept
<1>5. CASE UNCHANGED vars
  <2>1. UNCHANGED <<up, linkB, linkC, c_sessions, c_co, c_arrival_buffer, c_pending, c_written, b_read>>
    BY <1>5 DEF vars, wireVars, visitorVars, providerVars
  <2>2. Kept(u)
    BY <2>1 DEF Kept
  <2> QED
    BY <2>1, <2>2, UnitsSame DEF AllKept
<1> QED
  BY <1>1, <1>2, <1>3, <1>4, <1>5 DEF Next, ProviderNext

-----------------------------------------------------------------------------
(* FORWARD_SESSION comes first *)

\* Frames are lost from some point on, or none.
LEMMA AheadPrefix ==
    ASSUME TypeOK, Ahead, up' \in Prefixes(up), UNCHANGED c_co,
           linkB' /\ linkC' => /\ up' = up /\ linkB /\ linkC
                               /\ \A u \in Uuid : b_pump'[u] # "none" => b_pump[u] # "none"
    PROVE  Ahead'
<1>1. up \in Seq(Frame) /\ Len(up) \in Nat
  BY DEF TypeOK, WireTypeOK
<1>2. up' \in Seq(Frame) /\ Len(up') <= Len(up) /\ \A i \in 1..Len(up') : up'[i] = up[i]
  BY <1>1, PrefixTyped
<1>3. Len(up') \in Nat /\ \A i \in 1..Len(up') : i \in 1..Len(up)
  BY <1>1, <1>2
<1>4. DataNumbered'
  BY <1>2, <1>3 DEF Ahead, DataNumbered
<1>5. DataBehindForward'
  <2> SUFFICES ASSUME NEW u \in Uuid, NEW i \in 1..Len(up'), c_co[u] = "none",
                      Carries(up', i, "DATA", u)
               PROVE  \E j \in 1..Len(up') : j < i /\ Carries(up', j, "FORWARD_SESSION", u)
    BY DEF DataBehindForward
  <2>1. PICK j \in 1..Len(up) : j < i /\ Carries(up, j, "FORWARD_SESSION", u)
    BY <1>2, <1>3 DEF Ahead, DataBehindForward, Carries
  <2>2. j \in 1..Len(up')
    BY <1>3, <2>1
  <2> QED
    BY <1>2, <2>1, <2>2 DEF Carries
<1>6. ForwardUnderWay'
  BY DEF Ahead, ForwardUnderWay
<1> QED
  BY <1>4, <1>5, <1>6 DEF Ahead

\* C takes a frame off the wire.
LEMMA AheadTail ==
    ASSUME TypeOK, Ahead, NEW methods, MainGets(methods), UNCHANGED b_pump,
           \A u \in Uuid : c_co'[u] = "none" =>
               c_co[u] = "none" /\ ~Carries(up, 1, "FORWARD_SESSION", u)
    PROVE  Ahead'
<1>1. up \in Seq(Frame) /\ up # <<>> /\ up' = Tail(up) /\ UNCHANGED <<linkB, linkC>>
  BY DEF TypeOK, WireTypeOK, MainGets
<1>2. /\ Len(up) \in Nat /\ Len(up') = Len(up) - 1
      /\ \A i \in 1..Len(up') : up'[i] = up[i + 1]
  BY <1>1, HeadFrame
<1>3. \A i \in 1..Len(up') : i + 1 \in 1..Len(up)
  BY <1>2
<1>4. DataNumbered'
  BY <1>2, <1>3 DEF Ahead, DataNumbered
<1>5. ASSUME NEW u \in Uuid, c_co'[u] = "none", NEW j \in 1..Len(up),
             Carries(up, j, "FORWARD_SESSION", u)
      PROVE  j - 1 \in 1..Len(up') /\ Carries(up', j - 1, "FORWARD_SESSION", u)
  <2>1. j # 1
    BY <1>5
  <2>2. j - 1 \in 1..Len(up') /\ (j - 1) + 1 = j
    BY <1>2, <2>1
  <2> QED
    BY <1>2, <1>5, <2>2 DEF Carries
<1>6. DataBehindForward'
  <2> SUFFICES ASSUME NEW u \in Uuid, NEW i \in 1..Len(up'), c_co'[u] = "none",
                      Carries(up', i, "DATA", u)
               PROVE  \E j \in 1..Len(up') : j < i /\ Carries(up', j, "FORWARD_SESSION", u)
    BY DEF DataBehindForward
  <2>1. Carries(up, i + 1, "DATA", u) /\ i + 1 \in 1..Len(up)
    BY <1>2, <1>3 DEF Carries
  <2>2. PICK j \in 1..Len(up) : j < i + 1 /\ Carries(up, j, "FORWARD_SESSION", u)
    BY <2>1 DEF Ahead, DataBehindForward
  <2>3. j - 1 \in 1..Len(up') /\ Carries(up', j - 1, "FORWARD_SESSION", u)
    BY <1>5, <2>2
  <2>4. j - 1 < i
    BY <1>2, <2>2
  <2> QED
    BY <2>3, <2>4
<1>7. ForwardUnderWay'
  <2> SUFFICES ASSUME NEW u \in Uuid, linkB, linkC, b_pump[u] # "none", c_co'[u] = "none"
               PROVE  \E j \in 1..Len(up') : Carries(up', j, "FORWARD_SESSION", u)
    BY <1>1 DEF ForwardUnderWay
  <2>1. PICK j \in 1..Len(up) : Carries(up, j, "FORWARD_SESSION", u)
    BY DEF Ahead, ForwardUnderWay
  <2> QED
    BY <1>5, <2>1
<1> QED
  BY <1>4, <1>6, <1>7 DEF Ahead

\* B writes a frame, for a session it has announced or announces with it.
LEMMA AheadAdded ==
    ASSUME TypeOK, Ahead, NEW f \in Frame, aconn_write_up(f), UNCHANGED <<linkB, linkC, c_co>>,
           f.method = "DATA" => f.unit # 0 /\ b_pump[f.uuid] # "none",
           \A u \in Uuid : b_pump'[u] # "none" /\ b_pump[u] = "none" =>
               f.method = "NEW_SESSION" /\ f.uuid = u
    PROVE  Ahead'
<1>0. up \in Seq(Frame) /\ Len(up) \in Nat
  BY DEF TypeOK, WireTypeOK
<1>1. CASE ~(linkB /\ linkC)
  <2>1. up' = up
    BY <1>1 DEF aconn_write_up
  <2> QED
    BY <1>1, <2>1 DEF Ahead, DataNumbered, DataBehindForward, ForwardUnderWay
<1>2. CASE linkB /\ linkC
  <2> DEFINE g == Translated(f)
  <2>1. /\ g \in Frame /\ g.uuid = f.uuid /\ g.unit = f.unit /\ g.uuid \in Uuid
        /\ g.method = "DATA" => f.method = "DATA"
        /\ f.method = "NEW_SESSION" => g.method = "FORWARD_SESSION"
    BY FrameTypes DEF Translated, Frame
  <2>2. up' = Append(up, g)
    BY <1>2 DEF aconn_write_up
  <2> HIDE DEF g
  <2> DEFINE n == Len(up)
  <2>3. /\ Len(up') = n + 1 /\ up'[n + 1] = g /\ n + 1 \in 1..Len(up') /\ n \in Nat
        /\ \A i \in 1..n : up'[i] = up[i] /\ i \in 1..Len(up')
        /\ \A i \in 1..Len(up') : i \in 1..n \/ i = n + 1
    BY <1>0, <2>1, <2>2
  <2> HIDE DEF n
  <2>4. /\ \A i \in 1..n : up[i].method = "DATA" => up[i].unit # 0
        /\ \A u \in Uuid : \A i \in 1..n : c_co[u] = "none" /\ Carries(up, i, "DATA", u) =>
              \E j \in 1..n : j < i /\ Carries(up, j, "FORWARD_SESSION", u)
        /\ \A u \in Uuid : b_pump[u] # "none" /\ c_co[u] = "none" =>
              \E j \in 1..n : Carries(up, j, "FORWARD_SESSION", u)
    BY <1>2 DEF Ahead, DataNumbered, DataBehindForward, ForwardUnderWay, n
  <2>5. \A u \in Uuid : \A j \in 1..n : Carries(up, j, "FORWARD_SESSION", u) =>
           Carries(up', j, "FORWARD_SESSION", u) /\ j \in 1..Len(up')
    BY <2>3 DEF Carries
  <2>6. DataNumbered'
    BY <2>1, <2>3, <2>4 DEF DataNumbered
  <2>7. DataBehindForward'
    <3> SUFFICES ASSUME NEW u \in Uuid, NEW i \in 1..Len(up'), c_co[u] = "none",
                        Carries(up', i, "DATA", u)
                 PROVE  \E j \in 1..Len(up') : j < i /\ Carries(up', j, "FORWARD_SESSION", u)
      BY DEF DataBehindForward
    <3>1. CASE i \in 1..n
      <4>1. Carries(up, i, "DATA", u)
        BY <2>3, <3>1 DEF Carries
      <4>2. PICK j \in 1..n : j < i /\ Carries(up, j, "FORWARD_SESSION", u)
        BY <2>4, <3>1, <4>1
      <4> QED
        BY <2>5, <4>2
    <3>2. CASE i = n + 1
      <4>1. b_pump[u] # "none"
        BY <2>1, <2>3, <3>2 DEF Carries
      <4>2. PICK j \in 1..n : Carries(up, j, "FORWARD_SESSION", u)
        BY <2>4, <4>1
      <4>3. j < i
        BY <2>3, <3>2, <4>2
      <4> QED
        BY <2>5, <4>2, <4>3
    <3> QED
      BY <2>3, <3>1, <3>2
  <2>8. ForwardUnderWay'
    <3> SUFFICES ASSUME NEW u \in Uuid, b_pump'[u] # "none", c_co[u] = "none"
                 PROVE  \E j \in 1..Len(up') : Carries(up', j, "FORWARD_SESSION", u)
      BY DEF ForwardUnderWay
    <3>1. CASE b_pump[u] # "none"
      BY <2>4, <2>5, <3>1
    <3>2. CASE b_pump[u] = "none"
      <4>1. Carries(up', n + 1, "FORWARD_SESSION", u)
        BY <2>1, <2>3, <3>2 DEF Carries
      <4> QED
        BY <2>3, <4>1
    <3> QED
      BY <3>1, <3>2
  <2> QED
    BY <2>6, <2>7, <2>8 DEF Ahead
<1> QED
  BY <1>1, <1>2

LEMMA PrefixOfItself ==
    ASSUME NEW s \in Seq(Frame)
    PROVE  s \in Prefixes(s)
<1>1. Len(s) \in 0..Len(s) /\ SubSeq(s, 1, Len(s)) = s
  BY SubSeqFull
<1> QED
  BY <1>1 DEF Prefixes

LEMMA AheadStep ==
    ASSUME TypeOK, WireInv, Ahead, [Next]_vars
    PROVE  Ahead'
<1>1. /\ up \in Seq(Frame) /\ up \in Prefixes(up) /\ b_pump \in [Uuid -> PumpState]
      /\ c_co \in [Uuid -> CoState] /\ b_read \in [Uuid -> Nat]
  BY PrefixOfItself DEF TypeOK, WireTypeOK, VisitorTypeOK, ProviderTypeOK
<1>2. ASSUME UNCHANGED <<up, linkB, linkC, c_co>>,
             \A u \in Uuid : b_pump'[u] # "none" => b_pump[u] # "none"
      PROVE  Ahead'
  BY <1>1, <1>2, AheadPrefix
<1>3. ASSUME VisitorNext, UNCHANGED providerVars PROVE Ahead'
  <2>0. UNCHANGED c_co
    BY <1>3 DEF providerVars
  <2>1. ASSUME NEW v \in Uuid, Accept(v) PROVE Ahead'
    <3> DEFINE f == ControlFrame("NEW_SESSION", v)
    <3>1. f \in Frame /\ f.method = "NEW_SESSION" /\ f.uuid = v
      BY FrameTypes DEF ControlFrame, Method
    <3>2. /\ aconn_write_up(f) /\ UNCHANGED <<linkB, linkC>>
          /\ b_pump' = [b_pump EXCEPT ![v] = "announcing"]
      BY <2>1 DEF Accept
    <3> HIDE DEF f
    <3>3. \A u \in Uuid : b_pump'[u] # "none" /\ b_pump[u] = "none" => u = v
      BY <1>1, <3>2
    <3> QED
      BY <2>0, <3>1, <3>2, <3>3, AheadAdded
  <2>2. ASSUME NEW v \in Uuid, PumpRead(v) PROVE Ahead'
    <3> DEFINE f == DataFrame(v, b_read[v] + 1)
    <3>1. f \in Frame /\ f.method = "DATA" /\ f.uuid = v /\ f.unit # 0
      BY <1>1, FrameTypes DEF DataFrame
    <3>2. /\ aconn_write_up(f) /\ UNCHANGED <<linkB, linkC>> /\ b_pump[v] = "read"
          /\ b_pump' = [b_pump EXCEPT ![v] = "sendData"]
      BY <2>2 DEF PumpRead
    <3> HIDE DEF f
    <3>3. \A u \in Uuid : b_pump'[u] # "none" => b_pump[u] # "none"
      BY <1>1, <3>2
    <3> QED
      BY <2>0, <3>1, <3>2, <3>3, AheadAdded
  <2>3. ASSUME NEW v \in Uuid, PumpEof(v) PROVE Ahead'
    <3> DEFINE f == ControlFrame("DATA_EOF", v)
    <3>1. f \in Frame /\ f.method = "DATA_EOF"
      BY FrameTypes DEF ControlFrame, Method
    <3>2. /\ aconn_write_up(f) /\ UNCHANGED <<linkB, linkC>> /\ b_pump[v] # "none"
          /\ b_pump' = [b_pump EXCEPT ![v] = "sendEof"]
      BY <2>3 DEF PumpEof
    <3> HIDE DEF f
    <3>3. \A u \in Uuid : b_pump'[u] # "none" => b_pump[u] # "none"
      BY <1>1, <3>2
    <3> QED
      BY <2>0, <3>1, <3>2, <3>3, AheadAdded
  <2>4. CASE ReaderWriteFail
    <3> DEFINE f == ControlFrame("SESSION_CLOSE", b_cur)
    <3>1. f \in Frame /\ f.method = "SESSION_CLOSE"
      BY <2>4, FrameTypes DEF ReaderWriteFail, ControlFrame, Method, TypeOK, VisitorTypeOK
    <3>2. aconn_write_up(f) /\ UNCHANGED <<linkB, linkC, b_pump>>
      BY <2>4 DEF ReaderWriteFail
    <3> HIDE DEF f
    <3> QED
      BY <2>0, <3>1, <3>2, AheadAdded
  <2>5. CASE ReaderStaleIterator
    BY <2>0, <2>5, AheadPrefix DEF ReaderStaleIterator, BreakLink
  <2>6. CASE ReaderIgnore \/ ReaderReject \/ ReaderData \/ ReaderDataEof
    BY <1>2, <2>0, <2>6 DEF ReaderIgnore, ReaderReject, ReaderData, ReaderDataEof, ReaderGets, visitorVars
  <2>7. CASE AcceptFail \/ ReaderWrote \/ ReaderCloseSent \/ ReaderStop
    BY <1>2, <2>0, <2>7 DEF AcceptFail, ReaderWrote, ReaderCloseSent, ReaderStop, wireVars
  <2>8. ASSUME NEW v \in Uuid, PumpLoop(v) \/ PumpEofSent(v) PROVE Ahead'
    <3>1. UNCHANGED <<up, linkB, linkC>> /\ \A u \in Uuid : b_pump'[u] # "none" => b_pump[u] # "none"
      BY <1>1, <2>8 DEF PumpLoop, PumpEofSent, wireVars
    <3> QED
      BY <1>2, <2>0, <3>1
  <2> QED
    BY <1>3, <2>1, <2>2, <2>3, <2>4, <2>5, <2>6, <2>7, <2>8
       DEF VisitorNext, AcceptNext, ReaderNext, PumpNext
<1>4. ASSUME MainNext, UNCHANGED visitorVars PROVE Ahead'
  <2>0. UNCHANGED b_pump
    BY <1>4 DEF visitorVars
  <2>1. CASE MainForwardSession
    <3>1. /\ MainGets({"FORWARD_SESSION"})
          /\ c_co' = [c_co EXCEPT ![Head(up).uuid] = "connecting"]
      BY <2>1 DEF MainForwardSession
    <3>2. Head(up) = up[1] /\ Head(up).uuid \in Uuid
      BY <1>1, <3>1, HeadFrame DEF MainGets
    <3>3. \A u \in Uuid : c_co'[u] = "none" =>
             c_co[u] = "none" /\ ~Carries(up, 1, "FORWARD_SESSION", u)
      BY <1>1, <3>1, <3>2 DEF Carries
    <3> QED
      BY <2>0, <3>1, <3>3, AheadTail
  <2>2. ASSUME NEW methods, MainGets(methods), "FORWARD_SESSION" \notin methods, UNCHANGED c_co
        PROVE  Ahead'
    <3>1. \A u \in Uuid : ~Carries(up, 1, "FORWARD_SESSION", u)
      BY <1>1, <2>2, HeadFrame DEF MainGets, Carries
    <3> QED
      BY <2>0, <2>2, <3>1, AheadTail
  <2>3. CASE MainIgnore
    BY <2>2, <2>3 DEF MainIgnore, providerVars
  <2>4. CASE MainBuffer \/ MainData
    BY <2>2, <2>4 DEF MainBuffer, MainData
  <2>5. CASE MainDataEof
    BY <2>2, <2>5 DEF MainDataEof
  <2>6. CASE MainSessionClose
    BY <2>2, <2>6 DEF MainSessionClose
  <2>7. CASE MainWrote \/ MainWriteFail \/ MainStop
    BY <1>2, <2>0, <2>7 DEF MainWrote, MainWriteFail, MainStop, wireVars
  <2> QED
    BY <1>4, <2>1, <2>3, <2>4, <2>5, <2>6, <2>7 DEF MainNext
<1>5. ASSUME NEW v \in Uuid, CoNext(v), UNCHANGED visitorVars PROVE Ahead'
  <2>1. /\ UNCHANGED <<up, linkB, linkC, b_pump>>
        /\ \A u \in Uuid : c_co'[u] = "none" => c_co[u] = "none"
    BY <1>5, CoTouches DEF visitorVars
  <2> QED
    BY <2>1 DEF Ahead, DataNumbered, DataBehindForward, ForwardUnderWay
<1>6. ASSUME LinkDown, UNCHANGED <<visitorVars, providerVars>> PROVE Ahead'
  BY <1>6, AheadPrefix DEF LinkDown, BreakLink, visitorVars, providerVars
<1>7. CASE ProviderExit /\ UNCHANGED visitorVars
  BY <1>6, <1>7, ExitIsLinkDown
<1>8. CASE UNCHANGED vars
  BY <1>2, <1>8 DEF vars, wireVars, visitorVars, providerVars
<1> QED
  BY <1>3, <1>4, <1>5, <1>6, <1>7, <1>8 DEF Next, ProviderNext

LEMMA NoEarlyWriteStep ==
    ASSUME TypeOK, WireInv, NoEarlyWrite, [Next]_vars
    PROVE  NoEarlyWrite'
<1>1. c_co \in [Uuid -> CoState] /\ c_pending \in [Uuid -> Seq(RemoteWrite)]
  BY DEF TypeOK, ProviderTypeOK
<1>2. ASSUME UNCHANGED providerVars PROVE NoEarlyWrite'
  BY <1>2 DEF providerVars, NoEarlyWrite
<1>3. CASE MainForwardSession
  BY <1>1, <1>3 DEF MainForwardSession, NoEarlyWrite
<1>4. CASE MainData
  <2> DEFINE v == Head(up).uuid
  <2> DEFINE a == [by |-> "main", unit |-> Head(up).unit]
  <2>1. v \in c_sessions /\ UNCHANGED c_co /\ c_pending' = [c_pending EXCEPT ![v] = Append(@, a)]
    BY <1>4 DEF MainData, c_Live, c_StartWrite
  <2> HIDE DEF v, a
  <2>2. v \in Uuid => c_co[v] # "none"
    BY <2>1 DEF WireInv, MapInv, NewToC
  <2> QED
    BY <1>1, <2>1, <2>2 DEF NoEarlyWrite
<1>5. CASE MainWrote \/ MainWriteFail
  <2>1. /\ c_pending[c_cur] # <<>> /\ UNCHANGED c_co
        /\ c_pending' = [c_pending EXCEPT ![c_cur] = Tail(@)]
    BY <1>5 DEF MainWrote, MainWriteFail, c_Oldest
  <2> QED
    BY <1>1, <2>1 DEF NoEarlyWrite
<1>6. CASE MainIgnore \/ MainBuffer \/ MainDataEof \/ MainSessionClose \/ MainStop
  BY <1>6 DEF MainIgnore, MainBuffer, MainDataEof, MainSessionClose, MainStop, providerVars, NoEarlyWrite
<1>7. ASSUME NEW v \in Uuid, CoNext(v) PROVE NoEarlyWrite'
  BY <1>7, CoTouches DEF NoEarlyWrite
<1>8. CASE ProviderExit
  BY <1>2, <1>8, ExitIsLinkDown
<1>9. CASE UNCHANGED vars
  BY <1>2, <1>9 DEF vars
<1> QED
  BY <1>2, <1>3, <1>4, <1>5, <1>6, <1>7, <1>8, <1>9 DEF Next, ProviderNext, MainNext

\* While both connections are up and C holds a session or has not yet heard of
\* it, each unit the pump of B read is in exactly one place: on the wire, in the
\* arrival buffer, in a write under way or delivered.  Neither the coroutine
\* that drains the buffer while the main loop writes to the same remote, nor a
\* session that is opened, ended or closed beside it, loses or doubles a unit.
THEOREM UpstreamKept == Spec => []UpstreamConserved
<1>1. Init => Heralded /\ AllKept
  <2> SUFFICES ASSUME Init PROVE Heralded /\ AllKept
    OBVIOUS
  <2>1. up = <<>> /\ 1..Len(up) = {} /\ DOMAIN up = {}
    BY DEF Init, WireInit
  <2>2. Heralded
    BY <2>1 DEF Init, VisitorInit, ProviderInit, Heralded, Ahead, DataNumbered, DataBehindForward,
       ForwardUnderWay, NoEarlyWrite
  <2>3. ASSUME NEW u \in Uuid PROVE Units(u)
    <3> DEFINE p == At(u, up, c_arrival_buffer[u], c_pending[u], c_written[u])
    <3>1. c_arrival_buffer[u] = <<>> /\ c_pending[u] = <<>> /\ c_written[u] = <<>> /\ b_read[u] = 0
      BY DEF Init, VisitorInit, ProviderInit
    <3>2. DOMAIN WireUnits(up, u) = {} /\ DOMAIN WriteUnits(c_pending[u]) = {}
      BY <2>1, <3>1 DEF WireUnits, WriteUnits
    <3>3. DOMAIN p = Place /\ \A r \in Place : DOMAIN p[r] = {}
      BY <3>1, <3>2, AtFields DEF Place
    <3> HIDE DEF p
    <3>4. EachOnce(p, 0)
      BY <3>3 DEF EachOnce
    <3> QED
      BY <3>1, <3>4 DEF p, Units
  <2> QED
    BY <2>2, <2>3 DEF AllKept
<1>2. TypeOK /\ WireInv /\ Heralded /\ AllKept /\ [Next]_vars => Heralded' /\ AllKept'
  BY AheadStep, NoEarlyWriteStep, AllKeptStep DEF Heralded
<1>3. AllKept => UpstreamConserved
  BY PlacesAreAt
<1> QED
  BY <1>1, <1>2, <1>3, WireInvAlways, PTL DEF Spec
=============================================================================
