--------------------------- MODULE UsageLogProofs ---------------------------
(***************************************************************************)
(* The usage log keeps what it has acknowledged and tells its followers,   *)
(* for any requests, sizes, limits, subscribers and number of starts.      *)
(*                                                                         *)
(* Retention is arithmetic over logs: what the newest records take up is a *)
(* recursive function, and so is the log without the records that are too  *)
(* old.  What they compute is proved by induction over the places of a     *)
(* log, once and for all, in PrunedForm.  From there on a log is only ever *)
(* a part of what arrived (InOrder), and a part takes up no more than the  *)
(* whole: what leaves no room in the part leaves none in the whole         *)
(* (CrowdsStays).  The invariant speaks of nothing but such parts.         *)
(***************************************************************************)
EXTENDS UsageLog, SequenceTheorems, WellFoundedInduction, TLAPS

----------------------------------------------------------------------------
(* Numbers, and running totals. *)

\* A set of numbers that is not empty has a least one.
LEMMA LeastExists ==
    ASSUME NEW T, T \subseteq Nat, T # {}
    PROVE  \E x \in T : \A y \in T : x <= y
  <1>1. \E R : IsWellFoundedOn(R, Nat) /\ \A x, y \in Nat : y < x => <<y, x>> \in R
    <2> DEFINE Less == OpToRel(<, Nat)
    <2>1. IsWellFoundedOn(Less, Nat)
      BY NatLessThanWellFounded
    <2>2. \A x, y \in Nat : y < x => <<y, x>> \in Less
      BY DEF OpToRel
    <2> HIDE DEF Less
    <2>3. QED
      BY <2>1, <2>2, Zenon
  <1>2. PICK R : IsWellFoundedOn(R, Nat) /\ \A x, y \in Nat : y < x => <<y, x>> \in R
    BY <1>1
  <1>3. PICK x \in T : \A y \in T : ~(<<y, x>> \in R)
    BY <1>2, WFMin
  <1>4. ASSUME NEW y \in T PROVE x <= y
    <2>1. x \in Nat /\ y \in Nat
      OBVIOUS
    <2>2. ~(y < x)
      BY <1>2, <1>3, <2>1, Zenon
    <2>3. QED
      BY <2>1, <2>2
  <1>5. QED
    BY <1>4

\* Induction over the numbers, for a set that is closed under successor: an
\* element outside it would have a least one.
LEMMA Induction ==
    ASSUME NEW S, 0 \in S, \A n \in Nat : n \in S => n + 1 \in S
    PROVE  Nat \subseteq S
  <1>1. SUFFICES ASSUME Nat \ S # {} PROVE FALSE
    OBVIOUS
  <1>2. PICK x \in Nat \ S : \A y \in Nat \ S : x <= y
    BY <1>1, LeastExists
  <1>3. x # 0 /\ x - 1 \in Nat /\ ~(x <= x - 1) /\ x = x - 1 + 1
    BY <1>2
  <1>4. x - 1 \in S
    BY <1>2, <1>3
  <1>5. QED
    BY <1>2, <1>3, <1>4

\* t[n] is the total of the last n of m weights w.
IsTotal(t, w, m) ==
    /\ m \in Nat /\ w \in [1..m -> Nat] /\ t \in [0..m -> Nat]
    /\ t[0] = 0
    /\ \A n \in 1..m : t[n] = t[n - 1] + w[m - n + 1]

\* ... as the recursive function of a model defines it.
IsRecursive(t, w, m) == t = [n \in 0..m |-> IF n = 0 THEN 0 ELSE t[n - 1] + w[m - n + 1]]

\* The recursive function exists, so the CHOOSE behind it has a value.
LEMMA TotalExists ==
    ASSUME NEW m \in Nat, NEW w \in [1..m -> Nat]
    PROVE  \E t : IsRecursive(t, w, m)
  <1> DEFINE Is(f, k) == /\ f \in [0..k -> Nat]
                         /\ \A n \in 0..k : f[n] = IF n = 0 THEN 0 ELSE f[n - 1] + w[m - n + 1]
             Has == {k \in Nat : k <= m => \E f : Is(f, k)}
  <1>1. Is([n \in 0..0 |-> 0], 0)
    OBVIOUS
  <1>2. ASSUME NEW k \in Nat, k + 1 <= m, NEW g, Is(g, k) PROVE \E f : Is(f, k + 1)
    <2> DEFINE x == w[m - (k + 1) + 1]
               f == [n \in 0..(k + 1) |-> IF n = k + 1 THEN g[k] + x ELSE g[n]]
    <2>1. x \in Nat /\ g[k] \in Nat
      <3>1. m - (k + 1) + 1 \in 1..m
        BY <1>2
      <3>2. QED
        BY <1>2, <3>1
    <2> HIDE DEF x
    <2>2. f \in [0..(k + 1) -> Nat]
      BY <1>2, <2>1
    <2>3. ASSUME NEW n \in 0..(k + 1)
          PROVE  f[n] = IF n = 0 THEN 0 ELSE f[n - 1] + w[m - n + 1]
      <3>1. CASE n = k + 1
        BY <3>1, <1>2 DEF x
      <3>2. CASE n # k + 1
        BY <3>2, <1>2
      <3>3. QED
        BY <3>1, <3>2
    <2>4. Is(f, k + 1)
      BY <2>2, <2>3
    <2>5. QED
      BY <2>4
  <1> HIDE DEF Is
  <1>3. 0 \in Has
    BY <1>1
  <1>4. ASSUME NEW k \in Nat, k \in Has PROVE k + 1 \in Has
    BY <1>2, <1>4
  <1> HIDE DEF Has
  <1>5. m \in Has
    BY <1>3, <1>4, Induction
  <1>6. PICK f : Is(f, m)
    BY <1>5 DEF Has
  <1>7. IsRecursive(f, w, m)
    BY <1>6 DEF Is, IsRecursive
  <1>8. QED
    BY <1>7

\* ... and it is the running total, in numbers.
LEMMA TotalForm ==
    ASSUME NEW m \in Nat, NEW w \in [1..m -> Nat],
           NEW t, IsRecursive(t, w, m)
    PROVE  IsTotal(t, w, m)
  <1>1. DOMAIN t = 0..m /\ t[0] = 0 /\ t = [n \in 0..m |-> t[n]]
    BY DEF IsRecursive
  <1>2. \A n \in 1..m : t[n] = t[n - 1] + w[m - n + 1]
    BY DEF IsRecursive
  <1>3. \A n \in 0..m : t[n] \in Nat
    <2> DEFINE Good == {n \in Nat : n <= m => t[n] \in Nat}
    <2>1. 0 \in Good
      BY <1>1
    <2>2. ASSUME NEW n \in Nat, n \in Good PROVE n + 1 \in Good
      <3>1. SUFFICES ASSUME n + 1 <= m PROVE t[n + 1] \in Nat
        OBVIOUS
      <3>2. t[n] \in Nat
        BY <2>2, <3>1
      <3>3. t[n + 1] = t[n] + w[m - (n + 1) + 1]
        BY <1>2, <3>1
      <3>4. w[m - (n + 1) + 1] \in Nat
        BY <3>1
      <3>5. QED
        BY <3>2, <3>3, <3>4
    <2> HIDE DEF Good
    <2>3. Nat \subseteq Good
      BY <2>1, <2>2, Induction
    <2>4. QED
      BY <2>3 DEF Good
  <1>4. t \in [0..m -> Nat]
    BY <1>1, <1>3
  <1>5. QED
    BY <1>1, <1>2, <1>4 DEF IsTotal

\* More records take up more.
LEMMA TotalGrows ==
    ASSUME NEW t, NEW w, NEW m, IsTotal(t, w, m), NEW j \in 0..m, NEW i \in 0..j
    PROVE  t[i] <= t[j]
  <1> DEFINE Good == {n \in Nat : n <= m => \A k \in 0..n : t[k] <= t[n]}
  <1>1. /\ m \in Nat /\ w \in [1..m -> Nat] /\ t \in [0..m -> Nat]
        /\ \A n \in 1..m : t[n] = t[n - 1] + w[m - n + 1]
    BY DEF IsTotal
  <1>2. ASSUME NEW n \in 1..m PROVE t[n - 1] <= t[n]
    <2>1. w[m - n + 1] \in Nat /\ t[n - 1] \in Nat /\ t[n] = t[n - 1] + w[m - n + 1]
      BY <1>1
    <2>2. QED
      BY <2>1
  <1>3. 0 \in Good
    BY <1>1
  <1>4. ASSUME NEW n \in Nat, n \in Good PROVE n + 1 \in Good
    <2>1. SUFFICES ASSUME n + 1 <= m, NEW k \in 0..(n + 1) PROVE t[k] <= t[n + 1]
      OBVIOUS
    <2>2. t[n] <= t[n + 1]
      BY <1>1, <1>2, <2>1
    <2>3. k = n + 1 \/ t[k] <= t[n]
      BY <1>1, <1>4, <2>1
    <2>4. t[k] \in Nat /\ t[n] \in Nat /\ t[n + 1] \in Nat
      BY <1>1, <2>1
    <2>5. QED
      BY <2>2, <2>3, <2>4
  <1> HIDE DEF Good
  <1>5. Nat \subseteq Good
    BY <1>3, <1>4, Induction
  <1>6. QED
    BY <1>1, <1>5 DEF Good

\* Places counted from the front and from the end.
LEMMA Mirror ==
    ASSUME NEW m \in Nat, NEW x \in 1..m
    PROVE  /\ m - x + 1 \in 1..m /\ m - x + 1 - 1 = m - x /\ m - (m - x + 1) + 1 = x
           /\ m - x \in 0..m
           /\ \A y \in 1..m : x < y => m - y + 1 \in 0..(m - x)
  OBVIOUS

\* If the records of one log are found in another in the same order, at the
\* places "at", then all from the i-th on take up no more than all from its place
\* on in the other log.
LEMMA TotalOfPart ==
    ASSUME NEW ta, NEW wa, NEW la, IsTotal(ta, wa, la),
           NEW tb, NEW wb, NEW lb, IsTotal(tb, wb, lb),
           NEW at \in [1..la -> 1..lb],
           \A i, j \in 1..la : i < j => at[i] < at[j],
           \A i \in 1..la : wa[i] <= wb[at[i]],
           NEW i \in 1..la
    PROVE  ta[la - i + 1] <= tb[lb - at[i] + 1]
  <1> DEFINE Good == {n \in Nat : n < la => ta[n + 1] <= tb[lb - at[la - n] + 1]}
  <1>1. /\ la \in Nat /\ wa \in [1..la -> Nat] /\ ta \in [0..la -> Nat] /\ ta[0] = 0
        /\ \A n \in 1..la : ta[n] = ta[n - 1] + wa[la - n + 1]
    BY DEF IsTotal
  <1>2. /\ lb \in Nat /\ wb \in [1..lb -> Nat] /\ tb \in [0..lb -> Nat]
        /\ \A n \in 1..lb : tb[n] = tb[n - 1] + wb[lb - n + 1]
    BY DEF IsTotal
  <1>3. \A n \in 0..lb : \A k \in 0..n : tb[k] <= tb[n]
    BY TotalGrows
  <1>4. ASSUME NEW n \in 1..la
        PROVE  /\ at[n] \in 1..lb /\ wa[n] \in Nat /\ wb[at[n]] \in Nat /\ wa[n] <= wb[at[n]]
               /\ tb[lb - at[n]] \in Nat
               /\ tb[lb - at[n] + 1] = tb[lb - at[n]] + wb[at[n]]
    <2>1. at[n] \in 1..lb
      BY <1>1
    <2>2. /\ lb - at[n] + 1 \in 1..lb /\ lb - at[n] + 1 - 1 = lb - at[n]
          /\ lb - (lb - at[n] + 1) + 1 = at[n] /\ lb - at[n] \in 0..lb
      BY <1>2, <2>1, Mirror, Zenon
    <2>3. tb[lb - at[n] + 1] = tb[lb - at[n]] + wb[at[n]]
      <3> DEFINE x == lb - at[n] + 1
      <3>1. x \in 1..lb /\ x - 1 = lb - at[n] /\ lb - x + 1 = at[n]
        BY <2>2
      <3> HIDE DEF x
      <3>2. tb[x] = tb[x - 1] + wb[lb - x + 1]
        BY <1>2, <3>1
      <3>3. QED
        BY <3>1, <3>2 DEF x
    <2>4. wa[n] \in Nat /\ wb[at[n]] \in Nat /\ tb[lb - at[n]] \in Nat
      BY <1>1, <1>2, <2>1, <2>2
    <2>5. QED
      BY <2>1, <2>2, <2>3, <2>4
  <1>5. 0 \in Good
    <2>1. SUFFICES ASSUME 0 < la PROVE ta[0 + 1] <= tb[lb - at[la - 0] + 1]
      OBVIOUS
    <2>2. la \in 1..la /\ la - 0 = la /\ 0 + 1 = 1 /\ 1 \in 1..la /\ la - 1 + 1 = la /\ 1 - 1 = 0
      BY <1>1, <2>1
    <2>3. ta[1] = ta[1 - 1] + wa[la - 1 + 1]
      BY <1>1, <2>2
    <2>4. ta[1] = 0 + wa[la]
      BY <1>1, <2>2, <2>3
    <2>5. ta[1] <= tb[lb - at[la] + 1]
      <3>1. /\ wa[la] \in Nat /\ wb[at[la]] \in Nat /\ wa[la] <= wb[at[la]]
            /\ tb[lb - at[la]] \in Nat
            /\ tb[lb - at[la] + 1] = tb[lb - at[la]] + wb[at[la]]
        BY <1>4, <2>2
      <3>2. QED
        BY <2>4, <3>1
    <2>6. QED
      BY <2>2, <2>5
  <1>6. ASSUME NEW n \in Nat, n \in Good PROVE n + 1 \in Good
    <2>1. SUFFICES ASSUME n + 1 < la
                   PROVE  ta[n + 1 + 1] <= tb[lb - at[la - (n + 1)] + 1]
      OBVIOUS
    <2> DEFINE k == la - (n + 1)
    <2>2. k \in 1..la /\ la - n \in 1..la /\ k < la - n
      BY <1>1, <2>1
    <2>3. ta[n + 1] <= tb[lb - at[la - n] + 1]
      BY <1>1, <1>6, <2>1
    <2>4. ta[n + 1 + 1] = ta[n + 1] + wa[k]
      <3>1. n + 1 + 1 \in 1..la /\ n + 1 + 1 - 1 = n + 1 /\ la - (n + 1 + 1) + 1 = k
        BY <1>1, <2>1
      <3>2. ta[n + 1 + 1] = ta[n + 1 + 1 - 1] + wa[la - (n + 1 + 1) + 1]
        BY <1>1, <3>1
      <3> HIDE DEF k
      <3>3. QED
        BY <3>1, <3>2
    <2> HIDE DEF k
    <2>5. /\ wa[k] \in Nat /\ wb[at[k]] \in Nat /\ wa[k] <= wb[at[k]]
          /\ tb[lb - at[k]] \in Nat
          /\ tb[lb - at[k] + 1] = tb[lb - at[k]] + wb[at[k]]
      BY <1>4, <2>2
    <2>6. /\ tb[lb - at[la - n] + 1] <= tb[lb - at[k]]
          /\ tb[lb - at[la - n] + 1] \in Nat
      <3>1. at[k] < at[la - n] /\ at[k] \in 1..lb /\ at[la - n] \in 1..lb
        BY <2>2
      <3>2. /\ lb - at[k] \in 0..lb /\ lb - at[la - n] + 1 \in 0..(lb - at[k])
            /\ lb - at[la - n] + 1 \in 1..lb
        BY <1>2, <3>1, Mirror, Zenon
      <3> DEFINE x == lb - at[la - n] + 1
                 y == lb - at[k]
      <3>3. y \in 0..lb /\ x \in 0..y /\ x \in 1..lb
        BY <3>2
      <3> HIDE DEF x, y
      <3>4. tb[x] <= tb[y] /\ tb[x] \in Nat
        BY <1>2, <1>3, <3>3
      <3>5. QED
        BY <3>4 DEF x, y
    <2>7. ta[n + 1] \in Nat
      <3>1. n + 1 \in 0..la
        BY <1>1, <2>1
      <3>2. QED
        BY <1>1, <3>1
    <2>8. ta[n + 1 + 1] <= tb[lb - at[k] + 1]
      <3> DEFINE x == ta[n + 1]
                 y == tb[lb - at[la - n] + 1]
                 z == tb[lb - at[k]]
                 u == wa[k]
                 v == wb[at[k]]
      <3>1. {x, y, z, u, v} \subseteq Nat /\ x <= y /\ y <= z /\ u <= v
        BY <2>3, <2>5, <2>6, <2>7
      <3>2. ta[n + 1 + 1] = x + u /\ tb[lb - at[k] + 1] = z + v
        BY <2>4, <2>5
      <3> HIDE DEF x, y, z, u, v
      <3>3. x + u <= z + v
        BY <3>1
      <3>4. QED
        BY <3>2, <3>3
    <2>9. QED
      BY <2>8 DEF k
  <1> HIDE DEF Good
  <1>7. Nat \subseteq Good
    BY <1>5, <1>6, Induction
  <1>8. la - i \in Nat /\ la - i < la /\ la - (la - i) = i
    BY <1>1
  <1>9. QED
    BY <1>7, <1>8 DEF Good

\* SizeOfNewest is the running total of a log's records (the total that
\* pruneLocked counts down).
LEMMA SizeOfNewestForm ==
    ASSUME NEW weight \in [Request -> Nat], NEW log \in Seq(Request)
    PROVE  IsTotal(SizeOfNewest(weight, log), [i \in 1..Len(log) |-> weight[log[i]]], Len(log))
  <1> DEFINE m == Len(log)
             w == [i \in 1..m |-> weight[log[i]]]
  <1>1. m \in Nat /\ w \in [1..m -> Nat]
    OBVIOUS
  <1> DEFINE Sum(t) == t = [n \in 0..m |-> IF n = 0 THEN 0 ELSE t[n - 1] + weight[log[m - n + 1]]]
  <1>2. \A t : IsRecursive(t, w, m) <=> Sum(t)
    <2>1. SUFFICES ASSUME NEW t
          PROVE  [n \in 0..m |-> IF n = 0 THEN 0 ELSE t[n - 1] + w[m - n + 1]]
                   = [n \in 0..m |-> IF n = 0 THEN 0 ELSE t[n - 1] + weight[log[m - n + 1]]]
      BY DEF IsRecursive
    <2>2. \A n \in 0..m : n # 0 => w[m - n + 1] = weight[log[m - n + 1]]
      BY <1>1
    <2> HIDE DEF w, m
    <2>3. QED
      BY <2>2
  <1>3. SizeOfNewest(weight, log) = CHOOSE t : Sum(t)
    BY DEF SizeOfNewest
  <1> HIDE DEF Sum
  <1>4. IsRecursive(SizeOfNewest(weight, log), w, m)
    BY <1>1, <1>2, <1>3, TotalExists
  <1> HIDE DEF w, m
  <1>5. IsTotal(SizeOfNewest(weight, log), w, m)
    BY <1>1, <1>4, TotalForm
  <1>6. QED
    BY <1>5 DEF w, m

\* The records of one log are those of another at the places "at", in their order.
IsPart(at, part, log) ==
    /\ at \in [1..Len(part) -> 1..Len(log)]
    /\ \A i \in 1..Len(part) : part[i] = log[at[i]]
    /\ \A i, j \in 1..Len(part) : i < j => at[i] < at[j]

\* What the newest n records take up is a number.
LEMMA NewestIsNat ==
    ASSUME NEW weight \in [Request -> Nat], NEW log \in Seq(Request), NEW n \in 0..Len(log)
    PROVE  SizeOfNewest(weight, log)[n] \in Nat
  BY SizeOfNewestForm DEF IsTotal

\* TotalOfPart for logs of requests: what crowds a record out of a part of a log
\* crowds it out of the log.
LEMMA PartIsSmaller ==
    ASSUME NEW wa \in [Request -> Nat], NEW wb \in [Request -> Nat],
           NEW a \in Seq(Request), NEW b \in Seq(Request),
           NEW at, IsPart(at, a, b),
           \A i \in 1..Len(a) : wa[a[i]] <= wb[a[i]],
           NEW i \in 1..Len(a)
    PROVE  SizeOfNewest(wa, a)[Len(a) - i + 1] <= SizeOfNewest(wb, b)[Len(b) - at[i] + 1]
  <1> DEFINE u == [k \in 1..Len(a) |-> wa[a[k]]]
             v == [k \in 1..Len(b) |-> wb[b[k]]]
  <1>1. IsTotal(SizeOfNewest(wa, a), u, Len(a)) /\ IsTotal(SizeOfNewest(wb, b), v, Len(b))
    BY SizeOfNewestForm
  <1>2. /\ at \in [1..Len(a) -> 1..Len(b)]
        /\ \A k, n \in 1..Len(a) : k < n => at[k] < at[n]
    BY DEF IsPart
  <1>3. \A k \in 1..Len(a) : u[k] <= v[at[k]]
    BY <1>2 DEF IsPart
  <1> HIDE DEF u, v
  <1>4. QED
    BY <1>1, <1>2, <1>3, TotalOfPart

\* Of the first n records of a log, those that are not gone, and their places.
KeptBelow(at, kept, gone, log, n) ==
    /\ kept \in Seq(Request)
    /\ at \in [1..Len(kept) -> 1..n]
    /\ \A j \in 1..Len(kept) : kept[j] = log[at[j]]
    /\ \A j, k \in 1..Len(kept) : j < k => at[j] < at[k]
    /\ \A i \in 1..n : log[i] \in gone \/ \E j \in 1..Len(kept) : at[j] = i

\* Looking at one record more keeps KeptBelow (the loop of pruneLocked over ages).
LEMMA KeptGrows ==
    ASSUME NEW gone, NEW log \in Seq(Request), NEW n \in Nat, n + 1 <= Len(log),
           NEW at, NEW kept, KeptBelow(at, kept, gone, log, n)
    PROVE  \E at2 : KeptBelow(at2, IF log[n + 1] \in gone THEN kept ELSE Append(kept, log[n + 1]),
                             gone, log, n + 1)
  <1> DEFINE x == log[n + 1]
             l == Len(kept)
  <1>1. x \in Request /\ l \in Nat
    BY DEF KeptBelow
  <1>2. /\ kept \in Seq(Request)
        /\ at \in [1..l -> 1..n]
        /\ \A j \in 1..l : kept[j] = log[at[j]]
        /\ \A j, k \in 1..l : j < k => at[j] < at[k]
        /\ \A i \in 1..n : log[i] \in gone \/ \E j \in 1..l : at[j] = i
    BY DEF KeptBelow
  <1>3. CASE x \in gone
    <2>1. at \in [1..l -> 1..(n + 1)]
      BY <1>2
    <2>2. \A i \in 1..(n + 1) : log[i] \in gone \/ \E j \in 1..l : at[j] = i
      BY <1>2, <1>3
    <2>3. KeptBelow(at, kept, gone, log, n + 1)
      BY <1>2, <2>1, <2>2 DEF KeptBelow
    <2>4. QED
      BY <1>3, <2>3
  <1>4. CASE x \notin gone
    <2> DEFINE more == Append(kept, x)
               at2 == [j \in 1..(l + 1) |-> IF j = l + 1 THEN n + 1 ELSE at[j]]
    <2>1. /\ more \in Seq(Request) /\ Len(more) = l + 1 /\ more[l + 1] = x
          /\ \A j \in 1..l : more[j] = kept[j]
      BY <1>1, <1>2, AppendProperties
    <2>2. /\ at2 \in [1..(l + 1) -> 1..(n + 1)] /\ at2[l + 1] = n + 1
          /\ \A j \in 1..l : at2[j] = at[j]
      BY <1>1, <1>2
    <2> HIDE DEF more, at2, l
    <2>3. \A j \in 1..(l + 1) : more[j] = log[at2[j]]
      BY <1>1, <1>2, <2>1, <2>2
    <2>4. \A j, k \in 1..(l + 1) : j < k => at2[j] < at2[k]
      <3>1. SUFFICES ASSUME NEW j \in 1..(l + 1), NEW k \in 1..(l + 1), j < k
                     PROVE  at2[j] < at2[k]
        OBVIOUS
      <3>2. j \in 1..l /\ at2[j] = at[j] /\ at[j] \in 1..n
        BY <1>1, <1>2, <2>2, <3>1
      <3>3. CASE k = l + 1
        BY <2>2, <3>2, <3>3
      <3>4. CASE k # l + 1
        <4>1. k \in 1..l
          BY <1>1, <3>4
        <4>2. QED
          BY <1>2, <2>2, <3>1, <3>2, <4>1
      <3>5. QED
        BY <3>3, <3>4
    <2>5. \A i \in 1..(n + 1) : log[i] \in gone \/ \E j \in 1..(l + 1) : at2[j] = i
      <3>1. SUFFICES ASSUME NEW i \in 1..(n + 1), log[i] \notin gone
                     PROVE  \E j \in 1..(l + 1) : at2[j] = i
        OBVIOUS
      <3>2. CASE i = n + 1
        BY <1>1, <2>2, <3>2
      <3>3. CASE i # n + 1
        <4>1. i \in 1..n
          BY <3>3
        <4>2. PICK j \in 1..l : at[j] = i
          BY <1>2, <3>1, <4>1
        <4>3. j \in 1..(l + 1) /\ at2[j] = i
          BY <1>1, <2>2, <4>2
        <4>4. QED
          BY <4>3
      <3>4. QED
        BY <3>2, <3>3
    <2>6. KeptBelow(at2, more, gone, log, n + 1)
      BY <2>1, <2>2, <2>3, <2>4, <2>5 DEF KeptBelow
    <2>7. QED
      BY <1>4, <2>6 DEF more
  <1>5. QED
    BY <1>3, <1>4

\* Unexpired keeps the records that are not too old, in their order (pruneLocked).
LEMMA UnexpiredForm ==
    ASSUME NEW gone, NEW log \in Seq(Request)
    PROVE  \E at : KeptBelow(at, Unexpired(gone, log), gone, log, Len(log))
  <1> DEFINE m == Len(log)
             Next1(f, n) == IF log[n] \in gone THEN f[n - 1] ELSE Append(f[n - 1], log[n])
             Is(f, k) == /\ DOMAIN f = 0..k
                         /\ f[0] = <<>>
                         /\ \A n \in 1..k : f[n] = Next1(f, n)
             Has == {k \in Nat : k <= m => \E f : Is(f, k)}
             Rec(f) == f = [n \in 0..m |-> CASE n = 0 -> <<>>
                                           [] n > 0 /\ log[n] \in gone -> f[n - 1]
                                           [] OTHER -> Append(f[n - 1], log[n])]
  <1>1. m \in Nat
    OBVIOUS
  <1>2. 0 \in Has
    <2>1. Is([n \in 0..0 |-> <<>>], 0)
      OBVIOUS
    <2> HIDE DEF Is
    <2>2. QED
      BY <2>1
  <1>3. ASSUME NEW k \in Nat, k \in Has PROVE k + 1 \in Has
    <2>1. SUFFICES ASSUME k + 1 <= m, NEW f, Is(f, k) PROVE \E g : Is(g, k + 1)
      BY <1>1, <1>3
    <2> DEFINE g == [n \in 0..(k + 1) |-> IF n = k + 1 THEN Next1(f, k + 1) ELSE f[n]]
    <2>2. Is(g, k + 1)
      <3>1. g[0] = <<>>
        BY <2>1
      <3>2. ASSUME NEW n \in 1..(k + 1) PROVE g[n] = Next1(g, n)
        <4>1. g[n - 1] = f[n - 1]
          OBVIOUS
        <4>2. CASE n = k + 1
          BY <4>1, <4>2
        <4>3. CASE n # k + 1
          BY <2>1, <4>1, <4>3
        <4>4. QED
          BY <4>2, <4>3
      <3>3. QED
        BY <3>1, <3>2
    <2> HIDE DEF Is
    <2>3. QED
      BY <2>2
  <1>4. PICK f : Is(f, m)
    <2> HIDE DEF Is
    <2>1. m \in Has
      <3> HIDE DEF Has
      <3>1. QED
        BY <1>1, <1>2, <1>3, Induction
    <2>2. QED
      BY <2>1
  <1>5. Rec(f)
    BY <1>1, <1>4
  <1> DEFINE kept == CHOOSE g : Rec(g)
  <1>6. Unexpired(gone, log) = kept[m]
    BY DEF Unexpired
  <1>7. Rec(kept)
    <2> HIDE DEF Rec
    <2>1. QED
      BY <1>5
  <1> HIDE DEF kept
  <1>8. kept[0] = <<>> /\ \A n \in 1..m : kept[n] = Next1(kept, n)
    <2>1. 0 \in 0..m
      BY <1>1
    <2>2. kept[0] = <<>>
      BY <1>7, <2>1
    <2>3. ASSUME NEW n \in 1..m PROVE kept[n] = Next1(kept, n)
      <3>1. n \in 0..m /\ n # 0 /\ n > 0
        BY <1>1
      <3> HIDE DEF m
      <3>2. QED
        BY <1>7, <3>1
    <2>4. QED
      BY <2>2, <2>3
  <1> HIDE DEF Rec
  <1> DEFINE Good == {n \in Nat : n <= m => \E at : KeptBelow(at, kept[n], gone, log, n)}
  <1>9. 0 \in Good
    <2>1. KeptBelow(<<>>, <<>>, gone, log, 0)
      BY DEF KeptBelow
    <2>2. QED
      BY <1>8, <2>1
  <1>10. ASSUME NEW n \in Nat, n \in Good PROVE n + 1 \in Good
    <2>1. SUFFICES ASSUME n + 1 <= m
                   PROVE  \E at : KeptBelow(at, kept[n + 1], gone, log, n + 1)
      OBVIOUS
    <2>2. PICK at : KeptBelow(at, kept[n], gone, log, n)
      BY <1>1, <1>10, <2>1
    <2>3. kept[n + 1] = IF log[n + 1] \in gone THEN kept[n] ELSE Append(kept[n], log[n + 1])
      BY <1>1, <1>8, <2>1
    <2>4. QED
      BY <2>1, <2>2, <2>3, KeptGrows
  <1> HIDE DEF Good
  <1>11. m \in Good
    BY <1>1, <1>9, <1>10, Induction
  <1>12. QED
    BY <1>1, <1>6, <1>11 DEF Good

\* Fitting drops the fewest records it can (pruneLocked's loop over sizes).
LEMMA FittingForm ==
    ASSUME NEW weight \in [Request -> Nat], NEW log \in Seq(Request)
    PROVE  \E d \in 0..Len(log) :
              /\ Fitting(weight, log) = SubSeq(log, d + 1, Len(log))
              /\ SizeOfNewest(weight, log)[Len(log) - d] <= MaxBytes
              /\ \A n \in 0..(d - 1) : SizeOfNewest(weight, log)[Len(log) - n] > MaxBytes
  <1> DEFINE m == Len(log)
             total == SizeOfNewest(weight, log)
             Drops == {n \in 0..m : total[m - n] <= MaxBytes}
             Least(d) == d \in Drops /\ \A k \in Drops : d <= k
             d == CHOOSE n \in Drops : \A k \in Drops : n <= k
  <1>1. m \in Nat /\ MaxBytes \in Nat
    BY UsageAssumption
  <1>2. total \in [0..m -> Nat] /\ total[0] = 0
    BY SizeOfNewestForm DEF IsTotal
  <1>3. Fitting(weight, log) = SubSeq(log, d + 1, m)
    BY DEF Fitting
  <1> HIDE DEF m, total
  <1>4. m \in Drops
    <2>1. m \in 0..m /\ m - m = 0 /\ 0 <= MaxBytes
      BY <1>1
    <2>2. QED
      BY <1>2, <2>1
  <1>5. \E n \in Drops : \A k \in Drops : n <= k
    <2>1. Drops \subseteq Nat
      BY <1>1
    <2> HIDE DEF Drops
    <2>2. QED
      BY <1>4, <2>1, LeastExists
  <1>6. d \in Drops /\ \A k \in Drops : d <= k
    <2> HIDE DEF Drops
    <2>1. QED
      BY <1>5
  <1> HIDE DEF d
  <1>7. d \in 0..m /\ total[m - d] <= MaxBytes
    BY <1>6
  <1>8. ASSUME NEW n \in 0..(d - 1) PROVE total[m - n] > MaxBytes
    <2>1. n \in 0..m /\ ~(d <= n) /\ m - n \in 0..m
      BY <1>1, <1>7
    <2>2. ~(total[m - n] <= MaxBytes)
      BY <1>6, <2>1
    <2>3. total[m - n] \in Nat
      BY <1>2, <2>1
    <2>4. QED
      BY <1>1, <2>2, <2>3
  <1>9. QED
    BY <1>3, <1>7, <1>8 DEF m, total

\* A part of a part.
LEMMA PartOfPart ==
    ASSUME NEW a \in Seq(Request), NEW b \in Seq(Request), NEW c \in Seq(Request),
           NEW f, IsPart(f, a, b), NEW g, IsPart(g, b, c)
    PROVE  IsPart([i \in 1..Len(a) |-> g[f[i]]], a, c)
  <1> DEFINE h == [i \in 1..Len(a) |-> g[f[i]]]
  <1>1. /\ f \in [1..Len(a) -> 1..Len(b)] /\ g \in [1..Len(b) -> 1..Len(c)]
        /\ \A i \in 1..Len(a) : a[i] = b[f[i]]
        /\ \A i \in 1..Len(b) : b[i] = c[g[i]]
        /\ \A i, j \in 1..Len(a) : i < j => f[i] < f[j]
        /\ \A i, j \in 1..Len(b) : i < j => g[i] < g[j]
    BY DEF IsPart
  <1>2. h \in [1..Len(a) -> 1..Len(c)] /\ \A i \in 1..Len(a) : a[i] = c[h[i]]
    BY <1>1
  <1>3. \A i, j \in 1..Len(a) : i < j => h[i] < h[j]
    BY <1>1
  <1> HIDE DEF h
  <1>4. IsPart(h, a, c)
    BY <1>2, <1>3 DEF IsPart
  <1>5. QED
    BY <1>4 DEF h

\* An end of a log.
LEMMA EndIsPart ==
    ASSUME NEW log \in Seq(Request), NEW d \in 0..Len(log)
    PROVE  LET end == SubSeq(log, d + 1, Len(log))
           IN  /\ end \in Seq(Request) /\ Len(end) = Len(log) - d
               /\ \A i \in 1..Len(end) : end[i] = log[d + i]
               /\ IsPart([i \in 1..Len(end) |-> d + i], end, log)
  <1> DEFINE end == SubSeq(log, d + 1, Len(log))
             m == Len(log)
             at == [i \in 1..Len(end) |-> d + i]
  <1>1. m \in Nat /\ d + 1 \in Int /\ \A i \in (d + 1)..m : log[i] \in Request
    OBVIOUS
  <1>2. /\ end \in Seq(Request)
        /\ Len(end) = IF d + 1 <= m THEN m - (d + 1) + 1 ELSE 0
        /\ \A i \in 1..(m - (d + 1) + 1) : end[i] = log[(d + 1) + i - 1]
    <2> DEFINE a == d + 1
    <2>1. m \in Int /\ a \in Int /\ \A i \in a..m : log[i] \in Request
      BY <1>1
    <2> HIDE DEF m, a
    <2>2. /\ SubSeq(log, a, m) \in Seq(Request)
          /\ Len(SubSeq(log, a, m)) = IF a <= m THEN m - a + 1 ELSE 0
          /\ \A i \in 1..(m - a + 1) : SubSeq(log, a, m)[i] = log[a + i - 1]
      BY <2>1, SubSeqProperties
    <2>3. QED
      BY <2>2 DEF a, m
  <1> HIDE DEF end, m
  <1>3. Len(end) = m - d /\ d \in 0..m
    BY <1>1, <1>2 DEF m
  <1>4. \A i \in 1..Len(end) : end[i] = log[d + i]
    <2>1. ASSUME NEW i \in 1..Len(end) PROVE end[i] = log[d + i]
      <3>1. i \in 1..(m - (d + 1) + 1) /\ (d + 1) + i - 1 = d + i
        BY <1>1, <1>3
      <3>2. QED
        BY <1>2, <3>1
    <2>2. QED
      BY <2>1
  <1>5. at \in [1..Len(end) -> 1..m] /\ \A i, j \in 1..Len(end) : i < j => at[i] < at[j]
    BY <1>1, <1>3
  <1>6. IsPart(at, end, log)
    BY <1>4, <1>5 DEF IsPart, m
  <1>7. QED
    BY <1>2, <1>3, <1>4, <1>6 DEF end, m

\* What Pruned keeps is a part of the log that fits; what it drops is too old
\* or has no room any more (pruneLocked).
THEOREM PrunedForm ==
    ASSUME NEW weight \in [Request -> Nat], NEW gone, NEW log \in Seq(Request)
    PROVE  LET kept == Fitting(weight, Unexpired(gone, log))
           IN  /\ kept \in Seq(Request)
               /\ SizeOfNewest(weight, kept)[Len(kept)] <= MaxBytes
               /\ \E at : IsPart(at, kept, log)
               /\ \A i \in 1..Len(log) :
                     \/ log[i] \in gone
                     \/ \E j \in 1..Len(kept) : kept[j] = log[i]
                     \/ SizeOfNewest(weight, log)[Len(log) - i + 1] > MaxBytes
  <1> DEFINE young == Unexpired(gone, log)
             kept == Fitting(weight, young)
  <1>1. PICK f : KeptBelow(f, young, gone, log, Len(log))
    BY UnexpiredForm
  <1>2. young \in Seq(Request) /\ IsPart(f, young, log)
    BY <1>1 DEF KeptBelow, IsPart
  <1>3. \A i \in 1..Len(log) : log[i] \in gone \/ \E j \in 1..Len(young) : f[j] = i
    BY <1>1 DEF KeptBelow
  <1> HIDE DEF young
  <1>4. PICK d \in 0..Len(young) :
            /\ kept = SubSeq(young, d + 1, Len(young))
            /\ SizeOfNewest(weight, young)[Len(young) - d] <= MaxBytes
            /\ \A n \in 0..(d - 1) : SizeOfNewest(weight, young)[Len(young) - n] > MaxBytes
    BY <1>2, FittingForm
  <1> DEFINE g == [i \in 1..Len(kept) |-> d + i]
             m == Len(kept)
             h == [i \in 1..m |-> f[g[i]]]
  <1> HIDE DEF kept
  <1>5. /\ kept \in Seq(Request) /\ m = Len(young) - d
        /\ \A i \in 1..m : kept[i] = young[d + i]
        /\ IsPart(g, kept, young)
    BY <1>2, <1>4, EndIsPart
  <1>6. IsPart(h, kept, log)
    BY <1>2, <1>5, PartOfPart
  <1>7. SizeOfNewest(weight, kept)[m] <= MaxBytes
    <2>1. m \in Nat /\ MaxBytes \in Nat /\ Len(young) \in Nat
      BY <1>2, <1>5, UsageAssumption
    <2>2. SizeOfNewest(weight, kept) \in [0..m -> Nat] /\ SizeOfNewest(weight, kept)[0] = 0
      BY <1>5, SizeOfNewestForm DEF IsTotal
    <2>3. CASE m = 0
      BY <2>1, <2>2, <2>3
    <2>4. CASE m # 0
      <3>1. 1 \in 1..m /\ m - 1 + 1 = m
        BY <2>1, <2>4
      <3>2. g[1] = d + 1 /\ Len(young) - (d + 1) + 1 = Len(young) - d
        BY <2>1, <3>1
      <3>3. \A i \in 1..m : weight[kept[i]] <= weight[kept[i]]
        BY <1>5
      <3> HIDE DEF g
      <3>4. SizeOfNewest(weight, kept)[m - 1 + 1]
                <= SizeOfNewest(weight, young)[Len(young) - g[1] + 1]
        BY <1>2, <1>5, <3>1, <3>3, PartIsSmaller
      <3>5. SizeOfNewest(weight, kept)[m] <= SizeOfNewest(weight, young)[Len(young) - d]
        BY <3>1, <3>2, <3>4
      <3>6. SizeOfNewest(weight, young)[Len(young) - d] \in Nat
        <4>1. Len(young) - d \in 0..Len(young)
          BY <2>1
        <4>2. QED
          BY <1>2, <4>1, NewestIsNat
      <3>7. SizeOfNewest(weight, kept)[m] \in Nat
        BY <2>1, <2>2
      <3>8. QED
        BY <1>4, <2>1, <3>5, <3>6, <3>7
    <2>5. QED
      BY <2>3, <2>4
  <1>8. ASSUME NEW i \in 1..Len(log), log[i] \notin gone,
               ~\E j \in 1..m : kept[j] = log[i]
        PROVE  SizeOfNewest(weight, log)[Len(log) - i + 1] > MaxBytes
    <2>1. PICK k \in 1..Len(young) : f[k] = i
      BY <1>3, <1>8
    <2>2. young[k] = log[i]
      BY <1>2, <2>1 DEF IsPart
    <2>3. k <= d
      <3>1. SUFFICES ASSUME k > d PROVE FALSE
        OBVIOUS
      <3>2. k - d \in 1..m /\ d + (k - d) = k
        BY <1>2, <1>5, <3>1
      <3>3. kept[k - d] = young[k]
        BY <1>5, <3>2
      <3>4. QED
        BY <1>8, <2>2, <3>2, <3>3
    <2>4. k - 1 \in 0..(d - 1) /\ Len(young) - (k - 1) = Len(young) - k + 1
      BY <1>2, <2>3
    <2>5. SizeOfNewest(weight, young)[Len(young) - k + 1] > MaxBytes
      BY <1>4, <2>4
    <2>6. SizeOfNewest(weight, young)[Len(young) - k + 1]
              <= SizeOfNewest(weight, log)[Len(log) - f[k] + 1]
      <3>1. \A j \in 1..Len(young) : weight[young[j]] <= weight[young[j]]
        BY <1>2
      <3>2. QED
        BY <1>2, <3>1, PartIsSmaller
    <2>7. SizeOfNewest(weight, young)[Len(young) - k + 1] \in Nat
      BY <1>2, SizeOfNewestForm DEF IsTotal
    <2>8. SizeOfNewest(weight, log)[Len(log) - i + 1] \in Nat
      <3>1. Len(log) - i + 1 \in 0..Len(log)
        OBVIOUS
      <3>2. QED
        BY <3>1, NewestIsNat
    <2>9. QED
      BY <2>1, <2>5, <2>6, <2>7, <2>8, UsageAssumption
  <1>9. QED
    BY <1>5, <1>6, <1>7, <1>8 DEF kept, young

----------------------------------------------------------------------------
(* Parts of what arrived. *)

\* InOrder says that some places make one log a part of the other.
LEMMA InOrderIsPart ==
    ASSUME NEW a \in Seq(Request), NEW b \in Seq(Request)
    PROVE  InOrder(a, b) <=> \E at : IsPart(at, a, b)
  <1>1. DOMAIN a = 1..Len(a) /\ DOMAIN b = 1..Len(b)
    OBVIOUS
  <1>2. QED
    BY <1>1 DEF InOrder, IsPart

\* The empty log is a part of every log, and a log of itself.
LEMMA InOrderTrivial ==
    ASSUME NEW a \in Seq(Request)
    PROVE  InOrder(<<>>, a) /\ InOrder(a, a)
  <1>1. IsPart([i \in 1..Len(a) |-> i], a, a)
    BY DEF IsPart
  <1>2. IsPart(<<>>, <<>>, a) /\ <<>> \in Seq(Request)
    BY DEF IsPart
  <1>3. QED
    BY <1>1, <1>2, InOrderIsPart

\* A part of a part is a part.
LEMMA InOrderTransitive ==
    ASSUME NEW a \in Seq(Request), NEW b \in Seq(Request), NEW c \in Seq(Request),
           InOrder(a, b), InOrder(b, c)
    PROVE  InOrder(a, c)
  BY InOrderIsPart, PartOfPart

\* A part has no other members.
LEMMA InOrderMembers ==
    ASSUME NEW a \in Seq(Request), NEW b \in Seq(Request), InOrder(a, b)
    PROVE  ToSet(a) \subseteq ToSet(b)
  <1>1. DOMAIN a = 1..Len(a) /\ DOMAIN b = 1..Len(b)
    OBVIOUS
  <1>2. QED
    BY <1>1, InOrderIsPart DEF IsPart, ToSet

\* The members of a log and of one more record.
LEMMA AppendMembers ==
    ASSUME NEW S, NEW a \in Seq(S), NEW r \in S
    PROVE  ToSet(Append(a, r)) = ToSet(a) \cup {r}
  <1>1. /\ Append(a, r) \in Seq(S) /\ Len(Append(a, r)) = Len(a) + 1
        /\ \A i \in 1..Len(a) : Append(a, r)[i] = a[i]
        /\ Append(a, r)[Len(a) + 1] = r
    BY AppendProperties
  <1> DEFINE b == Append(a, r)
  <1>2. DOMAIN a = 1..Len(a) /\ DOMAIN b = 1..(Len(a) + 1) /\ Len(a) \in Nat
    BY <1>1
  <1> HIDE DEF b
  <1>3. QED
    BY <1>1, <1>2 DEF ToSet, b

\* A record that arrives last may be added to a part or not.
LEMMA InOrderAppend ==
    ASSUME NEW a \in Seq(Request), NEW b \in Seq(Request), InOrder(a, b), NEW r \in Request
    PROVE  InOrder(a, Append(b, r)) /\ InOrder(Append(a, r), Append(b, r))
  <1> DEFINE aa == Append(a, r)
             bb == Append(b, r)
             l == Len(a)
             m == Len(b)
  <1>1. /\ aa \in Seq(Request) /\ Len(aa) = l + 1 /\ aa[l + 1] = r
        /\ \A i \in 1..l : aa[i] = a[i]
    BY AppendProperties
  <1>2. /\ bb \in Seq(Request) /\ Len(bb) = m + 1 /\ bb[m + 1] = r
        /\ \A i \in 1..m : bb[i] = b[i]
    BY AppendProperties
  <1>3. PICK at : IsPart(at, a, b)
    BY InOrderIsPart
  <1>4. /\ l \in Nat /\ m \in Nat /\ at \in [1..l -> 1..m]
        /\ \A i \in 1..l : a[i] = b[at[i]]
        /\ \A i, j \in 1..l : i < j => at[i] < at[j]
    BY <1>3 DEF IsPart
  <1> HIDE DEF aa, bb
  <1>5. IsPart(at, a, bb)
    <2>1. at \in [1..l -> 1..(m + 1)]
      BY <1>4
    <2>2. \A i \in 1..l : a[i] = bb[at[i]]
      BY <1>2, <1>4
    <2>3. QED
      BY <1>2, <1>4, <2>1, <2>2 DEF IsPart
  <1> DEFINE next == [i \in 1..(l + 1) |-> IF i = l + 1 THEN m + 1 ELSE at[i]]
  <1> HIDE DEF l, m
  <1>6. /\ next \in [1..(l + 1) -> 1..(m + 1)] /\ next[l + 1] = m + 1
        /\ \A i \in 1..l : next[i] = at[i]
    BY <1>4
  <1> HIDE DEF next
  <1>7. \A i \in 1..(l + 1) : aa[i] = bb[next[i]]
    <2>1. SUFFICES ASSUME NEW i \in 1..(l + 1) PROVE aa[i] = bb[next[i]]
      OBVIOUS
    <2>2. CASE i = l + 1
      BY <1>1, <1>2, <1>6, <2>2
    <2>3. CASE i # l + 1
      <3>1. i \in 1..l
        BY <1>4, <2>3
      <3>2. at[i] \in 1..m
        BY <1>4, <3>1
      <3>3. QED
        BY <1>1, <1>2, <1>4, <1>6, <3>1, <3>2
    <2>4. QED
      BY <2>2, <2>3
  <1>8. \A i, j \in 1..(l + 1) : i < j => next[i] < next[j]
    <2>1. SUFFICES ASSUME NEW i \in 1..(l + 1), NEW j \in 1..(l + 1), i < j
                   PROVE  next[i] < next[j]
      OBVIOUS
    <2>2. i \in 1..l /\ next[i] = at[i] /\ at[i] \in 1..m
      BY <1>4, <1>6, <2>1
    <2>3. CASE j = l + 1
      BY <1>4, <1>6, <2>2, <2>3
    <2>4. CASE j # l + 1
      BY <1>4, <1>6, <2>1, <2>2, <2>4
    <2>5. QED
      BY <2>3, <2>4
  <1>9. IsPart(next, aa, bb)
    BY <1>1, <1>2, <1>6, <1>7, <1>8 DEF IsPart, l, m
  <1>10. QED
    BY <1>1, <1>2, <1>5, <1>9, InOrderIsPart DEF aa, bb

\* What is crowded out of a log stays so in a longer one.
Crowds(weight, log, r) ==
    \E i \in DOMAIN log : log[i] = r /\ SizeOfNewest(weight, log)[Len(log) - i + 1] > MaxBytes

\* A record that is crowded out of a log is crowded out of one that has more,
\* if the records of the first keep their sizes.
LEMMA CrowdsStays ==
    ASSUME NEW wa \in [Request -> Nat], NEW wb \in [Request -> Nat],
           NEW a \in Seq(Request), NEW b \in Seq(Request), InOrder(a, b),
           \A r \in ToSet(a) : wa[r] = wb[r],
           NEW r, Crowds(wa, a, r)
    PROVE  Crowds(wb, b, r)
  <1>1. DOMAIN a = 1..Len(a) /\ DOMAIN b = 1..Len(b) /\ Len(a) \in Nat /\ Len(b) \in Nat
    OBVIOUS
  <1>2. PICK at : IsPart(at, a, b)
    BY InOrderIsPart
  <1>3. PICK i \in 1..Len(a) : a[i] = r /\ SizeOfNewest(wa, a)[Len(a) - i + 1] > MaxBytes
    BY <1>1 DEF Crowds
  <1>4. at[i] \in 1..Len(b) /\ b[at[i]] = r
    BY <1>2, <1>3 DEF IsPart
  <1>5. \A k \in 1..Len(a) : wa[a[k]] <= wb[a[k]]
    <2>1. ASSUME NEW k \in 1..Len(a) PROVE wa[a[k]] <= wb[a[k]]
      <3>1. wa[a[k]] = wb[a[k]] /\ wa[a[k]] \in Nat
        <4>1. a[k] \in ToSet(a)
          BY <1>1 DEF ToSet
        <4>2. a[k] \in Request
          OBVIOUS
        <4>3. QED
          BY <4>1, <4>2
      <3>2. QED
        BY <3>1
    <2>2. QED
      BY <2>1
  <1>6. SizeOfNewest(wa, a)[Len(a) - i + 1] <= SizeOfNewest(wb, b)[Len(b) - at[i] + 1]
    BY <1>2, <1>5, PartIsSmaller
  <1>7. /\ SizeOfNewest(wa, a)[Len(a) - i + 1] \in Nat
        /\ SizeOfNewest(wb, b)[Len(b) - at[i] + 1] \in Nat
    <2>1. Len(a) - i + 1 \in 1..Len(a) /\ Len(b) - at[i] + 1 \in 1..Len(b)
      BY <1>1, <1>4, Mirror, Zenon
    <2>2. 1..Len(a) \subseteq 0..Len(a) /\ 1..Len(b) \subseteq 0..Len(b)
      BY <1>1
    <2>3. QED
      BY <2>1, <2>2, NewestIsNat
  <1>8. SizeOfNewest(wb, b)[Len(b) - at[i] + 1] > MaxBytes
    <2> DEFINE x == SizeOfNewest(wa, a)[Len(a) - i + 1]
               y == SizeOfNewest(wb, b)[Len(b) - at[i] + 1]
    <2>1. x \in Nat /\ y \in Nat /\ MaxBytes \in Nat /\ x <= y /\ x > MaxBytes
      BY <1>3, <1>6, <1>7, UsageAssumption
    <2> HIDE DEF x, y
    <2>2. y > MaxBytes
      BY <2>1
    <2>3. QED
      BY <2>2 DEF y
  <1>9. QED
    BY <1>1, <1>4, <1>8 DEF Crowds

\* A log that is pruned loses what is too old or crowded out of all that arrived.
LEMMA PrunedLoss ==
    ASSUME NEW weight \in [Request -> Nat], NEW gone,
           NEW log \in Seq(Request), NEW arrived \in Seq(Request), InOrder(log, arrived)
    PROVE  LET kept == Fitting(weight, Unexpired(gone, log))
           IN  /\ kept \in Seq(Request)
               /\ SizeOfNewest(weight, kept)[Len(kept)] <= MaxBytes
               /\ InOrder(kept, arrived)
               /\ ToSet(kept) \subseteq ToSet(log)
               /\ \A r \in ToSet(log) :
                     r \in gone \/ r \in ToSet(kept) \/ Crowds(weight, arrived, r)
  <1> DEFINE kept == Fitting(weight, Unexpired(gone, log))
  <1>1. /\ kept \in Seq(Request)
        /\ SizeOfNewest(weight, kept)[Len(kept)] <= MaxBytes
        /\ \E at : IsPart(at, kept, log)
        /\ \A i \in 1..Len(log) :
              \/ log[i] \in gone
              \/ \E j \in 1..Len(kept) : kept[j] = log[i]
              \/ SizeOfNewest(weight, log)[Len(log) - i + 1] > MaxBytes
    BY PrunedForm
  <1> HIDE DEF kept
  <1>2. DOMAIN log = 1..Len(log) /\ DOMAIN kept = 1..Len(kept)
    BY <1>1
  <1>3. InOrder(kept, log)
    BY <1>1, InOrderIsPart
  <1>4. InOrder(kept, arrived) /\ ToSet(kept) \subseteq ToSet(log)
    BY <1>1, <1>3, InOrderTransitive, InOrderMembers
  <1>5. ASSUME NEW r \in ToSet(log), r \notin gone, r \notin ToSet(kept)
        PROVE  Crowds(weight, arrived, r)
    <2>1. PICK i \in 1..Len(log) : log[i] = r
      BY <1>2 DEF ToSet
    <2>2. ~\E j \in 1..Len(kept) : kept[j] = log[i]
      BY <1>2, <1>5, <2>1 DEF ToSet
    <2>3. SizeOfNewest(weight, log)[Len(log) - i + 1] > MaxBytes
      BY <1>1, <1>5, <2>1, <2>2
    <2>4. Crowds(weight, log, r)
      BY <1>2, <2>1, <2>3 DEF Crowds
    <2>5. \A q \in ToSet(log) : weight[q] = weight[q]
      OBVIOUS
    <2>6. QED
      BY <2>4, <2>5, CrowdsStays
  <1>6. QED
    BY <1>1, <1>4, <1>5 DEF kept

----------------------------------------------------------------------------
(* Types. *)

\* Who may hold the store's lock.
LEMMA OpForms ==
    ASSUME NEW o \in Op
    PROVE  /\ o.kind \in {"none", "load", "prune", "append"}
           /\ o.kind = "none" <=> o = Free
           /\ o.kind = "append" => o.request \in Request
  BY DEF Op, Free

\* What a file may be.
File == Seq(Request) \cup {NoFile}

\* TypeOK, one variable at a time.
LEMMA TypeForm ==
    TypeOK <=>
    /\ target \in File /\ backup \in File /\ fresh \in File
    /\ stage \in Stage
    /\ up \in BOOLEAN /\ durable \in BOOLEAN /\ torn \in BOOLEAN
    /\ boots \in 0..MaxBoots
    /\ records \in Seq(Request) /\ previous \in Seq(Request) /\ arrivals \in Seq(Request)
    /\ op \in Op
    /\ progress \in [Request -> {"new", "running", "ended", "recorded"}]
    /\ size \in [Request -> Size \cup {0}]
    /\ old \subseteq Request
    /\ acked \subseteq Request /\ unsure \subseteq Request
    /\ open \subseteq Subscriber /\ follows \subseteq open
    /\ queue \in [Subscriber -> Seq(Event)]
    /\ \A s \in Subscriber : queue[s] \in Seq(Event) /\ Len(queue[s]) <= Buffer
    /\ view \in [Subscriber -> SUBSET Request]
    /\ TotalSize(records) <= MaxBytes
  BY DEF TypeOK, File

\* What arrived is kept in its order, and what it takes up is fixed: only a
\* request that has not been recorded changes its size (EndRequest).
LEMMA ArrivalsGrow ==
    ASSUME TypeOK, OrderShape, [Next]_vars
    PROVE  /\ arrivals' \in Seq(Request) /\ InOrder(arrivals, arrivals')
           /\ old \subseteq old' /\ old' \subseteq Request
           /\ size' \in [Request -> Size \cup {0}]
           /\ \A r \in ToSet(arrivals) : size'[r] = size[r]
  <1> DEFINE Goal == /\ arrivals' \in Seq(Request) /\ InOrder(arrivals, arrivals')
                     /\ old \subseteq old' /\ old' \subseteq Request
                     /\ size' \in [Request -> Size \cup {0}]
                     /\ \A r \in ToSet(arrivals) : size'[r] = size[r]
  <1>1. /\ arrivals \in Seq(Request) /\ old \subseteq Request
        /\ size \in [Request -> Size \cup {0}]
        /\ progress \in [Request -> {"new", "running", "ended", "recorded"}]
        /\ InOrder(arrivals, arrivals)
        /\ \A r \in ToSet(arrivals) : progress[r] = "recorded"
    BY TypeForm, InOrderTrivial DEF OrderShape
  <1>2. ASSUME UNCHANGED <<arrivals, old, size>> PROVE Goal
    BY <1>1, <1>2
  <1>3. ASSUME NEW r \in Request, EndRequest(r) PROVE Goal
    BY <1>1, <1>3 DEF EndRequest, history
  <1>4. ASSUME NEW r \in Request, Age(r) PROVE Goal
    BY <1>1, <1>4 DEF Age, history
  <1>5. ASSUME NEW r \in Request, AppendRecord(r) PROVE Goal
    <2>1. arrivals' = Append(arrivals, r) /\ UNCHANGED <<old, size>>
      BY <1>5 DEF AppendRecord
    <2>2. Append(arrivals, r) \in Seq(Request) /\ InOrder(arrivals, Append(arrivals, r))
      BY <1>1, AppendProperties, InOrderAppend
    <2>3. QED
      BY <1>1, <2>1, <2>2
  <1> HIDE DEF Goal
  <1>6. ASSUME Start \/ StartUnreadable \/ Stop \/ Prune \/ Replace \/ Return PROVE Goal
    <2>1. UNCHANGED <<arrivals, old, size>>
      BY <1>6 DEF Start, StartUnreadable, Stop, Prune, Replace, Return, AppendReturns, AppendFails,
         PruneReturns, Loaded, LoadFails, requests, history
    <2>2. QED
      BY <1>2, <2>1
  <1>7. ASSUME NEW r \in Request, Announce(r) \/ RefuseRecord(r) PROVE Goal
    <2>1. UNCHANGED <<arrivals, old, size>>
      BY <1>7 DEF Announce, StartRequest, StartAttempt, RefuseRecord, requests, history
    <2>2. QED
      BY <1>2, <2>1
  <1>8. ASSUME NEW s \in Subscriber, Subscribe(s) \/ List(s) \/ Receive(s) \/ Unsubscribe(s)
        PROVE  Goal
    <2>1. UNCHANGED <<arrivals, old, size>>
      BY <1>8 DEF Subscribe, List, Receive, Unsubscribe, requests, history
    <2>2. QED
      BY <1>2, <2>1
  <1>9. ASSUME UNCHANGED vars PROVE Goal
    BY <1>2, <1>9 DEF vars, requests, history
  <1>10. Goal
    BY <1>3, <1>4, <1>5, <1>6, <1>7, <1>8, <1>9 DEF Next, TakeRecord
  <1>11. QED
    BY <1>10 DEF Goal

\* Sizes are numbers.
LEMMA SizesAreNat == TypeOK => size \in [Request -> Nat]
  <1> SUFFICES ASSUME TypeOK PROVE size \in [Request -> Nat]
    OBVIOUS
  <1>1. size \in [Request -> Size \cup {0}] /\ Size \cup {0} \subseteq Nat
    BY TypeForm, UsageAssumption
  <1>2. QED
    BY <1>1

\* No record takes up nothing.
LEMMA EmptyFits == TypeOK => TotalSize(<<>>) <= MaxBytes
  <1> SUFFICES ASSUME TypeOK PROVE TotalSize(<<>>) <= MaxBytes
    OBVIOUS
  <1>1. <<>> \in Seq(Request) /\ Len(<<>>) = 0
    OBVIOUS
  <1>2. SizeOfNewest(size, <<>>)[0] = 0
    BY <1>1, SizesAreNat, SizeOfNewestForm DEF IsTotal
  <1>3. QED
    BY <1>1, <1>2, UsageAssumption DEF TotalSize

\* A log takes up what it did while its records keep their sizes.
LEMMA SameSize ==
    ASSUME NEW wa \in [Request -> Nat], NEW wb \in [Request -> Nat], NEW log \in Seq(Request),
           \A r \in ToSet(log) : wa[r] = wb[r]
    PROVE  SizeOfNewest(wa, log)[Len(log)] <= SizeOfNewest(wb, log)[Len(log)]
  <1> DEFINE m == Len(log)
             id == [i \in 1..m |-> i]
  <1>1. m \in Nat /\ DOMAIN log = 1..m
    OBVIOUS
  <1>2. CASE m = 0
    <2>1. SizeOfNewest(wa, log)[0] = 0 /\ SizeOfNewest(wb, log)[0] = 0
      BY SizeOfNewestForm DEF IsTotal
    <2>2. QED
      BY <1>2, <2>1
  <1>3. CASE m # 0
    <2>1. 1 \in 1..m /\ m - 1 + 1 = m /\ id[1] = 1
      BY <1>1, <1>3
    <2>2. IsPart(id, log, log)
      BY <1>1 DEF IsPart
    <2>3. ASSUME NEW i \in 1..m PROVE wa[log[i]] <= wb[log[i]]
      <3>1. log[i] \in ToSet(log) /\ log[i] \in Request
        BY <1>1 DEF ToSet
      <3>2. wa[log[i]] = wb[log[i]] /\ wa[log[i]] \in Nat
        BY <3>1
      <3>3. QED
        BY <3>2
    <2> HIDE DEF id
    <2>4. SizeOfNewest(wa, log)[m - 1 + 1] <= SizeOfNewest(wb, log)[m - id[1] + 1]
      BY <2>1, <2>2, <2>3, PartIsSmaller
    <2>5. QED
      BY <2>1, <2>4
  <1>4. QED
    BY <1>2, <1>3

\* A part of what arrived still fits after any step.
LEMMA StillFits ==
    ASSUME TypeOK, OrderShape, [Next]_vars,
           NEW log \in Seq(Request), InOrder(log, arrivals), TotalSize(log) <= MaxBytes
    PROVE  SizeOfNewest(size', log)[Len(log)] <= MaxBytes
  <1>1. /\ size \in [Request -> Nat] /\ size' \in [Request -> Nat]
        /\ \A r \in ToSet(arrivals) : size'[r] = size[r]
    <2>1. Size \cup {0} \subseteq Nat
      BY UsageAssumption
    <2>2. QED
      BY <2>1, ArrivalsGrow, SizesAreNat
  <1>2. \A r \in ToSet(log) : size'[r] = size[r]
    BY <1>1, InOrderMembers, TypeForm
  <1>3. SizeOfNewest(size', log)[Len(log)] <= SizeOfNewest(size, log)[Len(log)]
    BY <1>1, <1>2, SameSize
  <1>4. SizeOfNewest(size', log)[Len(log)] \in Nat /\ SizeOfNewest(size, log)[Len(log)] \in Nat
    BY <1>1, NewestIsNat
  <1>5. QED
    BY <1>3, <1>4, UsageAssumption DEF TotalSize

\* What Pruned leaves of a log that is a part of what arrived.
LEMMA PrunedState ==
    ASSUME TypeOK, OrderShape, NEW log \in Seq(Request), InOrder(log, arrivals)
    PROVE  /\ Pruned(log) \in Seq(Request) /\ TotalSize(Pruned(log)) <= MaxBytes
           /\ InOrder(Pruned(log), arrivals)
           /\ ToSet(Pruned(log)) \subseteq ToSet(log)
           /\ \A r \in ToSet(log) : r \in old \/ r \in ToSet(Pruned(log)) \/ Crowded(r)
  <1>1. size \in [Request -> Nat] /\ arrivals \in Seq(Request)
    BY SizesAreNat, TypeForm
  <1>2. \A r : Crowds(size, arrivals, r) <=> Crowded(r)
    BY DEF Crowds, Crowded
  <1>3. QED
    BY <1>1, <1>2, PrunedLoss DEF Pruned, TotalSize

\* ... and of the records with one more.
LEMMA PrunedAppend ==
    ASSUME TypeOK, OrderShape, NEW r \in Request
    PROVE  LET more == Append(records, r)
               kept == Pruned(more)
           IN  /\ more \in Seq(Request) /\ ToSet(more) = ToSet(records) \cup {r}
               /\ kept \in Seq(Request) /\ TotalSize(kept) <= MaxBytes
               /\ InOrder(kept, Append(arrivals, r))
               /\ ToSet(kept) \subseteq ToSet(more)
               /\ \A q \in ToSet(more) :
                     q \in old \/ q \in ToSet(kept) \/ Crowds(size, Append(arrivals, r), q)
  <1>1. /\ size \in [Request -> Nat] /\ arrivals \in Seq(Request) /\ records \in Seq(Request)
        /\ InOrder(records, arrivals)
    <2>1. NoFile \notin Seq(Request)
      BY UsageAssumption
    <2>2. QED
      BY <2>1, SizesAreNat, TypeForm DEF OrderShape
  <1> DEFINE more == Append(records, r)
             all == Append(arrivals, r)
  <1>2. /\ more \in Seq(Request) /\ all \in Seq(Request)
        /\ ToSet(more) = ToSet(records) \cup {r} /\ InOrder(more, all)
    BY <1>1, AppendProperties, AppendMembers, InOrderAppend
  <1> HIDE DEF more, all
  <1>3. QED
    BY <1>1, <1>2, PrunedLoss DEF Pruned, TotalSize, more, all

\* The readers' variables have their types.
ReadersOK ==
    /\ open \subseteq Subscriber /\ follows \subseteq open
    /\ queue \in [Subscriber -> Seq(Event)]
    /\ \A s \in Subscriber : queue[s] \in Seq(Event) /\ Len(queue[s]) <= Buffer
    /\ view \in [Subscriber -> SUBSET Request]

\* An event reaches the subscribers with room, and no queue overflows (Publish).
LEMMA PublishTypes ==
    ASSUME ReadersOK, NEW e \in Event, Publish(e)
    PROVE  ReadersOK'
  <1>1. /\ queue' = [s \in Subscriber |->
                       IF s \in {x \in open : HasRoom(x)} THEN Append(queue[s], e) ELSE queue[s]]
        /\ follows' = {s \in follows : HasRoom(s)}
        /\ view' = [s \in Subscriber |-> IF s \in follows' THEN view[s] ELSE {}]
        /\ open' = open
    BY DEF Publish, Delivered
  <1>2. follows' \subseteq open' /\ open' \subseteq Subscriber
    BY <1>1 DEF ReadersOK
  <1>3. view' \in [Subscriber -> SUBSET Request]
    BY <1>1 DEF ReadersOK
  <1>4. ASSUME NEW s \in Subscriber
        PROVE  queue'[s] \in Seq(Event) /\ Len(queue'[s]) <= Buffer
    <2>1. queue[s] \in Seq(Event) /\ Len(queue[s]) <= Buffer /\ Buffer \in Nat
      BY UsageAssumption DEF ReadersOK
    <2>2. CASE s \in open /\ HasRoom(s)
      <3>1. queue'[s] = Append(queue[s], e)
        BY <1>1, <2>2
      <3>2. Append(queue[s], e) \in Seq(Event) /\ Len(Append(queue[s], e)) = Len(queue[s]) + 1
        BY <2>1, AppendProperties
      <3>3. Len(queue[s]) < Buffer /\ Len(queue[s]) \in Nat
        BY <2>1, <2>2 DEF HasRoom
      <3>4. QED
        BY <2>1, <3>1, <3>2, <3>3
    <2>3. CASE ~(s \in open /\ HasRoom(s))
      BY <1>1, <2>1, <2>3
    <2>4. QED
      BY <2>2, <2>3
  <1>5. queue' \in [Subscriber -> Seq(Event)]
    BY <1>1, <1>4
  <1>6. QED
    BY <1>2, <1>3, <1>4, <1>5 DEF ReadersOK

\* Steps that only readers take (Subscribe, List, Receive, Unsubscribe).
ReaderStep == \E s \in Subscriber : Subscribe(s) \/ List(s) \/ Receive(s) \/ Unsubscribe(s)

\* Readers keep to the types of theirs (handleLogEvents, Subscribe, List).
LEMMA ReaderTypes == TypeOK /\ ReaderStep => ReadersOK'
  <1> SUFFICES ASSUME TypeOK, NEW s \in Subscriber,
                      Subscribe(s) \/ List(s) \/ Receive(s) \/ Unsubscribe(s)
               PROVE  ReadersOK'
    BY DEF ReaderStep
  <1>1. ReadersOK /\ records \in Seq(Request)
    BY TypeForm DEF ReadersOK
  <1>2. CASE Subscribe(s)
    BY <1>1, <1>2 DEF Subscribe, ReadersOK
  <1>3. CASE List(s)
    <2>1. ToSet(records) \subseteq Request
      BY <1>1 DEF ToSet
    <2>2. QED
      BY <1>1, <1>3, <2>1 DEF List, ReadersOK
  <1>4. CASE Receive(s)
    <2>1. /\ s \in open /\ queue[s] # <<>> /\ queue' = [queue EXCEPT ![s] = Tail(queue[s])]
          /\ UNCHANGED <<open, follows>>
          /\ \/ view' = view
             \/ view' = [view EXCEPT ![s] = view[s] \cup {Head(queue[s]).request}]
      BY <1>4 DEF Receive
    <2>2. queue[s] \in Seq(Event) /\ Len(queue[s]) <= Buffer /\ Buffer \in Nat
      BY <1>1, UsageAssumption DEF ReadersOK
    <2>3. Tail(queue[s]) \in Seq(Event) /\ Len(Tail(queue[s])) = Len(queue[s]) - 1
          /\ Head(queue[s]) \in Event
      BY <2>1, <2>2, HeadTailProperties
    <2>4. Len(Tail(queue[s])) <= Buffer
      BY <2>2, <2>3
    <2>5. Head(queue[s]).request \in Request
      BY <2>3 DEF Event
    <2>6. \A x \in Subscriber : queue'[x] \in Seq(Event) /\ Len(queue'[x]) <= Buffer
      BY <1>1, <2>1, <2>3, <2>4 DEF ReadersOK
    <2>7. view' \in [Subscriber -> SUBSET Request]
      BY <1>1, <2>1, <2>5 DEF ReadersOK
    <2>8. QED
      BY <1>1, <2>1, <2>6, <2>7 DEF ReadersOK
  <1>5. CASE Unsubscribe(s)
    <2>1. <<>> \in Seq(Event) /\ Len(<<>>) = 0 /\ 0 <= Buffer
      BY UsageAssumption
    <2>2. QED
      BY <1>1, <1>5, <2>1 DEF Unsubscribe, ReadersOK
  <1>6. QED
    BY <1>2, <1>3, <1>4, <1>5

\* The types of everything but the readers.
StoreOK ==
    /\ target \in File /\ backup \in File /\ fresh \in File
    /\ stage \in Stage
    /\ up \in BOOLEAN /\ durable \in BOOLEAN /\ torn \in BOOLEAN
    /\ boots \in 0..MaxBoots
    /\ records \in Seq(Request) /\ previous \in Seq(Request) /\ arrivals \in Seq(Request)
    /\ op \in Op
    /\ progress \in [Request -> {"new", "running", "ended", "recorded"}]
    /\ size \in [Request -> Size \cup {0}]
    /\ old \subseteq Request
    /\ acked \subseteq Request /\ unsure \subseteq Request
    /\ TotalSize(records) <= MaxBytes

\* TypeOK is the types of the store and those of the readers.
LEMMA TypeParts == TypeOK <=> StoreOK /\ ReadersOK
  BY TypeForm DEF StoreOK, ReadersOK

\* What the file system does keeps the types of the files (FileReplacement).
LEMMA ReplaceTypes ==
    ASSUME StoreOK, Replace
    PROVE  target' \in File /\ backup' \in File /\ fresh' \in File /\ stage' \in Stage
  BY DEF StoreOK, Replace, Replacing, WriteFails, RenameOver, MoveAside, NothingToMove,
         MoveAsideFails, Install, InstallFails, Protect, Stage, File

\* ... and so do beginning and ending a replacement.
LEMMA BeginTypes ==
    ASSUME StoreOK, NEW log \in Seq(Request), Begin(log) \/ Finished \/ Abandon
    PROVE  target' \in File /\ backup' \in File /\ fresh' \in File /\ stage' \in Stage
  BY DEF StoreOK, Begin, Finished, Abandon, Stage, File

\* Every step keeps the types, and the records within MaxBytes.
LEMMA StepTypes == TypeOK /\ OrderShape /\ [Next]_vars => TypeOK'
  <1> SUFFICES ASSUME TypeOK, OrderShape, [Next]_vars PROVE TypeOK'
    OBVIOUS
  <1>1. StoreOK /\ ReadersOK
    BY TypeParts
  <1>2. /\ arrivals' \in Seq(Request) /\ old' \subseteq Request
        /\ size' \in [Request -> Size \cup {0}]
    BY ArrivalsGrow
  <1>3. NoFile \notin Seq(Request) /\ TotalSize(<<>>) <= MaxBytes /\ <<>> \in Seq(Request)
    BY UsageAssumption, EmptyFits
  <1>4. /\ records \in Seq(Request) /\ InOrder(records, arrivals) /\ TotalSize(records) <= MaxBytes
        /\ previous \in Seq(Request) /\ InOrder(previous, arrivals)
        /\ TotalSize(previous) <= MaxBytes
    BY <1>1, <1>3 DEF StoreOK, OrderShape
  <1>5. TotalSize(records) <= MaxBytes /\ records' = records => TotalSize(records)' <= MaxBytes
    BY <1>4, StillFits DEF TotalSize
  <1>6. TotalSize(records)' = SizeOfNewest(size', records')[Len(records')]
    BY DEF TotalSize
  <1> DEFINE Goal == StoreOK'
  <1>7. ASSUME Start PROVE Goal
    <2> DEFINE loaded == Decoded(target)
    <2>1. loaded \in Seq(Request) /\ InOrder(loaded, arrivals)
      BY <1>1, <1>3, InOrderTrivial DEF Decoded, StoreOK, File, OrderShape
    <2>2. Pruned(loaded) \in Seq(Request) /\ TotalSize(Pruned(loaded)) <= MaxBytes
      BY <2>1, PrunedState
    <2>3. /\ up' = TRUE /\ boots' = boots + 1 /\ boots < MaxBoots /\ records' = Pruned(loaded)
          /\ previous' = previous
          /\ UNCHANGED <<progress, size, old, arrivals, acked, unsure, torn>>
          /\ \/ durable' = TRUE /\ UNCHANGED <<op, fileVars>>
             \/ durable' = FALSE /\ op' = [kind |-> "load"] /\ Begin(records')
      BY <1>7 DEF Start, requests, history
    <2> HIDE DEF loaded
    <2>4. TotalSize(records)' <= MaxBytes
      BY <1>6, <2>2, <2>3 DEF TotalSize
    <2>5. target' \in File /\ backup' \in File /\ fresh' \in File /\ stage' \in Stage
      BY <1>1, <2>2, <2>3, BeginTypes DEF StoreOK, fileVars
    <2>6. boots' \in 0..MaxBoots
      BY <1>1, <2>3, UsageAssumption DEF StoreOK
    <2>7. durable' \in BOOLEAN /\ op' \in Op
      <3>1. durable' = TRUE \/ durable' = FALSE
        BY <2>3
      <3>2. op' = op \/ op' = [kind |-> "load"]
        BY <2>3
      <3>3. op' \in Op
        BY <1>1, <3>2 DEF StoreOK, Op
      <3>4. QED
        BY <3>1, <3>3
    <2>8. QED
      BY <1>1, <2>2, <2>3, <2>4, <2>5, <2>6, <2>7 DEF StoreOK
  <1>8. ASSUME StartUnreadable PROVE Goal
    <2>1. boots' \in 0..MaxBoots
      BY <1>1, <1>8, UsageAssumption DEF StoreOK, StartUnreadable
    <2>2. TotalSize(records)' <= MaxBytes
      BY <1>3, <1>6, <1>8 DEF StartUnreadable, TotalSize, requests
    <2>3. QED
      BY <1>1, <1>3, <1>8, <2>1, <2>2 DEF StoreOK, StartUnreadable, fileVars, requests, history
  <1>9. ASSUME Stop PROVE Goal
    <2>1. target' \in File /\ backup' \in File /\ fresh' \in File /\ stage' \in Stage
      BY <1>1, <1>3, <1>9, BeginTypes DEF Stop
    <2>2. TotalSize(records)' <= MaxBytes
      BY <1>3, <1>6, <1>9 DEF Stop, TotalSize
    <2>3. unsure' \subseteq Request
      BY <1>1, <1>9, OpForms DEF Stop, StoreOK
    <2>4. torn' \in BOOLEAN
      BY <1>9 DEF Stop
    <2>5. progress' \in [Request -> {"new", "running", "ended", "recorded"}]
      BY <1>9 DEF Stop
    <2>6. QED
      BY <1>1, <1>3, <1>9, <2>1, <2>2, <2>3, <2>4, <2>5 DEF StoreOK, Stop, Op, Free
  <1>10. ASSUME Prune PROVE Goal
    <2>1. Pruned(records) \in Seq(Request) /\ TotalSize(Pruned(records)) <= MaxBytes
      BY <1>4, PrunedState
    <2>2. /\ records' = Pruned(records)
          /\ UNCHANGED <<up, boots, durable, previous, progress, size, old>>
          /\ UNCHANGED <<arrivals, acked, unsure, torn>>
          /\ \/ Begin(records') /\ op' = [kind |-> "prune"]
             \/ UNCHANGED <<fileVars, op>>
      BY <1>10 DEF Prune, requests, history
    <2>3. TotalSize(records)' <= MaxBytes
      BY <1>6, <2>1, <2>2 DEF TotalSize
    <2>4. target' \in File /\ backup' \in File /\ fresh' \in File /\ stage' \in Stage
      BY <1>1, <2>1, <2>2, BeginTypes DEF StoreOK, fileVars
    <2>5. op' \in Op
      BY <1>1, <2>2 DEF StoreOK, Op
    <2>6. QED
      BY <1>1, <2>1, <2>2, <2>3, <2>4, <2>5 DEF StoreOK
  <1>11. ASSUME Replace PROVE Goal
    <2>1. target' \in File /\ backup' \in File /\ fresh' \in File /\ stage' \in Stage
      BY <1>1, <1>11, ReplaceTypes
    <2>2. QED
      BY <1>1, <1>5, <1>11, <2>1 DEF StoreOK, Replace, store, requests, history
  <1>12. ASSUME AppendReturns PROVE Goal
    <2>1. op.kind = "append" /\ op.request \in Request
      BY <1>1, <1>12, OpForms DEF AppendReturns, StoreOK
    <2>2. target' \in File /\ backup' \in File /\ fresh' \in File /\ stage' \in Stage
      BY <1>1, <1>3, <1>12, BeginTypes DEF AppendReturns, StoreOK, fileVars
    <2>3. acked' \subseteq Request
      BY <1>1, <1>12, <2>1 DEF AppendReturns, StoreOK
    <2>4. QED
      BY <1>1, <1>3, <1>5, <1>12, <2>2, <2>3 DEF StoreOK, AppendReturns, Op, Free, requests
  <1>13. ASSUME AppendFails PROVE Goal
    <2>1. op.kind = "append" /\ op.request \in Request
      BY <1>1, <1>13, OpForms DEF AppendFails, StoreOK
    <2>2. target' \in File /\ backup' \in File /\ fresh' \in File /\ stage' \in Stage
      BY <1>1, <1>3, <1>13, BeginTypes DEF AppendFails
    <2>3. TotalSize(records)' <= MaxBytes
      BY <1>4, <1>6, <1>13 DEF AppendFails, TotalSize, requests
    <2>4. QED
      BY <1>1, <1>3, <1>13, <2>1, <2>2, <2>3 DEF StoreOK, AppendFails, Op, Free, requests
  <1>14. ASSUME PruneReturns \/ Loaded PROVE Goal
    <2>1. target' \in File /\ backup' \in File /\ fresh' \in File /\ stage' \in Stage
      BY <1>1, <1>3, <1>14, BeginTypes DEF PruneReturns, Loaded
    <2>2. /\ op' = Free /\ (durable' = durable \/ durable' = TRUE)
          /\ UNCHANGED <<up, boots, records, previous, progress, size, old>>
          /\ UNCHANGED <<arrivals, acked, unsure, torn>>
      BY <1>14 DEF PruneReturns, Loaded, requests, history
    <2>3. op' \in Op /\ durable' \in BOOLEAN /\ TotalSize(records)' <= MaxBytes
      BY <1>1, <1>5, <2>2 DEF StoreOK, Op, Free
    <2>4. QED
      BY <1>1, <2>1, <2>2, <2>3 DEF StoreOK
  <1>15. ASSUME LoadFails PROVE Goal
    <2>1. target' \in File /\ backup' \in File /\ fresh' \in File /\ stage' \in Stage
      BY <1>1, <1>3, <1>15, BeginTypes DEF LoadFails
    <2>2. TotalSize(records)' <= MaxBytes
      BY <1>3, <1>6, <1>15 DEF LoadFails, TotalSize, requests
    <2>3. torn' \in BOOLEAN
      BY <1>15 DEF LoadFails
    <2>4. QED
      BY <1>1, <1>3, <1>15, <2>1, <2>2, <2>3 DEF StoreOK, LoadFails, Op, Free, requests
  <1>16. ASSUME NEW r \in Request, Announce(r) \/ RefuseRecord(r) PROVE Goal
    BY <1>1, <1>5, <1>16 DEF StoreOK, Announce, StartRequest, StartAttempt, RefuseRecord, fileVars,
       store, requests, history
  <1>17. ASSUME NEW r \in Request, EndRequest(r) PROVE Goal
    BY <1>1, <1>2, <1>5, <1>17 DEF StoreOK, EndRequest, fileVars, store, history
  <1>18. ASSUME NEW r \in Request, AppendRecord(r) PROVE Goal
    <2> DEFINE kept == Pruned(Append(records, r))
    <2>1. kept \in Seq(Request) /\ TotalSize(kept) <= MaxBytes
      BY PrunedAppend
    <2>2. /\ records' = kept /\ op' = [kind |-> "append", request |-> r] /\ previous' = records
          /\ progress' = [progress EXCEPT ![r] = "recorded"]
          /\ UNCHANGED <<up, boots, durable, size, old, acked, unsure, torn>>
          /\ Begin(records') \/ UNCHANGED fileVars
      BY <1>18 DEF AppendRecord
    <2> HIDE DEF kept
    <2>3. TotalSize(records)' <= MaxBytes
      BY <1>6, <2>1, <2>2 DEF TotalSize
    <2>4. target' \in File /\ backup' \in File /\ fresh' \in File /\ stage' \in Stage
      BY <1>1, <2>1, <2>2, BeginTypes DEF StoreOK, fileVars
    <2>5. op' \in Op /\ progress' \in [Request -> {"new", "running", "ended", "recorded"}]
      BY <1>1, <2>2 DEF Op, StoreOK
    <2>6. QED
      BY <1>1, <1>2, <2>1, <2>2, <2>3, <2>4, <2>5 DEF StoreOK
  <1>19. ASSUME NEW r \in Request, Age(r) PROVE Goal
    BY <1>1, <1>2, <1>5, <1>19 DEF StoreOK, Age, fileVars, store, history
  <1>20. ASSUME ReaderStep PROVE Goal
    BY <1>1, <1>5, <1>20 DEF StoreOK, ReaderStep, Subscribe, List, Receive,
       Unsubscribe, fileVars, store, requests, history
  <1>21. ASSUME UNCHANGED vars PROVE Goal
    BY <1>1, <1>5, <1>21 DEF StoreOK, vars, fileVars, store, requests, history
  <1> HIDE DEF Goal
  <1>22. Goal
    BY <1>7, <1>8, <1>9, <1>10, <1>11, <1>12, <1>13, <1>14, <1>15, <1>16, <1>17, <1>18, <1>19,
       <1>20, <1>21 DEF Next, Return, TakeRecord, ReaderStep
  <1>23. ReadersOK'
    <2>1. ASSUME UNCHANGED <<open, queue, view, follows>> PROVE ReadersOK'
      BY <1>1, <2>1 DEF ReadersOK
    <2>2. ASSUME Start \/ StartUnreadable \/ Prune \/ Replace \/ AppendFails \/ PruneReturns
                 \/ Loaded \/ LoadFails
          PROVE  ReadersOK'
      BY <2>1, <2>2 DEF Start, StartUnreadable, Prune, Replace, AppendFails, PruneReturns, Loaded,
         LoadFails, readers
    <2>3. ASSUME NEW r \in Request, EndRequest(r) \/ AppendRecord(r) \/ RefuseRecord(r) \/ Age(r)
          PROVE  ReadersOK'
      BY <2>1, <2>3 DEF EndRequest, AppendRecord, RefuseRecord, Age, readers
    <2>4. ASSUME NEW r \in Request, Announce(r) PROVE ReadersOK'
      <3>1. [kind |-> "started", request |-> r] \in Event
        BY DEF Event
      <3>2. QED
        BY <1>1, <2>4, <3>1, PublishTypes DEF Announce, StartRequest, StartAttempt
    <2>5. ASSUME AppendReturns PROVE ReadersOK'
      <3>1. op.kind = "append" /\ op.request \in Request
        BY <1>1, <2>5, OpForms DEF AppendReturns, StoreOK
      <3>2. [kind |-> "completed", request |-> op.request] \in Event
        BY <3>1 DEF Event
      <3>3. QED
        BY <1>1, <2>5, <3>2, PublishTypes DEF AppendReturns
    <2>6. ASSUME Stop PROVE ReadersOK'
      <3>1. <<>> \in Seq(Event) /\ Len(<<>>) = 0 /\ 0 <= Buffer
        BY UsageAssumption
      <3>2. QED
        BY <2>6, <3>1 DEF Stop, ReadersOK
    <2>7. ASSUME ReaderStep PROVE ReadersOK'
      BY <2>7, ReaderTypes
    <2>8. ASSUME UNCHANGED vars PROVE ReadersOK'
      BY <2>1, <2>8 DEF vars, readers
    <2> HIDE DEF ReadersOK
    <2>9. QED
      BY <2>2, <2>3, <2>4, <2>5, <2>6, <2>7, <2>8 DEF Next, Return, TakeRecord, ReaderStep
  <1>24. QED
    BY <1>22, <1>23, TypeParts DEF Goal, TypeOK, StoreOK, ReadersOK, File

----------------------------------------------------------------------------
(* The file, the memory and the lock. *)

\* Every step keeps the memory, the lock and the stage of a replacement together.
LEMMA StepFiles == TypeOK /\ FileShape /\ [Next]_vars => FileShape'
  <1> SUFFICES ASSUME TypeOK, FileShape, [Next]_vars PROVE FileShape'
    OBVIOUS
  <1>1. StoreOK /\ NoFile \notin Seq(Request)
    BY TypeParts, UsageAssumption
  <1>2. /\ op \in Op
        /\ op.kind \in {"none", "load", "prune", "append"}
        /\ op.kind = "none" <=> op = Free
    BY <1>1, OpForms DEF StoreOK
  <1>3. ASSUME Start PROVE FileShape'
    <2>1. ~up /\ op = Free /\ stage = "none" /\ open = {} /\ fresh = NoFile /\ previous = <<>>
      BY <1>2, <1>3 DEF Start, FileShape
    <2>2. /\ up' = TRUE /\ open' = open /\ previous' = previous
          /\ \/ durable' = TRUE /\ op' = op /\ fresh' = fresh /\ stage' = stage
             \/ /\ durable' = FALSE /\ op' = [kind |-> "load"]
                /\ fresh' = records' /\ stage' = "write"
      BY <1>3 DEF Start, Begin, fileVars, readers
    <2>3. QED
      BY <2>1, <2>2 DEF FileShape, Free
  <1>4. ASSUME StartUnreadable PROVE FileShape'
    BY <1>2, <1>4 DEF StartUnreadable, FileShape, fileVars, readers, Free
  <1>5. ASSUME Stop PROVE FileShape'
    BY <1>5 DEF Stop, Abandon, FileShape, Free
  <1>6. ASSUME Prune PROVE FileShape'
    <2>1. /\ up /\ op = Free /\ stage = "none" /\ fresh = NoFile /\ previous = <<>>
      BY <1>2, <1>6 DEF Prune, FileShape, Free
    <2>2. /\ up' = up /\ durable' = durable /\ open' = open /\ previous' = previous
          /\ \/ durable /\ fresh' = records' /\ stage' = "write" /\ op' = [kind |-> "prune"]
             \/ ~durable /\ fresh' = fresh /\ stage' = stage /\ op' = op
      BY <1>6 DEF Prune, Begin, fileVars, readers
    <2>3. QED
      BY <2>1, <2>2 DEF FileShape, Free
  <1>7. ASSUME Replace PROVE FileShape'
    <2>1. /\ op # Free
          /\ UNCHANGED <<up, durable, records, previous, op, open>>
      BY <1>7 DEF Replace, store, readers
    <2>2. stage # "none" /\ fresh = records /\ records # NoFile /\ fresh' = fresh
      BY <1>1, <1>7 DEF FileShape, StoreOK, Replace, Replacing, WriteFails, RenameOver, MoveAside,
         NothingToMove, MoveAsideFails, Install, InstallFails, Protect
    <2>3. /\ stage' # "none"
          /\ stage' \in {"protect", "saved"} => target' = records
          /\ stage' = "aside" => target' = NoFile /\ backup' # NoFile
      BY <1>7, <2>2 DEF FileShape, Replace, Replacing, WriteFails, RenameOver, MoveAside,
         NothingToMove, MoveAsideFails, Install, InstallFails, Protect
    <2>4. QED
      BY <2>1, <2>2, <2>3 DEF FileShape
  <1>8. ASSUME AppendReturns PROVE FileShape'
    <2>1. up /\ (~durable => stage = "none" /\ fresh = NoFile)
      BY <1>2, <1>8 DEF AppendReturns, FileShape, Free
    <2>2. /\ UNCHANGED <<up, durable, records, open>> /\ op' = Free /\ previous' = <<>>
          /\ stage' = "none" /\ fresh' = NoFile
      BY <1>8, <2>1 DEF AppendReturns, Publish, Delivered, Finished, fileVars
    <2>3. QED
      BY <2>1, <2>2 DEF FileShape, Free
  <1>9. ASSUME AppendFails PROVE FileShape'
    BY <1>2, <1>9 DEF AppendFails, Finished, FileShape, Free, readers
  <1>10. ASSUME PruneReturns PROVE FileShape'
    BY <1>2, <1>10 DEF PruneReturns, Finished, FileShape, Free, readers
  <1>11. ASSUME Loaded PROVE FileShape'
    BY <1>2, <1>11 DEF Loaded, Finished, FileShape, Free, readers
  <1>12. ASSUME LoadFails PROVE FileShape'
    BY <1>2, <1>12 DEF LoadFails, Finished, FileShape, Free, readers
  <1>13. ASSUME UNCHANGED <<fileVars, store, open>> PROVE FileShape'
    BY <1>13 DEF FileShape, fileVars, store
  <1>14. ASSUME NEW r \in Request,
                Announce(r) \/ EndRequest(r) \/ RefuseRecord(r) \/ Age(r)
         PROVE  FileShape'
    BY <1>13, <1>14 DEF Announce, StartRequest, StartAttempt, Publish, Delivered, EndRequest,
       RefuseRecord, Age, readers
  <1>15. ASSUME NEW r \in Request, AppendRecord(r) PROVE FileShape'
    <2>1. /\ up /\ op = Free /\ stage = "none" /\ fresh = NoFile
      BY <1>2, <1>15 DEF AppendRecord, FileShape
    <2>2. /\ up' = up /\ durable' = durable /\ open' = open
          /\ op' = [kind |-> "append", request |-> r]
          /\ \/ durable /\ fresh' = records' /\ stage' = "write"
             \/ ~durable /\ fresh' = fresh /\ stage' = stage
      BY <1>15 DEF AppendRecord, Begin, fileVars, readers
    <2>3. QED
      BY <2>1, <2>2 DEF FileShape, Free
  <1>16. ASSUME NEW s \in Subscriber, List(s) \/ Receive(s) PROVE FileShape'
    BY <1>13, <1>16 DEF List, Receive
  <1>17. ASSUME NEW s \in Subscriber, Subscribe(s) PROVE FileShape'
    BY <1>2, <1>17 DEF Subscribe, IsOpen, FileShape, fileVars, store, Free
  <1>18. ASSUME NEW s \in Subscriber, Unsubscribe(s) PROVE FileShape'
    <2>1. open' \subseteq open /\ UNCHANGED <<fileVars, store>>
      BY <1>18 DEF Unsubscribe
    <2>2. QED
      BY <2>1 DEF FileShape, fileVars, store
  <1>19. ASSUME UNCHANGED vars PROVE FileShape'
    BY <1>13, <1>19 DEF vars, readers
  <1>20. QED
    BY <1>3, <1>4, <1>5, <1>6, <1>7, <1>8, <1>9, <1>10, <1>11, <1>12, <1>14, <1>15, <1>16, <1>17,
       <1>18, <1>19 DEF Next, Return, TakeRecord

----------------------------------------------------------------------------
(* Every log is a part of what arrived. *)

\* What a replacement moves to the file or to the backup (replaceUsageFile).
LEMMA FileSources ==
    ASSUME TypeOK, FileShape, [Next]_vars
    PROVE  /\ target' \in {target, backup, records, NoFile}
           /\ backup' \in {backup, target, NoFile}
  <1> DEFINE Goal == /\ target' \in {target, backup, records, NoFile}
                     /\ backup' \in {backup, target, NoFile}
  <1>1. ASSUME UNCHANGED <<target, backup>> PROVE Goal
    BY <1>1
  <1>2. ASSUME Replace PROVE Goal
    <2>1. op \in Op /\ stage # "none" /\ fresh = records
      <3>1. op \in Op
        BY TypeForm
      <3>2. QED
        BY <1>2, <3>1 DEF FileShape, Replace, Replacing, WriteFails, RenameOver, MoveAside,
           NothingToMove, MoveAsideFails, Install, InstallFails, Protect
    <2>2. QED
      BY <1>2, <2>1 DEF Replace, Replacing, WriteFails, RenameOver, MoveAside, NothingToMove,
         MoveAsideFails, Install, InstallFails, Protect
  <1> HIDE DEF Goal
  <1>3. ASSUME Start \/ StartUnreadable \/ Stop \/ Prune PROVE Goal
    <2>1. UNCHANGED <<target, backup>>
      BY <1>3 DEF Start, StartUnreadable, Stop, Abandon, Prune, Begin, fileVars
    <2>2. QED
      BY <1>1, <2>1
  <1>4. ASSUME Return PROVE Goal
    <2>1. UNCHANGED <<target, backup>>
      BY <1>4 DEF Return, AppendReturns, AppendFails, PruneReturns, Loaded, LoadFails, Finished,
         fileVars
    <2>2. QED
      BY <1>1, <2>1
  <1>5. ASSUME NEW r \in Request, Announce(r) \/ EndRequest(r) \/ TakeRecord(r) \/ Age(r)
        PROVE  Goal
    <2>1. UNCHANGED <<target, backup>>
      BY <1>5 DEF Announce, StartRequest, StartAttempt, EndRequest, TakeRecord, AppendRecord,
         RefuseRecord, Age, Begin, fileVars
    <2>2. QED
      BY <1>1, <2>1
  <1>6. ASSUME NEW s \in Subscriber, Subscribe(s) \/ List(s) \/ Receive(s) \/ Unsubscribe(s)
        PROVE  Goal
    <2>1. UNCHANGED <<target, backup>>
      BY <1>6 DEF Subscribe, List, Receive, Unsubscribe, fileVars
    <2>2. QED
      BY <1>1, <2>1
  <1>7. ASSUME UNCHANGED vars PROVE Goal
    <2>1. UNCHANGED <<target, backup>>
      BY <1>7 DEF vars, fileVars
    <2>2. QED
      BY <1>1, <2>1
  <1>8. Goal
    BY <1>2, <1>3, <1>4, <1>5, <1>6, <1>7 DEF Next
  <1>9. QED
    BY <1>8 DEF Goal

\* What the memory holds after a step (Append, Prune, New).
LEMMA MemorySources ==
    ASSUME [Next]_vars
    PROVE  /\ previous' \in {previous, records, <<>>}
           /\ \/ records' \in {records, previous, <<>>} /\ arrivals' = arrivals
              \/ records' = Pruned(records) /\ arrivals' = arrivals
              \/ records' = Pruned(Decoded(target)) /\ arrivals' = arrivals
              \/ \E r \in Request : AppendRecord(r)
  <1> DEFINE Goal == /\ previous' \in {previous, records, <<>>}
                     /\ \/ records' \in {records, previous, <<>>} /\ arrivals' = arrivals
                        \/ records' = Pruned(records) /\ arrivals' = arrivals
                        \/ records' = Pruned(Decoded(target)) /\ arrivals' = arrivals
                        \/ \E r \in Request : AppendRecord(r)
  <1>1. ASSUME UNCHANGED <<records, previous, arrivals>> PROVE Goal
    BY <1>1
  <1>2. ASSUME Start \/ StartUnreadable \/ Stop \/ Prune PROVE Goal
    BY <1>2 DEF Start, StartUnreadable, Stop, Prune, history
  <1>3. ASSUME Return PROVE Goal
    BY <1>3 DEF Return, AppendReturns, AppendFails, PruneReturns, Loaded, LoadFails, history
  <1>4. ASSUME NEW r \in Request, AppendRecord(r) PROVE Goal
    <2>1. previous' = records
      BY <1>4 DEF AppendRecord
    <2> HIDE DEF AppendRecord
    <2>2. QED
      BY <1>4, <2>1
  <1> HIDE DEF Goal
  <1>5. ASSUME NEW r \in Request, Announce(r) \/ EndRequest(r) \/ RefuseRecord(r) \/ Age(r)
        PROVE  Goal
    <2>1. UNCHANGED <<records, previous, arrivals>>
      BY <1>5 DEF Announce, StartRequest, StartAttempt, EndRequest, RefuseRecord, Age, store,
         history
    <2>2. QED
      BY <1>1, <2>1
  <1>6. ASSUME NEW s \in Subscriber, Subscribe(s) \/ List(s) \/ Receive(s) \/ Unsubscribe(s)
        PROVE  Goal
    <2>1. UNCHANGED <<records, previous, arrivals>>
      BY <1>6 DEF Subscribe, List, Receive, Unsubscribe, store, history
    <2>2. QED
      BY <1>1, <2>1
  <1>7. ASSUME Replace \/ UNCHANGED vars PROVE Goal
    <2>1. UNCHANGED <<records, previous, arrivals>>
      BY <1>7 DEF Replace, vars, store, history
    <2>2. QED
      BY <1>1, <2>1
  <1>8. Goal
    BY <1>2, <1>3, <1>4, <1>5, <1>6, <1>7 DEF Next, TakeRecord
  <1>9. QED
    BY <1>8 DEF Goal

\* A recorded request is never handled again (progress of a request).
LEMMA RecordedStays ==
    ASSUME TypeOK, [Next]_vars, NEW q \in Request, progress[q] = "recorded"
    PROVE  progress'[q] = "recorded"
  <1> DEFINE Goal == progress'[q] = "recorded"
  <1>1. progress \in [Request -> {"new", "running", "ended", "recorded"}]
    BY TypeForm
  <1>2. ASSUME UNCHANGED progress PROVE Goal
    BY <1>2
  <1>3. ASSUME Stop PROVE Goal
    BY <1>1, <1>3 DEF Stop
  <1>4. ASSUME NEW r \in Request, Announce(r) \/ EndRequest(r) \/ TakeRecord(r) \/ Age(r)
        PROVE  Goal
    BY <1>1, <1>4 DEF Announce, StartRequest, StartAttempt, EndRequest, TakeRecord, AppendRecord,
       RefuseRecord, Age, requests
  <1> HIDE DEF Goal
  <1>5. ASSUME Start \/ StartUnreadable \/ Prune \/ Replace \/ Return PROVE Goal
    <2>1. UNCHANGED progress
      BY <1>5 DEF Start, StartUnreadable, Prune, Replace, Return, AppendReturns, AppendFails,
         PruneReturns, Loaded, LoadFails, requests
    <2>2. QED
      BY <1>2, <2>1
  <1>6. ASSUME NEW s \in Subscriber, Subscribe(s) \/ List(s) \/ Receive(s) \/ Unsubscribe(s)
        PROVE  Goal
    <2>1. UNCHANGED progress
      BY <1>6 DEF Subscribe, List, Receive, Unsubscribe, requests
    <2>2. QED
      BY <1>2, <2>1
  <1>7. ASSUME UNCHANGED vars PROVE Goal
    BY <1>2, <1>7 DEF vars, requests
  <1>8. Goal
    BY <1>3, <1>4, <1>5, <1>6, <1>7 DEF Next
  <1>9. QED
    BY <1>8 DEF Goal

\* Every log is in the order in which its records arrived.
LEMMA StepOrder == TypeOK /\ FileShape /\ OrderShape /\ [Next]_vars => OrderShape'
  <1> SUFFICES ASSUME TypeOK, FileShape, OrderShape, [Next]_vars PROVE OrderShape'
    OBVIOUS
  <1>1. /\ target \in File /\ backup \in File
        /\ records \in Seq(Request) /\ previous \in Seq(Request) /\ arrivals \in Seq(Request)
        /\ NoFile \notin Seq(Request)
    BY TypeForm, UsageAssumption
  <1>2. /\ \A log \in {target, backup, records, previous} \ {NoFile} : InOrder(log, arrivals)
        /\ \A r \in ToSet(arrivals) : progress[r] = "recorded"
        /\ TotalSize(previous) <= MaxBytes /\ TotalSize(records) <= MaxBytes
    BY TypeForm DEF OrderShape
  <1>3. arrivals' \in Seq(Request) /\ InOrder(arrivals, arrivals')
    BY ArrivalsGrow
  <1>4. <<>> \in Seq(Request) /\ InOrder(<<>>, arrivals)
    BY <1>1, InOrderTrivial
  <1>5. \A log \in {target, backup, records, previous, <<>>} \ {NoFile} :
           log \in Seq(Request) /\ InOrder(log, arrivals)
    BY <1>1, <1>2, <1>4 DEF File
  <1>6. \A log \in {target, backup, records, previous, <<>>} \ {NoFile} : InOrder(log, arrivals')
    BY <1>1, <1>3, <1>5, InOrderTransitive
  <1>7. \A log \in {target, backup}' \ {NoFile} : InOrder(log, arrivals')
    BY <1>6, FileSources
  <1>8. previous' # NoFile => InOrder(previous', arrivals')
    BY <1>6, MemorySources
  <1>9. records' # NoFile => InOrder(records', arrivals')
    <2>1. CASE records' \in {records, previous, <<>>}
      BY <1>6, <2>1
    <2>2. ASSUME arrivals' = arrivals, records' = Pruned(records) PROVE InOrder(records', arrivals')
      BY <1>1, <1>5, <2>2, PrunedState
    <2>3. ASSUME arrivals' = arrivals, records' = Pruned(Decoded(target))
          PROVE  InOrder(records', arrivals')
      <3>1. Decoded(target) \in Seq(Request) /\ InOrder(Decoded(target), arrivals)
        BY <1>4, <1>5 DEF Decoded
      <3>2. QED
        BY <2>3, <3>1, PrunedState
    <2>4. ASSUME NEW r \in Request, AppendRecord(r) PROVE InOrder(records', arrivals')
      <3>1. records' = Pruned(Append(records, r)) /\ arrivals' = Append(arrivals, r)
        BY <2>4 DEF AppendRecord
      <3>2. QED
        BY <3>1, PrunedAppend
    <2>5. QED
      BY <2>1, <2>2, <2>3, <2>4, MemorySources
  <1>10. \A q \in ToSet(arrivals') : progress'[q] = "recorded"
    <2>1. ASSUME NEW q \in ToSet(arrivals) PROVE q \in Request /\ progress'[q] = "recorded"
      <3>1. q \in Request
        BY <1>1 DEF ToSet
      <3>2. QED
        BY <1>2, <3>1, RecordedStays
    <2>2. CASE arrivals' = arrivals
      BY <2>1, <2>2
    <2>3. ASSUME NEW r \in Request, AppendRecord(r)
          PROVE  \A q \in ToSet(arrivals') : progress'[q] = "recorded"
      <3>1. /\ arrivals' = Append(arrivals, r)
            /\ progress' = [progress EXCEPT ![r] = "recorded"]
            /\ progress \in [Request -> {"new", "running", "ended", "recorded"}]
        BY <2>3, TypeForm DEF AppendRecord
      <3>2. ToSet(arrivals') = ToSet(arrivals) \cup {r}
        BY <1>1, <3>1, AppendMembers
      <3>3. progress'[r] = "recorded"
        BY <3>1
      <3>4. QED
        BY <2>1, <3>2, <3>3
    <2>4. QED
      BY <2>2, <2>3, MemorySources
  <1>11. TotalSize(previous)' <= MaxBytes
    <2>1. \A log \in {records, previous, <<>>} :
             /\ log \in Seq(Request) /\ InOrder(log, arrivals) /\ TotalSize(log) <= MaxBytes
      <3>1. TotalSize(<<>>) <= MaxBytes
        BY EmptyFits
      <3>2. \A log \in {records, previous, <<>>} : TotalSize(log) <= MaxBytes
        BY <1>2, <3>1
      <3>3. \A log \in {records, previous, <<>>} : log \in Seq(Request) /\ log # NoFile
        BY <1>1, <1>4
      <3>4. QED
        BY <1>5, <3>2, <3>3
    <2>2. previous' \in {records, previous, <<>>}
      BY MemorySources
    <2>3. SizeOfNewest(size', previous')[Len(previous')] <= MaxBytes
      BY <2>1, <2>2, StillFits
    <2>4. QED
      BY <2>3 DEF TotalSize
  <1>12. QED
    BY <1>7, <1>8, <1>9, <1>10, <1>11 DEF OrderShape

----------------------------------------------------------------------------
(* What was acknowledged is kept. *)

\* Kept, of values before a step, judged after it.
KeptNext(some, log) == \A r \in some : r \in old' \/ Crowded(r)' \/ r \in ToSet(log)

\* A record that is too old or crowded out stays so (pruneLocked).
LEMMA KeptStays ==
    ASSUME TypeOK, OrderShape, [Next]_vars, NEW some, NEW log, Kept(some, log)
    PROVE  KeptNext(some, log)
  <1>1. /\ arrivals \in Seq(Request) /\ arrivals' \in Seq(Request) /\ InOrder(arrivals, arrivals')
        /\ old \subseteq old'
        /\ \A r \in ToSet(arrivals) : size[r] = size'[r]
    BY ArrivalsGrow, TypeForm
  <1>2. size \in [Request -> Nat] /\ size' \in [Request -> Nat]
    <2>1. Size \cup {0} \subseteq Nat
      BY UsageAssumption
    <2>2. QED
      BY <2>1, ArrivalsGrow, SizesAreNat
  <1>3. ASSUME NEW r, Crowded(r) PROVE Crowded(r)'
    <2>1. Crowds(size, arrivals, r)
      BY <1>3 DEF Crowded, Crowds
    <2>2. Crowds(size', arrivals', r)
      BY <1>1, <1>2, <2>1, CrowdsStays
    <2>3. QED
      BY <2>2 DEF Crowded, Crowds
  <1>4. QED
    BY <1>1, <1>3 DEF Kept, KeptNext

\* Pruning drops only what may go.
LEMMA KeptByPruned ==
    ASSUME TypeOK, OrderShape, NEW log \in Seq(Request), InOrder(log, arrivals),
           NEW some, Kept(some, log)
    PROVE  Kept(some, Pruned(log))
  <1>1. \A r \in ToSet(log) : r \in old \/ r \in ToSet(Pruned(log)) \/ Crowded(r)
    BY PrunedState
  <1>2. QED
    BY <1>1 DEF Kept

\* ... and so does an Append, which keeps the new record for as long.
LEMMA KeptByAppend ==
    ASSUME TypeOK, OrderShape, [Next]_vars, NEW r \in Request, AppendRecord(r)
    PROVE  /\ KeptNext({r}, records')
           /\ \A some : Kept(some, records) => KeptNext(some, records')
  <1>1. /\ records' = Pruned(Append(records, r)) /\ arrivals' = Append(arrivals, r)
        /\ old' = old /\ size' = size
    BY DEF AppendRecord
  <1>2. /\ ToSet(Append(records, r)) = ToSet(records) \cup {r}
        /\ \A q \in ToSet(Append(records, r)) :
              q \in old \/ q \in ToSet(records') \/ Crowds(size, Append(arrivals, r), q)
    BY <1>1, PrunedAppend
  <1>3. \A q : Crowds(size, Append(arrivals, r), q) <=> Crowded(q)'
    BY <1>1 DEF Crowds, Crowded
  <1>4. \A q \in ToSet(records) \cup {r} : q \in old' \/ q \in ToSet(records') \/ Crowded(q)'
    BY <1>1, <1>2, <1>3
  <1>5. KeptNext({r}, records')
    BY <1>4 DEF KeptNext
  <1>6. ASSUME NEW some, Kept(some, records) PROVE KeptNext(some, records')
    <2>1. KeptNext(some, records)
      BY <1>6, KeptStays
    <2>2. QED
      BY <1>4, <2>1 DEF KeptNext
  <1>7. QED
    BY <1>5, <1>6

\* A store that is given up while its file is away is torn for good.
LEMMA TornStays ==
    ASSUME [Next]_vars, ~torn'
    PROVE  ~torn /\ (Stop \/ LoadFails => ~FileIsAway)
  <1> DEFINE Goal == ~torn /\ (Stop \/ LoadFails => ~FileIsAway)
  <1>1. ASSUME torn' = torn, ~(Stop \/ LoadFails) PROVE Goal
    BY <1>1
  <1>2. ASSUME Stop \/ LoadFails PROVE Goal
    <2>1. torn' <=> torn \/ FileIsAway
      BY <1>2, Zenon DEF Stop, LoadFails
    <2>2. QED
      BY <2>1
  <1> HIDE DEF Goal
  <1>3. ASSUME Start \/ StartUnreadable \/ Prune \/ Replace PROVE torn' = torn
    BY <1>3, Zenon DEF Start, StartUnreadable, Prune, Replace, history
  <1>4. ASSUME AppendReturns \/ AppendFails \/ PruneReturns \/ Loaded PROVE torn' = torn
    BY <1>4, Zenon DEF AppendReturns, AppendFails, PruneReturns, Loaded, history
  <1>5. ASSUME NEW r \in Request, Announce(r) \/ EndRequest(r) \/ TakeRecord(r) \/ Age(r)
        PROVE  torn' = torn
    BY <1>5, Zenon DEF Announce, StartRequest, StartAttempt, EndRequest, TakeRecord, AppendRecord,
       RefuseRecord, Age, history
  <1>6. ASSUME NEW s \in Subscriber, Subscribe(s) \/ List(s) \/ Receive(s) \/ Unsubscribe(s)
        PROVE  torn' = torn
    BY <1>6, Zenon DEF Subscribe, List, Receive, Unsubscribe, history
  <1>7. ASSUME UNCHANGED vars PROVE torn' = torn
    BY <1>7, Zenon DEF vars, history
  <1>8. (Stop \/ LoadFails) \/ torn' = torn
    BY <1>3, <1>4, <1>5, <1>6, <1>7, Zenon DEF Next, Return
  <1>9. Goal
    BY <1>1, <1>2, <1>8, Zenon
  <1>10. QED
    BY <1>9 DEF Goal

\* The parts of KeptShape after a step that does not tear the store.
KeptShapeNext ==
    /\ target' # NoFile => KeptNext(acked', target')
    /\ target' = NoFile => acked' = {} \/ durable' \/ op'.kind = "load"
    /\ stage' = "aside" => KeptNext(acked', backup')
    /\ durable' \/ op'.kind = "load" => KeptNext(acked', records')
    /\ op'.kind = "append" /\ durable' =>
          KeptNext(acked', previous') /\ KeptNext({op'.request}, records')

\* Every step keeps what was acknowledged, in the file or in the memory that is
\* about to be the file.
LEMMA StepKept == TypeOK /\ FileShape /\ OrderShape /\ KeptShape /\ [Next]_vars => KeptShape'
  <1> SUFFICES ASSUME TypeOK, FileShape, OrderShape, KeptShape, [Next]_vars, ~torn'
               PROVE  KeptShapeNext
    BY DEF KeptShape, KeptShapeNext, Kept, KeptNext, Trusted
  <1>1. /\ ~torn
        /\ target # NoFile => Kept(acked, target)
        /\ target = NoFile => acked = {} \/ durable \/ op.kind = "load"
        /\ stage = "aside" => Kept(acked, backup)
        /\ durable \/ op.kind = "load" => Kept(acked, records)
        /\ op.kind = "append" /\ durable => Kept(acked, previous) /\ Kept({op.request}, records)
    BY TornStays DEF KeptShape, Trusted
  <1>2. \A some, log : Kept(some, log) => KeptNext(some, log)
    BY KeptStays
  <1>3. /\ target \in File /\ op \in Op /\ NoFile \notin Seq(Request)
        /\ records \in Seq(Request) /\ previous \in Seq(Request)
    BY TypeForm, UsageAssumption
  <1>4. /\ op.kind \in {"none", "load", "prune", "append"}
        /\ op.kind = "none" <=> op = Free
        /\ Free.kind = "none"
    BY <1>3, OpForms DEF Free
  <1>5. \A log : KeptNext({}, log)
    BY DEF KeptNext
  <1>6. ASSUME UNCHANGED <<target, backup, stage, durable, op, records, previous, acked>>
        PROVE  KeptShapeNext
    BY <1>1, <1>2, <1>6 DEF KeptShapeNext
  <1>7. ASSUME Start PROVE KeptShapeNext
    <2>1. /\ ~up /\ acked' = acked /\ target' = target
          /\ records' = Pruned(Decoded(target))
          /\ \/ durable' = TRUE /\ op' = op /\ stage' = stage
             \/ op' = [kind |-> "load"] /\ stage' = "write"
      BY <1>7 DEF Start, Begin, fileVars, history
    <2>2. ~durable /\ op = Free /\ stage = "none"
      BY <1>4, <2>1 DEF FileShape
    <2>3. KeptNext(acked, records')
      <3>1. CASE target = NoFile
        <4>1. acked = {}
          BY <1>1, <1>4, <2>2, <3>1
        <4>2. QED
          BY <1>5, <4>1
      <3>2. CASE target # NoFile
        <4>1. Decoded(target) = target /\ target \in Seq(Request) /\ InOrder(target, arrivals)
          BY <1>3, <3>2 DEF Decoded, File, OrderShape
        <4>2. Kept(acked, Pruned(target))
          BY <1>1, <3>2, <4>1, KeptByPruned
        <4>3. QED
          BY <1>2, <2>1, <4>1, <4>2
      <3>3. QED
        BY <3>1, <3>2
    <2>4. op'.kind # "append" /\ stage' # "aside"
      BY <1>4, <2>1, <2>2
    <2>5. target' = NoFile => acked' = {}
      BY <1>1, <1>4, <2>1, <2>2
    <2>6. QED
      BY <1>1, <1>2, <2>1, <2>3, <2>4, <2>5 DEF KeptShapeNext
  <1>8. ASSUME StartUnreadable PROVE KeptShapeNext
    <2>1. ~up /\ target # NoFile /\ UNCHANGED <<target, stage, op, acked>> /\ durable' = FALSE
      BY <1>8 DEF StartUnreadable, fileVars, history
    <2>2. op = Free /\ stage = "none"
      BY <1>4, <2>1 DEF FileShape
    <2>3. QED
      BY <1>1, <1>2, <1>4, <2>1, <2>2 DEF KeptShapeNext
  <1>9. ASSUME Stop \/ LoadFails PROVE KeptShapeNext
    <2>1. target = NoFile => acked = {}
      BY <1>9, TornStays DEF FileIsAway
    <2>2. /\ target' = target /\ acked' = acked /\ op' = Free /\ stage' = "none"
      BY <1>9 DEF Stop, LoadFails, Finished, Abandon
    <2>3. durable' = FALSE
      BY <1>9 DEF Stop, LoadFails, FileShape
    <2>4. QED
      BY <1>1, <1>2, <1>4, <2>1, <2>2, <2>3 DEF KeptShapeNext
  <1>10. ASSUME Prune PROVE KeptShapeNext
    <2>1. /\ op = Free /\ records' = Pruned(records)
          /\ UNCHANGED <<target, durable, acked>>
          /\ \/ op' = [kind |-> "prune"] /\ stage' = "write"
             \/ op' = op /\ stage' = stage
      BY <1>10 DEF Prune, Begin, fileVars, history
    <2>2. stage = "none"
      BY <2>1 DEF FileShape
    <2>3. op'.kind \in {"none", "prune"} /\ stage' # "aside" /\ op.kind = "none"
      BY <1>4, <2>1, <2>2
    <2>4. durable => KeptNext(acked, records')
      <3>1. InOrder(records, arrivals)
        BY <1>3 DEF OrderShape
      <3>2. QED
        BY <1>1, <1>2, <1>3, <2>1, <3>1, KeptByPruned
    <2>5. QED
      BY <1>1, <1>2, <2>1, <2>3, <2>4 DEF KeptShapeNext
  <1>11. ASSUME Replace PROVE KeptShapeNext
    <2>1. op # Free /\ UNCHANGED <<durable, op, records, previous, acked>>
      BY <1>11 DEF Replace, store, history
    <2>2. stage # "none" /\ fresh = records
      BY <1>3, <1>11 DEF FileShape, Replace, Replacing, WriteFails, RenameOver, MoveAside,
         NothingToMove, MoveAsideFails, Install, InstallFails, Protect
    <2>3. durable \/ op.kind = "load"
      BY <1>4, <2>1, <2>2 DEF FileShape
    <2>4. \/ target' = target /\ stage' # "aside"
          \/ target' = records /\ stage' # "aside"
          \/ target' = NoFile /\ backup' = target /\ target # NoFile
          \/ target' = backup /\ stage = "aside" /\ stage' # "aside"
      BY <1>11, <2>2 DEF Replace, Replacing, WriteFails, RenameOver, MoveAside, NothingToMove,
         MoveAsideFails, Install, InstallFails, Protect
    <2>5. target' # NoFile => KeptNext(acked, target')
      BY <1>1, <1>2, <2>3, <2>4
    <2>6. stage' = "aside" => KeptNext(acked, backup')
      BY <1>1, <1>2, <2>4
    <2>7. QED
      BY <1>1, <1>2, <2>1, <2>3, <2>5, <2>6 DEF KeptShapeNext
  <1>12. ASSUME AppendReturns PROVE KeptShapeNext
    <2>1. /\ op.kind = "append" /\ op' = Free
          /\ UNCHANGED <<target, durable, records>>
          /\ durable => stage = "saved" /\ acked' = acked \cup {op.request}
          /\ ~durable => acked' = acked /\ stage' = stage
          /\ durable => stage' = "none"
      BY <1>12 DEF AppendReturns, Finished, fileVars
    <2>2. ASSUME durable PROVE KeptShapeNext
      <3>1. target = records /\ target # NoFile
        BY <1>3, <2>1, <2>2 DEF FileShape
      <3>2. KeptNext(acked, records) /\ KeptNext({op.request}, records)
        BY <1>1, <1>2, <2>1, <2>2
      <3>3. KeptNext(acked', records)
        BY <2>1, <2>2, <3>2 DEF KeptNext
      <3>4. QED
        BY <1>4, <2>1, <2>2, <3>1, <3>3 DEF KeptShapeNext
    <2>3. ASSUME ~durable PROVE KeptShapeNext
      <3>1. stage = "none"
        BY <1>4, <2>1, <2>3 DEF FileShape
      <3>2. QED
        BY <1>1, <1>2, <1>4, <2>1, <2>3, <3>1 DEF KeptShapeNext
    <2>4. QED
      BY <2>2, <2>3
  <1>13. ASSUME AppendFails PROVE KeptShapeNext
    <2>1. /\ op.kind = "append" /\ stage = "failed" /\ op' = Free /\ records' = previous
          /\ stage' = "none" /\ UNCHANGED <<target, durable, acked>>
      BY <1>13 DEF AppendFails, Finished
    <2>2. durable
      BY <1>4, <2>1 DEF FileShape
    <2>3. QED
      BY <1>1, <1>2, <1>4, <2>1, <2>2 DEF KeptShapeNext
  <1>14. ASSUME PruneReturns \/ Loaded PROVE KeptShapeNext
    <2>1. /\ op' = Free /\ stage' = "none" /\ durable' = TRUE
          /\ UNCHANGED <<target, records, acked>>
      BY <1>14 DEF PruneReturns, Loaded, Finished, FileShape, history
    <2>2. durable \/ op.kind = "load"
      BY <1>14 DEF PruneReturns, Loaded, FileShape
    <2>3. QED
      BY <1>1, <1>2, <1>4, <2>1, <2>2 DEF KeptShapeNext
  <1>15. ASSUME NEW r \in Request, AppendRecord(r) PROVE KeptShapeNext
    <2>1. /\ op = Free /\ op' = [kind |-> "append", request |-> r] /\ previous' = records
          /\ UNCHANGED <<target, durable, acked>>
          /\ stage' \in {"write", stage}
      BY <1>15 DEF AppendRecord, Begin, fileVars
    <2>2. stage = "none" /\ op.kind = "none"
      BY <1>4, <2>1 DEF FileShape
    <2>3. KeptNext({r}, records') /\ (durable => KeptNext(acked, records'))
      BY <1>1, <1>15, KeptByAppend
    <2>4. durable => KeptNext(acked, previous')
      BY <1>1, <1>2, <2>1
    <2>5. op'.kind = "append" /\ op'.request = r /\ stage' # "aside"
      BY <2>1, <2>2
    <2>6. QED
      BY <1>1, <1>2, <2>1, <2>2, <2>3, <2>4, <2>5 DEF KeptShapeNext
  <1> HIDE DEF KeptShapeNext
  <1>16. ASSUME NEW r \in Request, Announce(r) \/ EndRequest(r) \/ RefuseRecord(r) \/ Age(r)
         PROVE  KeptShapeNext
    BY <1>6, <1>16 DEF Announce, StartRequest, StartAttempt, EndRequest, RefuseRecord, Age,
       fileVars, store, history
  <1>17. ASSUME NEW s \in Subscriber, Subscribe(s) \/ List(s) \/ Receive(s) \/ Unsubscribe(s)
         PROVE  KeptShapeNext
    BY <1>6, <1>17 DEF Subscribe, List, Receive, Unsubscribe, fileVars, store, history
  <1>18. ASSUME UNCHANGED vars PROVE KeptShapeNext
    BY <1>6, <1>18 DEF vars, fileVars, store, history
  <1>19. QED
    BY <1>7, <1>8, <1>9, <1>10, <1>11, <1>12, <1>13, <1>14, <1>15, <1>16, <1>17, <1>18
       DEF Next, Return, TakeRecord

----------------------------------------------------------------------------
(* What is in the file was announced. *)

\* What a file may have: acknowledged, perhaps written, or being written.
KnownSet == acked \cup unsure \cup (IF durable THEN Appending ELSE {})

\* KnownShape, one log at a time.
LEMMA KnownForm ==
    KnownShape <=>
    /\ target # NoFile => ToSet(target) \subseteq KnownSet
    /\ backup # NoFile => ToSet(backup) \subseteq KnownSet
    /\ durable \/ op.kind = "load" => ToSet(records) \subseteq KnownSet
    /\ durable => ToSet(previous) \subseteq acked \cup unsure
  BY DEF KnownShape, KnownSet, Trusted

\* A record in a file, or in a memory that has one, is one whose Append
\* succeeded, is under way, or failed after it may have reached the file.
LEMMA StepKnown == TypeOK /\ FileShape /\ OrderShape /\ KnownShape /\ [Next]_vars => KnownShape'
  <1> DEFINE Known2 == KnownSet'
             Goal == /\ target' # NoFile => ToSet(target') \subseteq Known2
                     /\ backup' # NoFile => ToSet(backup') \subseteq Known2
                     /\ durable' \/ op'.kind = "load" => ToSet(records') \subseteq Known2
                     /\ durable' => ToSet(previous') \subseteq acked' \cup unsure'
  <1> SUFFICES ASSUME TypeOK, FileShape, OrderShape, KnownShape, [Next]_vars PROVE Goal
    BY DEF KnownShape, KnownSet, Trusted
  <1>1. /\ target # NoFile => ToSet(target) \subseteq KnownSet
        /\ backup # NoFile => ToSet(backup) \subseteq KnownSet
        /\ durable \/ op.kind = "load" => ToSet(records) \subseteq KnownSet
        /\ durable => ToSet(previous) \subseteq acked \cup unsure
    BY KnownForm
  <1>2. /\ target \in File /\ op \in Op /\ NoFile \notin Seq(Request)
        /\ records \in Seq(Request) /\ previous \in Seq(Request)
    BY TypeForm, UsageAssumption
  <1>3. /\ op.kind \in {"none", "load", "prune", "append"}
        /\ op.kind = "none" <=> op = Free
        /\ Free.kind = "none"
    BY <1>2, OpForms DEF Free
  <1>4. ToSet(<<>>) = {}
    BY DEF ToSet
  <1>5. /\ op.kind # "append" => KnownSet = acked \cup unsure
        /\ ~durable => KnownSet = acked \cup unsure
        /\ op.kind = "append" /\ durable => KnownSet = acked \cup unsure \cup {op.request}
    BY DEF KnownSet, Appending
  <1>6. /\ op'.kind # "append" => Known2 = acked' \cup unsure'
        /\ ~durable' => Known2 = acked' \cup unsure'
        /\ op'.kind = "append" /\ durable' => Known2 = acked' \cup unsure' \cup {op'.request}
    BY DEF KnownSet, Appending
  <1>7. ASSUME UNCHANGED <<target, backup, durable, op, records, previous, acked, unsure>>
        PROVE  Goal
    BY <1>1, <1>7 DEF KnownSet, Appending
  <1> HIDE DEF Known2
  <1>8. ASSUME Start PROVE Goal
    <2>1. /\ ~up /\ UNCHANGED <<target, backup, acked, unsure, previous>>
          /\ records' = Pruned(Decoded(target))
          /\ op' = op \/ op' = [kind |-> "load"]
      BY <1>8 DEF Start, Begin, fileVars, history
    <2>2. ~durable /\ op = Free /\ previous = <<>>
      BY <1>3, <2>1 DEF FileShape
    <2>3. KnownSet = acked \cup unsure /\ Known2 = KnownSet
      <3>1. op.kind = "none" /\ op'.kind \in {"none", "load"}
        BY <1>3, <2>1, <2>2
      <3>2. QED
        BY <1>5, <1>6, <2>1, <3>1
    <2>4. ToSet(records') \subseteq KnownSet
      <3>1. CASE target = NoFile
        <4>1. ToSet(Pruned(<<>>)) \subseteq ToSet(<<>>)
          <5>1. <<>> \in Seq(Request) /\ InOrder(<<>>, arrivals)
            BY InOrderTrivial, TypeForm
          <5>2. QED
            BY <5>1, PrunedState
        <4>2. QED
          BY <1>4, <2>1, <3>1, <4>1 DEF Decoded
      <3>2. CASE target # NoFile
        <4>1. Decoded(target) = target /\ target \in Seq(Request) /\ InOrder(target, arrivals)
          BY <1>2, <3>2 DEF Decoded, File, OrderShape
        <4>2. ToSet(Pruned(target)) \subseteq ToSet(target)
          BY <4>1, PrunedState
        <4>3. QED
          BY <1>1, <2>1, <3>2, <4>1, <4>2
      <3>3. QED
        BY <3>1, <3>2
    <2>5. QED
      BY <1>1, <1>4, <2>1, <2>2, <2>3, <2>4
  <1>9. ASSUME StartUnreadable PROVE Goal
    <2>1. ~up /\ UNCHANGED <<target, backup, op, acked, unsure>> /\ durable' = FALSE
      BY <1>9 DEF StartUnreadable, fileVars, history
    <2>2. op = Free /\ Known2 = KnownSet
      BY <1>3, <1>5, <1>6, <2>1 DEF FileShape
    <2>3. QED
      BY <1>1, <1>3, <2>1, <2>2
  <1>10. ASSUME Stop PROVE Goal
    <2>1. /\ UNCHANGED <<target, backup, acked>> /\ op' = Free /\ durable' = FALSE
          /\ op.kind = "append" => unsure' = unsure \cup {op.request}
          /\ op.kind # "append" => unsure' = unsure
      BY <1>10 DEF Stop, Abandon
    <2>2. KnownSet \subseteq Known2
      BY <1>5, <1>6, <2>1
    <2>3. QED
      BY <1>1, <1>3, <2>1, <2>2
  <1>11. ASSUME Prune PROVE Goal
    <2>1. /\ op = Free /\ records' = Pruned(records)
          /\ UNCHANGED <<target, backup, durable, previous, acked, unsure>>
          /\ op' = [kind |-> "prune"] \/ op' = op
      BY <1>11 DEF Prune, Begin, fileVars, history
    <2>2. Known2 = KnownSet /\ op.kind = "none" /\ op'.kind \in {"none", "prune"}
      BY <1>3, <1>5, <1>6, <2>1
    <2>3. ToSet(records') \subseteq ToSet(records)
      <3>1. InOrder(records, arrivals)
        BY <1>2 DEF OrderShape
      <3>2. QED
        BY <1>2, <2>1, <3>1, PrunedState
    <2>4. QED
      BY <1>1, <2>1, <2>2, <2>3
  <1>12. ASSUME Replace PROVE Goal
    <2>1. op # Free /\ UNCHANGED <<durable, op, records, previous, acked, unsure>>
      BY <1>12 DEF Replace, store, history
    <2>2. stage # "none"
      BY <1>2, <1>12 DEF FileShape, Replace, Replacing, WriteFails, RenameOver, MoveAside,
         NothingToMove, MoveAsideFails, Install, InstallFails, Protect
    <2>3. durable \/ op.kind = "load"
      BY <1>3, <2>1, <2>2 DEF FileShape
    <2>4. target' \in {target, backup, records, NoFile} /\ backup' \in {backup, target, NoFile}
      BY FileSources
    <2>5. Known2 = KnownSet
      BY <2>1 DEF Known2, KnownSet, Appending
    <2>6. QED
      BY <1>1, <2>1, <2>3, <2>4, <2>5
  <1>13. ASSUME AppendReturns PROVE Goal
    <2>1. /\ op.kind = "append" /\ op' = Free /\ previous' = <<>>
          /\ UNCHANGED <<target, backup, durable, records, unsure>>
          /\ durable => acked' = acked \cup {op.request}
          /\ ~durable => acked' = acked
      BY <1>13 DEF AppendReturns, Finished, fileVars
    <2>2. Known2 = KnownSet
      BY <1>3, <1>5, <1>6, <2>1
    <2>3. QED
      BY <1>1, <1>3, <1>4, <2>1, <2>2
  <1>14. ASSUME AppendFails PROVE Goal
    <2>1. /\ op.kind = "append" /\ stage = "failed" /\ op' = Free /\ records' = previous
          /\ previous' = <<>> /\ unsure' = unsure \cup {op.request}
          /\ UNCHANGED <<target, backup, durable, acked>>
      BY <1>14 DEF AppendFails, Finished
    <2>2. durable
      BY <1>3, <2>1 DEF FileShape
    <2>3. Known2 = KnownSet
      BY <1>3, <1>5, <1>6, <2>1, <2>2
    <2>4. QED
      BY <1>1, <1>4, <1>5, <2>1, <2>2, <2>3
  <1>15. ASSUME PruneReturns \/ Loaded PROVE Goal
    <2>1. /\ op.kind # "append" /\ op' = Free /\ durable' = TRUE
          /\ UNCHANGED <<target, backup, records, previous, acked, unsure>>
      BY <1>15 DEF PruneReturns, Loaded, Finished, FileShape, history
    <2>2. durable \/ op.kind = "load"
      BY <1>15 DEF PruneReturns, Loaded, FileShape
    <2>3. Known2 = KnownSet /\ previous = <<>>
      BY <1>3, <1>5, <1>6, <2>1 DEF FileShape
    <2>4. QED
      BY <1>1, <1>4, <2>1, <2>2, <2>3
  <1>16. ASSUME LoadFails PROVE Goal
    <2>1. /\ op.kind = "load" /\ op' = Free /\ ~durable
          /\ UNCHANGED <<target, backup, durable, acked, unsure>>
      BY <1>16 DEF LoadFails, Finished, FileShape
    <2>2. Known2 = KnownSet
      BY <1>3, <1>5, <1>6, <2>1
    <2>3. QED
      BY <1>1, <1>3, <2>1, <2>2
  <1>17. ASSUME NEW r \in Request, AppendRecord(r) PROVE Goal
    <2>1. /\ op = Free /\ op' = [kind |-> "append", request |-> r] /\ previous' = records
          /\ records' = Pruned(Append(records, r))
          /\ UNCHANGED <<target, backup, durable, acked, unsure>>
      BY <1>17 DEF AppendRecord, Begin, fileVars
    <2>2. ToSet(records') \subseteq ToSet(records) \cup {r}
      BY <2>1, PrunedAppend
    <2>3. KnownSet = acked \cup unsure /\ op.kind = "none" /\ op'.kind = "append"
      BY <1>3, <1>5, <2>1
    <2>4. KnownSet \subseteq Known2 /\ (durable => Known2 = KnownSet \cup {r})
      BY <1>6, <2>1, <2>3
    <2>5. QED
      BY <1>1, <2>1, <2>2, <2>3, <2>4
  <1> HIDE DEF Goal
  <1>18. ASSUME NEW r \in Request, Announce(r) \/ EndRequest(r) \/ RefuseRecord(r) \/ Age(r)
         PROVE  Goal
    BY <1>7, <1>18 DEF Announce, StartRequest, StartAttempt, EndRequest, RefuseRecord, Age,
       fileVars, store, history
  <1>19. ASSUME NEW s \in Subscriber, Subscribe(s) \/ List(s) \/ Receive(s) \/ Unsubscribe(s)
         PROVE  Goal
    BY <1>7, <1>19 DEF Subscribe, List, Receive, Unsubscribe, fileVars, store, history
  <1>20. ASSUME UNCHANGED vars PROVE Goal
    BY <1>7, <1>20 DEF vars, fileVars, store, history
  <1>21. QED
    BY <1>8, <1>9, <1>10, <1>11, <1>12, <1>13, <1>14, <1>15, <1>16, <1>17, <1>18, <1>19, <1>20
       DEF Next, Return, TakeRecord

----------------------------------------------------------------------------
(* What subscribers are told. *)

\* The requests that a queue announces as completed.
Announced(q) == {e.request : e \in {x \in ToSet(q) : x.kind = "completed"}}

\* Of which request an event tells that its record was kept.
TellsOf(e) == IF e.kind = "completed" THEN {e.request} ELSE {}

\* What a subscriber knows, and what its queue tells it.
LEMMA ToldForm == \A s : Told(s) = view[s] \cup Announced(queue[s])
  BY DEF Told, Announced

\* An event at the end of a queue tells of its request.
LEMMA AnnouncedMore ==
    ASSUME NEW q \in Seq(Event), NEW e \in Event
    PROVE  Announced(Append(q, e)) = Announced(q) \cup TellsOf(e)
  <1>1. ToSet(Append(q, e)) = ToSet(q) \cup {e}
    BY AppendMembers
  <1>2. QED
    BY <1>1 DEF Announced, TellsOf

\* So does the one at the head of a queue.
LEMMA AnnouncedLess ==
    ASSUME NEW q \in Seq(Event), q # <<>>
    PROVE  Announced(q) = Announced(Tail(q)) \cup TellsOf(Head(q))
  <1>1. /\ Len(q) \in Nat /\ Len(q) > 0 /\ DOMAIN q = 1..Len(q) /\ Head(q) = q[1]
        /\ Tail(q) \in Seq(Event) /\ Len(Tail(q)) = Len(q) - 1
        /\ \A i \in 1..Len(Tail(q)) : Tail(q)[i] = q[i + 1]
    BY HeadTailProperties, EmptySeq
  <1>2. DOMAIN Tail(q) = 1..Len(Tail(q))
    BY <1>1
  <1>3. ToSet(q) = ToSet(Tail(q)) \cup {Head(q)}
    <2>1. ASSUME NEW e \in ToSet(q) PROVE e \in ToSet(Tail(q)) \cup {Head(q)}
      <3>1. PICK i \in 1..Len(q) : e = q[i]
        BY <1>1 DEF ToSet
      <3>2. CASE i = 1
        BY <1>1, <3>1, <3>2
      <3>3. CASE i # 1
        <4>1. i - 1 \in 1..Len(Tail(q)) /\ i - 1 + 1 = i
          BY <1>1, <3>3
        <4>2. e = Tail(q)[i - 1]
          BY <1>1, <3>1, <4>1
        <4>3. QED
          BY <1>2, <4>1, <4>2 DEF ToSet
      <3>4. QED
        BY <3>2, <3>3
    <2>2. ASSUME NEW e \in ToSet(Tail(q)) PROVE e \in ToSet(q)
      <3>1. PICK i \in 1..Len(Tail(q)) : e = Tail(q)[i]
        BY <1>2 DEF ToSet
      <3>2. i + 1 \in 1..Len(q) /\ e = q[i + 1]
        BY <1>1, <3>1
      <3>3. QED
        BY <1>1, <3>2 DEF ToSet
    <2>3. Head(q) \in ToSet(q)
      <3>1. 1 \in 1..Len(q)
        BY <1>1
      <3>2. QED
        BY <1>1, <3>1 DEF ToSet
    <2>4. QED
      BY <2>1, <2>2, <2>3
  <1>4. QED
    BY <1>3 DEF Announced, TellsOf

\* An empty queue tells nothing.
LEMMA AnnouncedNothing == Announced(<<>>) = {}
  BY DEF Announced, ToSet

\* Who follows on is told of the event; nobody is told of anything else.
LEMMA PublishTells ==
    ASSUME TypeOK, NEW e \in Event, Publish(e)
    PROVE  /\ open' = open /\ follows' \subseteq follows
           /\ \A s \in follows' : Told(s)' = Told(s) \cup TellsOf(e)
           /\ \A s \in open : Told(s)' \subseteq Told(s) \cup TellsOf(e)
           /\ \A s \in Subscriber \ open : queue'[s] = queue[s] /\ view'[s] \in {view[s], {}}
  <1>1. /\ queue' = [s \in Subscriber |->
                       IF s \in {x \in open : HasRoom(x)} THEN Append(queue[s], e) ELSE queue[s]]
        /\ follows' = {s \in follows : HasRoom(s)}
        /\ view' = [s \in Subscriber |-> IF s \in follows' THEN view[s] ELSE {}]
        /\ open' = open
    BY DEF Publish, Delivered
  <1>2. /\ open \subseteq Subscriber /\ follows \subseteq open
        /\ \A s \in Subscriber : queue[s] \in Seq(Event)
    BY TypeForm
  <1>3. ASSUME NEW s \in Subscriber
        PROVE  /\ Told(s) = view[s] \cup Announced(queue[s])
               /\ Told(s)' = view'[s] \cup Announced(queue'[s])
    BY DEF Told, Announced
  <1>4. ASSUME NEW s \in follows' PROVE Told(s)' = Told(s) \cup TellsOf(e)
    <2>1. s \in Subscriber /\ s \in open /\ HasRoom(s)
      BY <1>1, <1>2
    <2>2. queue'[s] = Append(queue[s], e) /\ view'[s] = view[s]
      BY <1>1, <2>1
    <2>3. Announced(queue'[s]) = Announced(queue[s]) \cup TellsOf(e)
      BY <1>2, <2>1, <2>2, AnnouncedMore
    <2>4. QED
      BY <1>3, <2>1, <2>2, <2>3
  <1>5. ASSUME NEW s \in open PROVE Told(s)' \subseteq Told(s) \cup TellsOf(e)
    <2>1. s \in Subscriber
      BY <1>2
    <2>2. queue'[s] \in {Append(queue[s], e), queue[s]} /\ view'[s] \in {view[s], {}}
      BY <1>1, <2>1
    <2>3. Announced(queue'[s]) \subseteq Announced(queue[s]) \cup TellsOf(e)
      BY <1>2, <2>1, <2>2, AnnouncedMore
    <2>4. QED
      BY <1>3, <2>1, <2>2, <2>3
  <1>6. \A s \in Subscriber \ open : queue'[s] = queue[s] /\ view'[s] \in {view[s], {}}
    BY <1>1
  <1>7. QED
    BY <1>1, <1>4, <1>5, <1>6

\* An event that is read is known to a follower and forgotten by the others.
LEMMA ReceiveTells ==
    ASSUME TypeOK, NEW s \in Subscriber, Receive(s)
    PROVE  /\ s \in follows => Told(s)' = Told(s)
           /\ Told(s)' \subseteq Told(s)
           /\ \A x \in Subscriber : x # s => Told(x)' = Told(x)
           /\ \A x \in Subscriber \ open : queue'[x] = queue[x] /\ view'[x] = view[x]
  <1>1. /\ s \in open /\ queue[s] # <<>> /\ queue' = [queue EXCEPT ![s] = Tail(queue[s])]
        /\ IF s \in follows /\ Head(queue[s]).kind = "completed"
           THEN view' = [view EXCEPT ![s] = view[s] \cup {Head(queue[s]).request}]
           ELSE view' = view
    BY DEF Receive
  <1>2. ASSUME NEW x \in Subscriber
        PROVE  /\ Told(x) = view[x] \cup Announced(queue[x])
               /\ Told(x)' = view'[x] \cup Announced(queue'[x])
    BY DEF Told, Announced
  <1>3. view \in [Subscriber -> SUBSET Request] /\ queue[s] \in Seq(Event)
    BY TypeForm
  <1>4. ASSUME NEW x \in Subscriber, x # s PROVE queue'[x] = queue[x] /\ view'[x] = view[x]
    <2>1. x \in DOMAIN view' /\ view'[x] = view[x]
      BY <1>1, <1>3, <1>4
    <2>2. queue'[x] = queue[x]
      <3>1. x \in DOMAIN queue
        BY DEF TypeOK
      <3>2. QED
        BY <1>1, <1>4, <3>1
    <2>3. QED
      BY <2>1, <2>2
  <1>5. queue'[s] = Tail(queue[s])
    <2>1. s \in DOMAIN queue
      BY DEF TypeOK
    <2>2. QED
      BY <1>1, <2>1
  <1>6. Announced(queue[s]) = Announced(queue'[s]) \cup TellsOf(Head(queue[s]))
    BY <1>1, <1>3, <1>5, AnnouncedLess
  <1>7. view'[s] = IF s \in follows THEN view[s] \cup TellsOf(Head(queue[s])) ELSE view[s]
    BY <1>1, <1>3 DEF TellsOf
  <1>8. (s \in follows => Told(s)' = Told(s)) /\ Told(s)' \subseteq Told(s)
    BY <1>2, <1>6, <1>7
  <1>9. QED
    BY <1>1, <1>2, <1>4, <1>8

\* A subscriber that follows on knows the log, but for the record whose Append
\* is under way; none is told of what was not announced.
LEMMA StepFollow ==
    TypeOK /\ FileShape /\ OrderShape /\ KnownShape /\ FollowShape /\ [Next]_vars => FollowShape'
  <1> SUFFICES ASSUME TypeOK, FileShape, OrderShape, KnownShape, FollowShape, [Next]_vars
               PROVE  FollowShape'
    OBVIOUS
  <1> DEFINE Pending2 == Appending'
             Told2(s) == Told(s)'
             Goal == /\ \A s \in Subscriber \ open' : queue'[s] = <<>> /\ view'[s] = {}
                     /\ \A s \in open' : durable' => Told2(s) \subseteq acked' \cup unsure'
                     /\ \A s \in follows' :
                           /\ ToSet(records') \subseteq Told2(s) \cup Pending2
                           /\ ToSet(previous') \subseteq Told2(s)
  <1>1. /\ \A s \in Subscriber \ open : queue[s] = <<>> /\ view[s] = {}
        /\ \A s \in open : durable => Told(s) \subseteq acked \cup unsure
        /\ \A s \in follows :
              /\ ToSet(records) \subseteq Told(s) \cup Appending
              /\ ToSet(previous) \subseteq Told(s)
    BY DEF FollowShape
  <1>2. /\ op \in Op /\ records \in Seq(Request) /\ NoFile \notin Seq(Request)
        /\ open \subseteq Subscriber /\ follows \subseteq open
    BY TypeForm, UsageAssumption
  <1>3. /\ op.kind \in {"none", "load", "prune", "append"}
        /\ op.kind = "none" <=> op = Free
        /\ op.kind = "append" => op.request \in Request
        /\ Free.kind = "none"
    BY <1>2, OpForms DEF Free
  <1>4. ToSet(<<>>) = {}
    BY DEF ToSet
  <1>5. /\ Appending = IF op.kind = "append" THEN {op.request} ELSE {}
        /\ Pending2 = IF op'.kind = "append" THEN {op'.request} ELSE {}
    BY DEF Appending
  <1>6. ASSUME UNCHANGED <<open, queue, view, follows>>,
               acked \cup unsure \subseteq acked' \cup unsure',
               durable' => durable \/ open = {},
               \A s \in follows : /\ ToSet(records') \subseteq Told(s) \cup Pending2
                                  /\ ToSet(previous') \subseteq Told(s)
        PROVE  Goal
    <2>1. \A s : Told2(s) = Told(s)
      BY <1>6 DEF Told
    <2> HIDE DEF Told2, Pending2
    <2>2. QED
      BY <1>1, <1>6, <2>1
  <1>7. ASSUME UNCHANGED <<open, queue, view, follows, acked, unsure>>,
               UNCHANGED <<durable, records, previous, op>>
        PROVE  Goal
    <2>1. Pending2 = Appending
      BY <1>7 DEF Appending
    <2> HIDE DEF Pending2, Goal
    <2>2. QED
      BY <1>1, <1>6, <1>7, <2>1
  <1> HIDE DEF Pending2, Told2
  <1>8. ASSUME Start \/ StartUnreadable \/ Loaded \/ LoadFails PROVE Goal
    <2>1. open = {} /\ follows = {}
      BY <1>2, <1>8 DEF Start, StartUnreadable, Loaded, LoadFails, FileShape
    <2>2. UNCHANGED <<open, queue, view, follows, acked, unsure>>
      BY <1>8 DEF Start, StartUnreadable, Loaded, LoadFails, readers, history
    <2> HIDE DEF Goal
    <2>3. QED
      BY <1>6, <2>1, <2>2
  <1>9. ASSUME Stop PROVE Goal
    BY <1>9 DEF Stop
  <1>10. ASSUME Prune PROVE Goal
    <2>1. /\ op = Free /\ records' = Pruned(records)
          /\ UNCHANGED <<open, queue, view, follows, acked, unsure, durable, previous>>
          /\ op' = [kind |-> "prune"] \/ op' = op
      BY <1>10 DEF Prune, readers, history
    <2>2. Appending = {} /\ Pending2 = {}
      <3>1. op.kind = "none" /\ op'.kind \in {"none", "prune"}
        BY <1>3, <2>1
      <3>2. QED
        BY <1>5, <3>1
    <2>3. ToSet(records') \subseteq ToSet(records)
      <3>1. InOrder(records, arrivals)
        BY <1>2 DEF OrderShape
      <3>2. QED
        BY <1>2, <2>1, <3>1, PrunedState
    <2> HIDE DEF Goal
    <2>4. QED
      BY <1>1, <1>6, <2>1, <2>2, <2>3
  <1>11. ASSUME AppendFails PROVE Goal
    <2>1. /\ records' = previous /\ previous' = <<>> /\ unsure \subseteq unsure'
          /\ UNCHANGED <<open, queue, view, follows, acked, durable>>
      BY <1>11 DEF AppendFails, readers
    <2> HIDE DEF Goal
    <2>2. QED
      BY <1>1, <1>4, <1>6, <2>1
  <1>12. ASSUME PruneReturns PROVE Goal
    <2>1. /\ op.kind = "prune"
          /\ UNCHANGED <<open, queue, view, follows, acked, unsure, durable, records, previous>>
      BY <1>12 DEF PruneReturns, readers, history
    <2>2. Appending = {}
      BY <1>5, <2>1
    <2> HIDE DEF Goal
    <2>3. QED
      BY <1>1, <1>6, <2>1, <2>2
  <1>13. ASSUME NEW r \in Request, AppendRecord(r) PROVE Goal
    <2>1. /\ op = Free /\ op' = [kind |-> "append", request |-> r] /\ previous' = records
          /\ records' = Pruned(Append(records, r))
          /\ UNCHANGED <<open, queue, view, follows, acked, unsure, durable>>
      BY <1>13 DEF AppendRecord, readers
    <2>2. ToSet(records') \subseteq ToSet(records) \cup {r}
      BY <2>1, PrunedAppend
    <2>3. Appending = {} /\ Pending2 = {r}
      <3>1. op.kind = "none" /\ op'.kind = "append" /\ op'.request = r
        BY <1>3, <2>1
      <3>2. QED
        BY <1>5, <3>1
    <2> HIDE DEF Goal
    <2>4. QED
      BY <1>1, <1>6, <2>1, <2>2, <2>3
  <1>14. ASSUME AppendReturns PROVE Goal
    <2> DEFINE e == [kind |-> "completed", request |-> op.request]
    <2>1. /\ op.kind = "append" /\ op' = Free /\ previous' = <<>> /\ Publish(e)
          /\ UNCHANGED <<durable, records, unsure>>
          /\ durable => acked' = acked \cup {op.request}
      BY <1>14 DEF AppendReturns
    <2>2. e \in Event /\ TellsOf(e) = {op.request}
      BY <1>3, <2>1 DEF Event, TellsOf
    <2>3. Appending = {op.request}
      BY <1>5, <2>1
    <2> HIDE DEF e
    <2>4. /\ open' = open /\ follows' \subseteq follows
          /\ \A s \in follows' : Told2(s) = Told(s) \cup {op.request}
          /\ \A s \in open : Told2(s) \subseteq Told(s) \cup {op.request}
          /\ \A s \in Subscriber \ open : queue'[s] = queue[s] /\ view'[s] \in {view[s], {}}
      BY <2>1, <2>2, PublishTells DEF Told2
    <2>5. QED
      BY <1>1, <1>4, <2>1, <2>3, <2>4
  <1>15. ASSUME NEW r \in Request, Announce(r) PROVE Goal
    <2> DEFINE e == [kind |-> "started", request |-> r]
    <2>1. Publish(e) /\ UNCHANGED <<durable, records, previous, acked, unsure, op>>
      BY <1>15 DEF Announce, StartRequest, StartAttempt, store, history
    <2>2. e \in Event /\ TellsOf(e) = {}
      BY DEF Event, TellsOf
    <2>3. Pending2 = Appending
      BY <1>5, <2>1
    <2> HIDE DEF e
    <2>4. /\ open' = open /\ follows' \subseteq follows
          /\ \A s \in follows' : Told2(s) = Told(s)
          /\ \A s \in open : Told2(s) \subseteq Told(s)
          /\ \A s \in Subscriber \ open : queue'[s] = queue[s] /\ view'[s] \in {view[s], {}}
      BY <2>1, <2>2, PublishTells DEF Told2
    <2>5. QED
      BY <1>1, <2>1, <2>3, <2>4
  <1>16. ASSUME NEW s \in Subscriber, Subscribe(s) PROVE Goal
    <2>1. /\ s \notin open /\ open' = open \cup {s}
          /\ UNCHANGED <<queue, view, follows, durable, records, previous, acked, unsure, op>>
      BY <1>16 DEF Subscribe, store, history
    <2>2. \A x : Told2(x) = Told(x)
      BY <2>1 DEF Told, Told2
    <2>3. Told(s) = {}
      BY <1>1, <2>1, AnnouncedNothing, ToldForm
    <2>4. Pending2 = Appending
      BY <1>5, <2>1
    <2>5. QED
      BY <1>1, <2>1, <2>2, <2>3, <2>4
  <1>17. ASSUME NEW s \in Subscriber, List(s) PROVE Goal
    <2>1. /\ op = Free /\ s \in open /\ follows' = follows \cup {s}
          /\ view' = [view EXCEPT ![s] = ToSet(records)]
          /\ UNCHANGED <<open, queue, durable, records, previous, acked, unsure, op>>
      BY <1>17 DEF List, store, history
    <2>2. Pending2 = {} /\ Appending = {} /\ op.kind = "none" /\ previous = <<>>
      BY <1>3, <1>5, <2>1 DEF FileShape
    <2>3. durable => ToSet(records) \subseteq acked \cup unsure
      BY <2>2, KnownForm DEF KnownSet
    <2>4. view \in [Subscriber -> SUBSET Request]
      BY TypeForm
    <2>5. view'[s] = ToSet(records) /\ \A x \in Subscriber : x # s => view'[x] = view[x]
      BY <2>1, <2>4
    <2>6. ASSUME NEW x PROVE /\ Told(x) = view[x] \cup Announced(queue[x])
                             /\ Told2(x) = view'[x] \cup Announced(queue[x])
      BY <2>1 DEF Told, Told2, Announced
    <2>7. \A x \in Subscriber : x # s => Told2(x) = Told(x)
      BY <2>5, <2>6
    <2>8. ToSet(records) \subseteq Told2(s) /\ Told2(s) \subseteq Told(s) \cup ToSet(records)
      BY <2>5, <2>6
    <2>9. \A x \in Subscriber \ open : queue'[x] = <<>> /\ view'[x] = {}
      BY <1>1, <2>1, <2>5
    <2>10. \A x \in open' : durable' => Told2(x) \subseteq acked' \cup unsure'
      BY <1>1, <1>2, <2>1, <2>3, <2>7, <2>8
    <2>11. \A x \in follows' : ToSet(records') \subseteq Told2(x) /\ ToSet(previous') = {}
      BY <1>1, <1>2, <1>4, <2>1, <2>2, <2>7, <2>8
    <2>12. QED
      BY <2>1, <2>9, <2>10, <2>11
  <1>18. ASSUME NEW s \in Subscriber, Receive(s) PROVE Goal
    <2>1. UNCHANGED <<open, follows, durable, records, previous, acked, unsure, op>>
      BY <1>18 DEF Receive, store, history
    <2>2. /\ s \in follows => Told2(s) = Told(s)
          /\ Told2(s) \subseteq Told(s)
          /\ \A x \in Subscriber : x # s => Told2(x) = Told(x)
          /\ \A x \in Subscriber \ open : queue'[x] = queue[x] /\ view'[x] = view[x]
      BY <1>18, ReceiveTells DEF Told2
    <2>3. Pending2 = Appending
      BY <1>5, <2>1
    <2>4. QED
      BY <1>1, <1>2, <2>1, <2>2, <2>3
  <1>19. ASSUME NEW s \in Subscriber, Unsubscribe(s) PROVE Goal
    <2>1. /\ open' = open \ {s} /\ follows' = follows \ {s}
          /\ queue' = [queue EXCEPT ![s] = <<>>] /\ view' = [view EXCEPT ![s] = {}]
          /\ UNCHANGED <<durable, records, previous, acked, unsure, op>>
      BY <1>19 DEF Unsubscribe, store, history
    <2>2. view \in [Subscriber -> SUBSET Request] /\ queue \in [Subscriber -> Seq(Event)]
      BY TypeForm
    <2>3. /\ queue'[s] = <<>> /\ view'[s] = {}
          /\ \A x \in Subscriber : x # s => queue'[x] = queue[x] /\ view'[x] = view[x]
      BY <2>1, <2>2
    <2>4. ASSUME NEW x \in Subscriber, x # s PROVE Told2(x) = Told(x)
      BY <2>3, <2>4 DEF Told, Told2
    <2>5. Pending2 = Appending
      BY <1>5, <2>1
    <2>6. QED
      BY <1>1, <1>2, <2>1, <2>3, <2>4, <2>5
  <1> HIDE DEF Goal
  <1>20. ASSUME NEW r \in Request, EndRequest(r) \/ RefuseRecord(r) \/ Age(r) PROVE Goal
    BY <1>7, <1>20 DEF EndRequest, RefuseRecord, Age, store, readers, history
  <1>21. ASSUME Replace \/ UNCHANGED vars PROVE Goal
    BY <1>7, <1>21 DEF Replace, vars, store, readers, history
  <1>22. Goal
    BY <1>8, <1>9, <1>10, <1>11, <1>12, <1>13, <1>14, <1>15, <1>16, <1>17, <1>18, <1>19, <1>20,
       <1>21 DEF Next, Return, TakeRecord
  <1>23. QED
    BY <1>22 DEF Goal, Told2, Pending2, FollowShape

----------------------------------------------------------------------------
(* The inductive invariant and what follows from it. *)

\* A program that has not run yet has no file, no record and no subscriber.
LEMMA InitInv == Init => IInv
  <1> SUFFICES ASSUME Init PROVE IInv
    OBVIOUS
  <1>1. <<>> \in Seq(Request) /\ <<>> \in Seq(Event) /\ Len(<<>>) = 0 /\ ToSet(<<>>) = {}
    BY DEF ToSet
  <1>2. MaxBytes \in Nat /\ Buffer \in Nat /\ MaxBoots \in Nat
    BY UsageAssumption
  <1>3. TotalSize(<<>>) <= MaxBytes
    <2>1. size \in [Request -> Nat]
      BY DEF Init
    <2>2. SizeOfNewest(size, <<>>)[0] = 0
      BY <1>1, <2>1, SizeOfNewestForm DEF IsTotal
    <2>3. QED
      BY <1>1, <1>2, <2>2 DEF TotalSize
  <1>4. TypeOK
    <2>1. StoreOK
      <3>1. 0 \in 0..MaxBoots /\ stage \in Stage /\ op \in Op
        BY <1>2 DEF Init, Stage, Op, Free
      <3>2. TotalSize(records) <= MaxBytes
        BY <1>3 DEF Init, TotalSize
      <3>3. /\ up \in BOOLEAN /\ durable \in BOOLEAN /\ torn \in BOOLEAN
        BY Zenon DEF Init
      <3>4. QED
        BY <1>1, <3>1, <3>2, <3>3 DEF Init, StoreOK, File
    <2>2. ReadersOK
      BY <1>1, <1>2 DEF Init, ReadersOK
    <2>3. QED
      BY <2>1, <2>2, TypeParts
  <1>5. FileShape
    BY DEF Init, FileShape, Free
  <1>6. OrderShape
    BY <1>1, <1>3, InOrderTrivial DEF Init, OrderShape
  <1>7. KeptShape
    BY DEF Init, KeptShape, Kept, Trusted, Free
  <1>8. KnownShape
    BY <1>1, KnownForm DEF Init, Free
  <1>9. FollowShape
    BY DEF Init, FollowShape
  <1>10. QED
    BY <1>4, <1>5, <1>6, <1>7, <1>8, <1>9 DEF IInv

\* For any requests, sizes, limits, subscribers and number of starts: IInv holds
\* throughout. It is the inductive strengthening of the three properties below.
THEOREM UsageInvariant == Spec => []IInv
  <1>1. IInv /\ [Next]_vars => IInv'
    BY StepTypes, StepFiles, StepOrder, StepKept, StepKnown, StepFollow DEF IInv
  <1>2. QED
    BY <1>1, InitInv, PTL DEF Spec

\* Every variable has its type, a subscriber's queue never holds more than Buffer
\* events (Broadcaster.Publish) and the records never take up more than MaxBytes
\* (pruneLocked).
THEOREM UsageTypeCorrect == Spec => []TypeOK
  <1>1. IInv => TypeOK
    BY DEF IInv
  <1>2. QED
    BY <1>1, UsageInvariant, PTL

\* A record whose Append returned no error stays, in the file or in the memory
\* while a replacement has moved the file away, until it is too old or crowded
\* out: whatever fails, is restored, pruned or cut off, over any number of starts
\* (Append, New, persistLocked, replaceUsageFile).
THEOREM AckedRecordsAreKept == Spec => []AckedIsKept
  <1>1. IInv => AckedIsKept
    <2> SUFFICES ASSUME TypeOK, FileShape, KeptShape, ~torn, NEW r \in acked,
                        r \notin old, ~Crowded(r)
                 PROVE  IF target # NoFile THEN r \in ToSet(target)
                        ELSE up /\ r \in ToSet(records) \cup ToSet(previous)
      BY DEF IInv, AckedIsKept
    <2>1. \A some, log : r \in some /\ Kept(some, log) => r \in ToSet(log)
      BY DEF Kept
    <2>2. CASE target # NoFile
      BY <2>1, <2>2 DEF KeptShape
    <2>3. CASE target = NoFile
      <3>1. Trusted /\ r \in ToSet(records)
        BY <2>1, <2>3 DEF KeptShape
      <3>2. up
        <4>1. op \in Op /\ up \in BOOLEAN
          BY TypeForm
        <4>2. op.kind = "none" <=> op = Free
          BY <4>1, OpForms
        <4>3. QED
          BY <3>1, <4>1, <4>2 DEF Trusted, FileShape
      <3>3. QED
        BY <2>3, <3>1, <3>2
    <2>4. QED
      BY <2>2, <2>3
  <1>2. QED
    BY <1>1, UsageInvariant, PTL

\* Whoever subscribes and then reads the log knows all of it when its queue is
\* read, unless its own queue overflowed, however many others are slow; and it is
\* told of nothing that was not kept (Append, Broadcaster.Publish).
THEOREM FollowersAreTold == Spec => []FollowersKnowTheLog
  <1>1. IInv => FollowersKnowTheLog
    <2> SUFFICES ASSUME FollowShape PROVE FollowersKnowTheLog
      BY DEF IInv
    <2>1. op = Free => Appending = {}
      BY DEF Appending, Free
    <2>2. QED
      BY <2>1 DEF FollowShape, FollowersKnowTheLog
  <1>2. QED
    BY <1>1, UsageInvariant, PTL

----------------------------------------------------------------------------
(* Where a rename replaces its file, as it does on POSIX systems.          *)

\* Without failing renames nothing takes the file away (replaceUsageFile).
LEMMA FileStays ==
    ASSUME ~RenameMayFail, NeverAway, TypeOK, FileShape, [Next]_vars
    PROVE  stage' # "aside" /\ (target' = NoFile => target = NoFile)
  <1> DEFINE Goal == stage' # "aside" /\ (target' = NoFile => target = NoFile)
  <1>1. stage # "aside"
    BY DEF NeverAway
  <1>2. ASSUME target' = target, stage' = stage \/ stage' \in {"none", "write"} PROVE Goal
    BY <1>1, <1>2
  <1>3. ASSUME Replace PROVE Goal
    <2>1. op \in Op /\ StoreOK /\ NoFile \notin Seq(Request)
      BY TypeForm, TypeParts, UsageAssumption
    <2>2. stage # "none" /\ fresh = records /\ records # NoFile
      BY <1>3, <2>1 DEF FileShape, StoreOK, Replace, Replacing, WriteFails, RenameOver, MoveAside,
         NothingToMove, MoveAsideFails, Install, InstallFails, Protect
    <2>3. QED
      BY <1>1, <1>3, <2>2 DEF Replace, Replacing, WriteFails, RenameOver, MoveAside,
         NothingToMove, MoveAsideFails, Install, InstallFails, Protect
  <1> HIDE DEF Goal
  <1>4. ASSUME Start \/ StartUnreadable \/ Stop \/ Prune PROVE Goal
    BY <1>2, <1>4 DEF Start, StartUnreadable, Stop, Abandon, Prune, Begin, fileVars
  <1>5. ASSUME Return PROVE Goal
    BY <1>2, <1>5 DEF Return, AppendReturns, AppendFails, PruneReturns, Loaded, LoadFails, Finished,
       fileVars
  <1>6. ASSUME NEW r \in Request, Announce(r) \/ EndRequest(r) \/ TakeRecord(r) \/ Age(r)
        PROVE  Goal
    BY <1>2, <1>6 DEF Announce, StartRequest, StartAttempt, EndRequest, TakeRecord, AppendRecord,
       RefuseRecord, Age, Begin, fileVars
  <1>7. ASSUME NEW s \in Subscriber, Subscribe(s) \/ List(s) \/ Receive(s) \/ Unsubscribe(s)
        PROVE  Goal
    BY <1>2, <1>7 DEF Subscribe, List, Receive, Unsubscribe, fileVars
  <1>8. ASSUME UNCHANGED vars PROVE Goal
    BY <1>2, <1>8 DEF vars, fileVars
  <1>9. Goal
    BY <1>3, <1>4, <1>5, <1>6, <1>7, <1>8 DEF Next
  <1>10. QED
    BY <1>9 DEF Goal

\* Only a durable Append acknowledges, when the file has the record (Append).
LEMMA AckedInFile ==
    ASSUME TypeOK, FileShape, [Next]_vars
    PROVE  acked' = acked \/ target' # NoFile
  <1> DEFINE Goal == acked' = acked \/ target' # NoFile
  <1>1. ASSUME AppendReturns PROVE Goal
    <2>1. CASE durable
      <3>1. target = records /\ target' = target
        BY <1>1, <2>1 DEF AppendReturns, FileShape, Finished
      <3>2. records # NoFile
        BY TypeParts, UsageAssumption DEF StoreOK
      <3>3. QED
        BY <3>1, <3>2
    <2>2. CASE ~durable
      BY <1>1, <2>2 DEF AppendReturns
    <2>3. QED
      BY <2>1, <2>2
  <1>2. ASSUME Start \/ StartUnreadable \/ Stop \/ Prune \/ Replace PROVE Goal
    BY <1>2 DEF Start, StartUnreadable, Stop, Prune, Replace, history
  <1>3. ASSUME AppendFails \/ PruneReturns \/ Loaded \/ LoadFails PROVE Goal
    BY <1>3 DEF AppendFails, PruneReturns, Loaded, LoadFails, history
  <1>4. ASSUME NEW r \in Request, Announce(r) \/ EndRequest(r) \/ TakeRecord(r) \/ Age(r)
        PROVE  Goal
    BY <1>4 DEF Announce, StartRequest, StartAttempt, EndRequest, TakeRecord, AppendRecord,
       RefuseRecord, Age, history
  <1>5. ASSUME NEW s \in Subscriber, Subscribe(s) \/ List(s) \/ Receive(s) \/ Unsubscribe(s)
        PROVE  Goal
    BY <1>5 DEF Subscribe, List, Receive, Unsubscribe, history
  <1>6. ASSUME UNCHANGED vars PROVE Goal
    BY <1>6 DEF vars, history
  <1> HIDE DEF Goal
  <1>7. Goal
    BY <1>1, <1>2, <1>3, <1>4, <1>5, <1>6 DEF Next, Return
  <1>8. QED
    BY <1>7 DEF Goal

\* The store is torn only while its file is away.
LEMMA TornOnlyAway ==
    ASSUME [Next]_vars, ~torn, ~FileIsAway
    PROVE  ~torn'
  <1>1. ASSUME Stop \/ LoadFails PROVE ~torn'
    BY <1>1, Zenon DEF Stop, LoadFails
  <1>2. ASSUME Start \/ StartUnreadable \/ Prune \/ Replace PROVE ~torn'
    BY <1>2, Zenon DEF Start, StartUnreadable, Prune, Replace, history
  <1>3. ASSUME AppendReturns \/ AppendFails \/ PruneReturns \/ Loaded PROVE ~torn'
    BY <1>3, Zenon DEF AppendReturns, AppendFails, PruneReturns, Loaded, history
  <1>4. ASSUME NEW r \in Request, Announce(r) \/ EndRequest(r) \/ TakeRecord(r) \/ Age(r)
        PROVE  ~torn'
    BY <1>4, Zenon DEF Announce, StartRequest, StartAttempt, EndRequest, TakeRecord, AppendRecord,
       RefuseRecord, Age, history
  <1>5. ASSUME NEW s \in Subscriber, Subscribe(s) \/ List(s) \/ Receive(s) \/ Unsubscribe(s)
        PROVE  ~torn'
    BY <1>5, Zenon DEF Subscribe, List, Receive, Unsubscribe, history
  <1>6. ASSUME UNCHANGED vars PROVE ~torn'
    BY <1>6, Zenon DEF vars, history
  <1>7. QED
    BY <1>1, <1>2, <1>3, <1>4, <1>5, <1>6, Zenon DEF Next, Return

\* Where renames replace, no crash and no failure loses what was acknowledged:
\* it is in the file itself from then on, until it is too old or crowded out.
\* Records can only be forgotten through the fallback of replaceUsageFile.
THEOREM AtomicRenamesKeepFile ==
    ASSUME ~RenameMayFail
    PROVE  Spec => [](NeverAway /\ FileHasAcked)
  <1>1. Init => NeverAway
    BY DEF Init, NeverAway
  <1>2. IInv /\ NeverAway /\ [Next]_vars => NeverAway'
    <2> SUFFICES ASSUME IInv, NeverAway, [Next]_vars PROVE NeverAway'
      OBVIOUS
    <2>1. TypeOK /\ FileShape
      BY DEF IInv
    <2>2. stage' # "aside" /\ (target' = NoFile => target = NoFile)
      BY <2>1, FileStays
    <2>3. target' = NoFile => acked' = {}
      BY <2>1, <2>2, AckedInFile DEF NeverAway
    <2>4. ~torn'
      BY TornOnlyAway DEF NeverAway, FileIsAway
    <2>5. QED
      BY <2>2, <2>3, <2>4 DEF NeverAway
  <1>3. IInv /\ NeverAway => FileHasAcked
    BY DEF IInv, KeptShape, Kept, NeverAway, FileHasAcked
  <1>4. QED
    BY <1>1, <1>2, <1>3, UsageInvariant, PTL DEF Spec
=============================================================================
