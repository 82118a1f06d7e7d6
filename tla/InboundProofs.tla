--------------------------- MODULE InboundProofs ---------------------------
(***************************************************************************)
(* Proofs about what a connection receives: whatever routes a program      *)
(* registers and in whatever order, a request goes to the handler of the   *)
(* most specific pattern that matches it, with the parameters of that      *)
(* pattern; and the composition keeps what HttpProofs and                  *)
(* FrameParserProofs prove of its parts.                                   *)
(*                                                                         *)
(* The router's lemmas are about rs, any sequence of routes: a tree holds  *)
(* an entry for every method of every route, its nodes are the ways to     *)
(* them, and siblings are sorted (TreeBuilt); a walk answers with the      *)
(* entry that is first among those that fit the URL (WalkRight); and that  *)
(* is the entry of the preferred route (BetterPreferred).                  *)
(***************************************************************************)
EXTENDS Inbound, FrameParserProofs, FiniteSetTheorems

(* Names that rank the same are the same.                                  *)
LEMMA NamesRanked == \A a, b \in Names : a[2] \in Int /\ (a[2] = b[2] => a = b)
  <1>1. Names \subseteq STRING \X Int
    <2> SUFFICES ASSUME NEW route \in Candidates \cup Range(Program), NEW a \in Range(route.pattern)
                 PROVE  a \in STRING \X Int
      BY DEF Names
    <2>1. route \in RouteTypes
      BY RoutesAssumption DEF Range
    <2>2. route.pattern \in Seq(STRING \X Int)
      BY <2>1 DEF RouteTypes
    <2> QED
      BY <2>2 DEF Range
  <1> QED
    BY <1>1, RoutesAssumption

-----------------------------------------------------------------------------
(* Sequences.                                                              *)

(* What is found is the first that passes.                                 *)
LEMMA FirstOf ==
    ASSUME NEW n \in Nat, NEW I \in SUBSET (1..n)
    PROVE  I # {} => /\ Min(I) \in I
                     /\ \A j \in I : Min(I) <= j
  <1> SUFFICES ASSUME I # {}
               PROVE  \E x \in I : \A y \in I : x =< y
    BY DEF Min
  <1> DEFINE T == {m \in Nat : (\E y \in I : y <= m) => \E x \in I : \A y \in I : x =< y}
  <1>1. 0 \in T
    OBVIOUS
  <1>2. ASSUME NEW m \in Nat, m \in T
        PROVE  m + 1 \in T
    <2>1. CASE \E y \in I : y <= m
      BY <1>2, <2>1
    <2>2. CASE ~(\E y \in I : y <= m)
      <3>1. SUFFICES ASSUME NEW y \in I, y <= m + 1
                     PROVE  \A z \in I : y <= z
        BY <1>2
      <3>2. ASSUME NEW z \in I
            PROVE  y <= z
        <4>1. ~(z <= m) /\ z \in Int /\ y \in Int
          BY <2>2
        <4> QED
          BY <4>1, <3>1
      <3> QED
        BY <3>2
    <2> QED
      BY <2>1, <2>2
  <1> HIDE DEF T
  <1>3. n \in T
    BY <1>1, <1>2, Induction
  <1>4. PICK y \in I : TRUE
    OBVIOUS
  <1>5. y <= n
    BY <1>4
  <1> QED
    BY <1>3, <1>5 DEF T

(* Halving the range again and again.                                      *)
Half(r, behind) ==
    LET middle == r.first + (r.last - r.first) \div 2
    IN  IF r.first = r.last THEN r
        ELSE IF middle \in behind THEN [r EXCEPT !.last = middle]
        ELSE [r EXCEPT !.first = middle + 1]

\* f[k] is the range after k halves.
Ranges(f, n, base, behind) ==
    f = [k \in 0..n |-> IF k = 0 THEN base ELSE Half(f[k - 1], behind)]

(* The ranges of a search exist.                                           *)
LEMMA RangesExist ==
    ASSUME NEW base, NEW behind
    PROVE  \A n \in Nat : \E f : Ranges(f, n, base, behind)
  <1> DEFINE T == {n \in Nat : \E f : Ranges(f, n, base, behind)}
  <1>1. 0 \in T
    <2>1. Ranges([k \in 0..0 |-> base], 0, base, behind)
      BY DEF Ranges
    <2> QED
      BY <2>1
  <1>2. ASSUME NEW m \in Nat, m \in T
        PROVE  m + 1 \in T
    <2>1. PICK g : Ranges(g, m, base, behind)
      BY <1>2
    <2> DEFINE f == [k \in 0..(m + 1) |-> IF k = m + 1 THEN Half(g[m], behind) ELSE g[k]]
               h == [k \in 0..(m + 1) |-> IF k = 0 THEN base ELSE Half(f[k - 1], behind)]
    <2>2. ASSUME NEW k \in 0..(m + 1)
          PROVE  f[k] = h[k]
      <3>1. CASE k = m + 1
        <4>1. k # 0 /\ k - 1 = m /\ m \in 0..(m + 1) /\ m # m + 1
          BY <3>1
        <4>2. f[k - 1] = g[m]
          BY <4>1
        <4> QED
          BY <3>1, <4>1, <4>2
      <3>2. CASE k # m + 1
        <4>1. k \in 0..m
          BY <3>2
        <4>2. f[k] = g[k]
          BY <3>2
        <4>3. CASE k = 0
          BY <2>1, <4>1, <4>2, <4>3 DEF Ranges
        <4>4. CASE k # 0
          <5>1. k - 1 \in 0..(m + 1) /\ k - 1 # m + 1
            BY <4>1, <4>4
          <5>2. f[k - 1] = g[k - 1]
            BY <5>1
          <5>3. g[k] = Half(g[k - 1], behind)
            BY <2>1, <4>1, <4>4 DEF Ranges
          <5> QED
            BY <4>2, <4>4, <5>2, <5>3
        <4> QED
          BY <4>3, <4>4
      <3> QED
        BY <3>1, <3>2
    <2>3. f = h
      BY <2>2
    <2> HIDE DEF f
    <2>4. Ranges(f, m + 1, base, behind)
      BY <2>3 DEF Ranges
    <2> QED
      BY <2>4
  <1> HIDE DEF T
  <1>3. Nat \subseteq T
    BY <1>1, <1>2, Induction
  <1> QED
    BY <1>3 DEF T

(* A range that is still searched after so many halvings.                  *)
Searched(r, n, k, behind) ==
    /\ r \in [first : Nat, last : Nat]
    /\ 1 <= r.first /\ r.first <= r.last /\ r.last <= n + 1
    /\ r.last - r.first <= n - k
    /\ r.first = 1 \/ r.first - 1 \notin behind
    /\ r.last = n + 1 \/ r.last \in behind

(* Half of a range that holds the place sought holds it, too.              *)
LEMMA HalfSearched ==
    ASSUME NEW n \in Nat, NEW k \in 0..n, k # n, NEW behind, NEW r, Searched(r, n, k, behind)
    PROVE  Searched(Half(r, behind), n, k + 1, behind)
  <1> DEFINE a == r.first
             b == r.last
             middle == a + (b - a) \div 2
  <1>1. r = [first |-> a, last |-> b] /\ a \in Nat /\ b \in Nat /\ a <= b
    BY DEF Searched
  <1>2. CASE a = b
    BY <1>2 DEF Searched, Half
  <1>3. CASE a # b
    <2>1. middle \in Nat /\ a <= middle /\ middle + 1 <= b
      BY <1>1, <1>3
    <2>2. middle - a <= n - (k + 1) /\ b - (middle + 1) <= n - (k + 1)
      BY <1>1, <1>3 DEF Searched
    <2>3. CASE middle \in behind
      <3>1. Half(r, behind) = [first |-> a, last |-> middle]
        BY <1>1, <1>3, <2>3 DEF Half
      <3> HIDE DEF middle
      <3> QED
        BY <1>1, <2>1, <2>2, <2>3, <3>1 DEF Searched
    <2>4. CASE middle \notin behind
      <3>1. Half(r, behind) = [first |-> middle + 1, last |-> b]
        BY <1>1, <1>3, <2>4 DEF Half
      <3>2. middle + 1 - 1 = middle
        BY <2>1
      <3> HIDE DEF middle
      <3> QED
        BY <1>1, <2>1, <2>2, <2>4, <3>1, <3>2 DEF Searched
    <2> QED
      BY <2>3, <2>4
  <1> QED
    BY <1>2, <1>3

(* The search ends between an element x does not come before, and one it   *)
(* comes before (std::upper_bound).                                        *)
LEMMA UpperBoundIs ==
    ASSUME NEW n \in Nat, NEW behind
    PROVE  /\ UpperBound(n, behind) \in 1..(n + 1)
           /\ UpperBound(n, behind) = 1 \/ UpperBound(n, behind) - 1 \notin behind
           /\ UpperBound(n, behind) = n + 1 \/ UpperBound(n, behind) \in behind
  <1> DEFINE base == [first |-> 1, last |-> n + 1]
             range == CHOOSE f : f = [k \in 0..n |-> IF k = 0 THEN base ELSE Half(f[k - 1], behind)]
  <1>1. range = [k \in 0..n |-> IF k = 0 THEN base ELSE Half(range[k - 1], behind)]
    <2>1. PICK f : Ranges(f, n, base, behind)
      BY RangesExist
    <2>2. f = [k \in 0..n |-> IF k = 0 THEN base ELSE Half(f[k - 1], behind)]
      BY <2>1 DEF Ranges
    <2> QED
      BY <2>2
  <1>2. UpperBound(n, behind) = range[n].first
    BY DEF UpperBound, Half
  <1> HIDE DEF range
  <1> DEFINE T == {k \in Nat : k <= n => Searched(range[k], n, k, behind)}
  <1>3. 0 \in T
    BY <1>1 DEF Searched
  <1>4. ASSUME NEW k \in Nat, k \in T
        PROVE  k + 1 \in T
    <2> SUFFICES ASSUME k + 1 <= n
                 PROVE  Searched(range[k + 1], n, k + 1, behind)
      OBVIOUS
    <2>1. k \in 0..n /\ k # n /\ k + 1 \in 0..n /\ k + 1 # 0 /\ k + 1 - 1 = k
      OBVIOUS
    <2>2. range[k + 1] = Half(range[k], behind)
      BY <1>1, <2>1
    <2>3. Searched(range[k], n, k, behind)
      BY <1>4, <2>1
    <2> QED
      BY <2>1, <2>2, <2>3, HalfSearched
  <1> HIDE DEF T
  <1>5. n \in T
    BY <1>3, <1>4, Induction
  <1>6. Searched(range[n], n, n, behind)
    BY <1>5 DEF T
  <1>7. range[n].first = range[n].last
    BY <1>6 DEF Searched
  <1> QED
    BY <1>2, <1>6, <1>7 DEF Searched

(* What an insertion makes of a sequence.                                  *)
Inserted(ys, xs, x, k) ==
    /\ Len(ys) = Len(xs) + 1
    /\ k \in 1..(Len(xs) + 1)
    /\ \A i \in 1..(Len(xs) + 1) :
          ys[i] = IF i < k THEN xs[i] ELSE IF i = k THEN x ELSE xs[i - 1]

(* An element between two others moves those behind it by one.             *)
LEMMA InsertAtIs ==
    ASSUME NEW S, NEW xs \in Seq(S), NEW x \in S, NEW k \in 1..(Len(xs) + 1)
    PROVE  InsertAt(xs, k, x) \in Seq(S) /\ Inserted(InsertAt(xs, k, x), xs, x, k)
  <1> DEFINE n == Len(xs)
             front == SubSeq(xs, 1, k - 1)
             back == SubSeq(xs, k, n)
             left == front \o <<x>>
  <1>0. n \in Nat /\ k \in Int /\ 1 <= k /\ k <= n + 1
    OBVIOUS
  <1>1. front \in Seq(S) /\ Len(front) = k - 1 /\ \A i \in 1..(k - 1) : front[i] = xs[i]
    <2>1. \A i \in 1..(k - 1) : i \in 1..n
      OBVIOUS
    <2> QED
      BY <2>1
  <1>2. back \in Seq(S) /\ Len(back) = n - k + 1 /\ \A i \in 1..(n - k + 1) : back[i] = xs[k + i - 1]
    <2>1. \A i \in k..n : i \in 1..n
      OBVIOUS
    <2> QED
      BY <2>1
  <1> HIDE DEF front, back
  <1>3. left \in Seq(S) /\ Len(left) = k /\ (\A i \in 1..(k - 1) : left[i] = xs[i]) /\ left[k] = x
    BY <1>0, <1>1
  <1> HIDE DEF left
  <1>4. InsertAt(xs, k, x) = left \o back
    BY DEF InsertAt, left, front, back
  <1>5. left \o back \in Seq(S) /\ Len(left \o back) = n + 1
    <2>0. left \in Seq(S) /\ back \in Seq(S)
      BY <1>2, <1>3
    <2>5. left \o back \in Seq(S)
      BY <2>0
    <2>6. Len(left \o back) = Len(left) + Len(back)
      BY <2>0
    <2>1. Len(left \o back) = Len(left) + Len(back) /\ left \o back \in Seq(S)
      BY <2>5, <2>6
    <2>2. k + (n - k + 1) = n + 1
      BY <1>0
    <2> QED
      BY <1>2, <1>3, <2>1, <2>2
  <1>6. ASSUME NEW i \in 1..(n + 1)
        PROVE  (left \o back)[i] = IF i < k THEN xs[i] ELSE IF i = k THEN x ELSE xs[i - 1]
    <2>1. CASE i <= k
      BY <1>0, <1>2, <1>3, <2>1
    <2>2. CASE ~(i <= k)
      <3>1. i - k \in 1..(n - k + 1) /\ k + (i - k) - 1 = i - 1
        BY <1>0, <2>2
      <3>2. (left \o back)[i] = back[i - k]
        BY <1>0, <1>2, <1>3, <2>2, <3>1
      <3>3. back[i - k] = xs[i - 1]
        BY <1>2, <3>1
      <3> QED
        BY <1>0, <2>2, <3>2, <3>3
    <2> QED
      BY <2>1, <2>2
  <1> QED
    BY <1>0, <1>4, <1>5, <1>6 DEF Inserted

(* A sequence in which R relates each element to those behind it.          *)
Sorted(xs, R) == \A i, j \in 1..Len(xs) : i < j => <<xs[i], xs[j]>> \in R

\* xs has the element x.
Has(xs, x) == \E i \in 1..Len(xs) : xs[i] = x

(* The elements x comes before are the last ones.                          *)
Parts(xs, x, R, behind) ==
    /\ \A i, j \in 1..Len(xs) : i \in behind /\ i < j => j \in behind
    /\ \A i \in 1..Len(xs) : IF i \in behind THEN <<x, xs[i]>> \in R ELSE <<xs[i], x>> \in R

(* An element at its upper bound leaves a sequence sorted.                 *)
LEMMA InsertionSorted ==
    ASSUME NEW S, NEW xs \in Seq(S), NEW x \in S, NEW R, NEW behind,
           Sorted(xs, R), Parts(xs, x, R, behind)
    PROVE  /\ Insertion(xs, x, behind) \in Seq(S)
           /\ Sorted(Insertion(xs, x, behind), R)
           /\ \A y : Has(Insertion(xs, x, behind), y) <=> Has(xs, y) \/ y = x
  <1> DEFINE n == Len(xs)
             k == UpperBound(n, behind)
             ys == Insertion(xs, x, behind)
  <1>1. n \in Nat
    OBVIOUS
  <1>2. /\ k \in 1..(n + 1)
        /\ k = 1 \/ k - 1 \notin behind
        /\ k = n + 1 \/ k \in behind
    <2> HIDE DEF n
    <2> QED
      BY <1>1, UpperBoundIs
  <1>3. ys = InsertAt(xs, k, x)
    BY DEF Insertion
  <1> HIDE DEF k, ys
  <1>4. ys \in Seq(S) /\ Inserted(ys, xs, x, k)
    BY <1>2, <1>3, InsertAtIs
  <1>5. \A i \in 1..n : i < k => i \notin behind
    <2> SUFFICES ASSUME NEW i \in 1..n, i < k, i \in behind
                 PROVE  FALSE
      OBVIOUS
    <2>1. k - 1 \in 1..n /\ k # 1
      BY <1>1, <1>2
    <2>2. i = k - 1 \/ i < k - 1
      BY <1>1, <1>2
    <2> QED
      BY <1>2, <2>1, <2>2 DEF Parts
  <1>6. \A i \in 1..n : k <= i => i \in behind
    <2> SUFFICES ASSUME NEW i \in 1..n, k <= i, i \notin behind
                 PROVE  FALSE
      OBVIOUS
    <2>1. k \in 1..n /\ k # n + 1
      BY <1>1, <1>2
    <2>2. i = k \/ k < i
      BY <1>1, <1>2
    <2> QED
      BY <1>2, <2>1, <2>2 DEF Parts
  <1>7. Sorted(ys, R)
    <2> SUFFICES ASSUME NEW i \in 1..(n + 1), NEW j \in 1..(n + 1), i < j
                 PROVE  <<ys[i], ys[j]>> \in R
      BY <1>4 DEF Sorted, Inserted
    <2>1. CASE j < k
      <3>1. ys[i] = xs[i] /\ ys[j] = xs[j] /\ i \in 1..n /\ j \in 1..n
        BY <1>1, <1>2, <1>4, <2>1 DEF Inserted
      <3> QED
        BY <3>1 DEF Sorted
    <2>2. CASE j = k
      <3>1. ys[i] = xs[i] /\ ys[j] = x /\ i \in 1..n /\ i < k
        BY <1>1, <1>2, <1>4, <2>2 DEF Inserted
      <3> QED
        BY <1>5, <3>1 DEF Parts
    <2>3. CASE k < j
      <3>1. ys[j] = xs[j - 1] /\ j - 1 \in 1..n /\ k <= j - 1
        BY <1>1, <1>2, <1>4, <2>3 DEF Inserted
      <3>2. CASE i < k
        <4>1. ys[i] = xs[i] /\ i \in 1..n /\ i < j - 1
          BY <1>1, <1>2, <1>4, <2>3, <3>2 DEF Inserted
        <4> QED
          BY <3>1, <4>1 DEF Sorted
      <3>3. CASE i = k
        <4>1. ys[i] = x
          BY <1>4, <3>3 DEF Inserted
        <4> QED
          BY <1>6, <3>1, <4>1 DEF Parts
      <3>4. CASE k < i
        <4>1. ys[i] = xs[i - 1] /\ i - 1 \in 1..n /\ i - 1 < j - 1
          BY <1>1, <1>2, <1>4, <3>4 DEF Inserted
        <4> QED
          BY <3>1, <4>1 DEF Sorted
      <3> QED
        BY <1>2, <3>2, <3>3, <3>4
    <2> QED
      BY <1>2, <2>1, <2>2, <2>3
  <1>8. ASSUME NEW y
        PROVE  Has(ys, y) <=> Has(xs, y) \/ y = x
    <2>1. ASSUME Has(ys, y)
          PROVE  Has(xs, y) \/ y = x
      <3>1. PICK i \in 1..(n + 1) : ys[i] = y
        BY <1>4, <2>1 DEF Has, Inserted
      <3>2. \/ i \in 1..n /\ y = xs[i]
            \/ i - 1 \in 1..n /\ y = xs[i - 1]
            \/ y = x
        BY <1>1, <1>2, <1>4, <3>1 DEF Inserted
      <3> QED
        BY <3>2 DEF Has
    <2>2. ASSUME Has(xs, y)
          PROVE  Has(ys, y)
      <3>1. PICK i \in 1..n : xs[i] = y
        BY <2>2 DEF Has
      <3>2. CASE i < k
        <4>1. ys[i] = y /\ i \in 1..(n + 1)
          BY <1>1, <1>2, <1>4, <3>1, <3>2 DEF Inserted
        <4> QED
          BY <1>4, <4>1 DEF Has, Inserted
      <3>3. CASE ~(i < k)
        <4>1. i + 1 \in 1..(n + 1) /\ ~(i + 1 < k) /\ i + 1 # k /\ i + 1 - 1 = i
          BY <1>1, <1>2, <3>3
        <4>2. ys[i + 1] = y
          BY <1>4, <3>1, <4>1 DEF Inserted
        <4> QED
          BY <1>4, <4>1, <4>2 DEF Has, Inserted
      <3> QED
        BY <3>2, <3>3
    <2>3. Has(ys, x)
      BY <1>2, <1>4 DEF Has, Inserted
    <2> QED
      BY <2>1, <2>2, <2>3
  <1> QED
    BY <1>4, <1>7, <1>8 DEF ys

-----------------------------------------------------------------------------
(* The tree.                                                               *)

\* The nodes of a tree, and what they hold.
Kids == [name : Names \cup STRING, high : BOOLEAN]
Handlers == [id : Nat, priority : Nat]
Nodes == [children : Seq(Kids), handlers : Seq(Handlers)]

(* Where children belong, and handlers.                                    *)
Before(a, b) == IF a.high # b.high THEN a.high ELSE MoreSpecific(a.name, b.name)

\* The methods stay as they come.
ChildOrder(path) == {c \in Kids \X Kids : path # <<>> => Before(c[1], c[2])}

\* No handler stands behind one it comes before.
HandlerOrder == {h \in Handlers \X Handlers : ~HandlerPrecedes(h[2], h[1])}

(* The nodes are those that have a way to them, and all is in its place.   *)
NodesLinked(t) ==
    \A p \in Seq(Kids), c \in Kids :
        Append(p, c) \in DOMAIN t <=> p \in DOMAIN t /\ Has(t[p].children, c)

\* Children and handlers stand where they belong.
NodesSorted(t) ==
    \A p \in DOMAIN t : Sorted(t[p].children, ChildOrder(p)) /\ Sorted(t[p].handlers, HandlerOrder)

\* The methods are of no priority, and all else is named by a pattern.
NodesNamed(t) ==
    \A p \in DOMAIN t, c \in Kids :
        Has(t[p].children, c) => IF p = <<>> THEN ~c.high ELSE c.name \in Names

\* A tree is rooted and has nodes.
TreeTypes(t) ==
    /\ DOMAIN t \subseteq Seq(Kids)
    /\ <<>> \in DOMAIN t
    /\ t \in [DOMAIN t -> Nodes]

\* What every registration keeps.
TreeInv(t) == TreeTypes(t) /\ NodesLinked(t) /\ NodesSorted(t) /\ NodesNamed(t)

\* The handlers at a path, if there is a node.
HandlersAt(t, p) == IF p \in DOMAIN t THEN t[p].handlers ELSE <<>>

(* A sequence with one element more.                                       *)
LEMMA Appends ==
    ASSUME NEW S, NEW p \in Seq(S), NEW x \in S
    PROVE  /\ Append(p, x) \in Seq(S)
           /\ Append(p, x) # <<>>
           /\ Append(p, x) # p
           /\ Len(Append(p, x)) = Len(p) + 1
           /\ Append(p, x)[Len(p) + 1] = x
           /\ \A i \in 1..Len(p) : Append(p, x)[i] = p[i]
  <1>1. Append(p, x) \in Seq(S) /\ Len(Append(p, x)) = Len(p) + 1
    OBVIOUS
  <1>2. Append(p, x)[Len(p) + 1] = x /\ \A i \in 1..Len(p) : Append(p, x)[i] = p[i]
    OBVIOUS
  <1>3. Len(p) \in Nat /\ Len(<<>>) = 0
    OBVIOUS
  <1> QED
    BY <1>1, <1>2, <1>3

(* It tells which sequence it was and which element.                       *)
LEMMA AppendsDiffer ==
    ASSUME NEW S, NEW p \in Seq(S), NEW q \in Seq(S), NEW x \in S, NEW y \in S,
           Append(p, x) = Append(q, y)
    PROVE  p = q /\ x = y
  <1>1. Len(p) + 1 = Len(q) + 1 /\ Len(p) \in Nat /\ Len(q) \in Nat
    BY Appends
  <1>2. Len(p) = Len(q)
    BY <1>1
  <1>3. x = y
    BY <1>2, Appends
  <1>4. \A i \in 1..Len(p) : p[i] = q[i]
    BY <1>2, Appends
  <1> QED
    BY <1>2, <1>3, <1>4

(* Where a new child is inserted, the children stay in order, because it   *)
(* is no empty name that comes behind others.                              *)
LEMMA PrecedesIs ==
    ASSUME NEW p, NEW new \in Kids, NEW a \in Kids, NEW b \in Kids,
           p # <<>>, new.name \in Names, a.name \in Names, b.name \in Names
    PROVE  /\ Precedes(p, new, a) => Before(new, a)
           /\ Before(a, b) /\ Precedes(p, new, a) => Precedes(p, new, b)
           /\ a # new /\ ~Precedes(p, new, a)
                 /\ (new.name = NoSegment /\ a.high = new.high => a.name = NoSegment)
              => Before(a, new)
  <1>1. new.high \in BOOLEAN /\ a.high \in BOOLEAN /\ b.high \in BOOLEAN
    BY DEF Kids
  <1>2. new.name[2] \in Int /\ a.name[2] \in Int /\ b.name[2] \in Int
    BY NamesRanked
  <1>3. Precedes(p, new, a) => Before(new, a)
    BY <1>1 DEF Precedes, Before, MoreSpecific
  <1>4. Before(a, b) /\ Precedes(p, new, a) => Precedes(p, new, b)
    BY <1>1, <1>2 DEF Precedes, Before, MoreSpecific
  <1>5. ASSUME a # new, ~Precedes(p, new, a), new.name = NoSegment /\ a.high = new.high => a.name = NoSegment
        PROVE  Before(a, new)
    <2>1. CASE a.high # new.high
      BY <1>1, <1>5, <2>1 DEF Precedes, Before
    <2>2. CASE a.high = new.high
      <3>1. a.name # new.name
        BY <1>5, <2>2 DEF Kids
      <3>2. new.name # NoSegment
        BY <1>5, <2>2, <3>1
      <3>3. a.name[2] # new.name[2]
        BY <3>1, NamesRanked
      <3> QED
        BY <1>2, <1>5, <2>2, <3>2, <3>3 DEF Precedes, Before, MoreSpecific
    <2> QED
      BY <2>1, <2>2
  <1> QED
    BY <1>3, <1>4, <1>5

(* An empty name may come only where no other sibling of its priority is.  *)
FitsUnder(t, p, name, high) ==
    /\ p \in DOMAIN t
    /\ IF p = <<>> THEN name \in STRING /\ high = FALSE ELSE name \in Names /\ high \in BOOLEAN
    /\ p # <<>> /\ name = NoSegment =>
          \A c \in Kids : Has(t[p].children, c) /\ c.high = high => c.name = NoSegment

(* What getNode comes to.                                                  *)
Reaches(g, t, p, new) ==
    /\ g = [tree |-> g.tree, path |-> Append(p, new)]
    /\ TreeInv(g.tree)
    /\ DOMAIN g.tree = DOMAIN t \cup {Append(p, new)}
    /\ \A q : HandlersAt(g.tree, q) = HandlersAt(t, q)

\* Where getNode finds a child.
Found(xs, name, high) == SelectInSeq(xs, LAMBDA child : IsChild(child, name, high))

(* A child is found by its name and its priority.                          *)
LEMMA ChildFound ==
    ASSUME NEW xs \in Seq(Kids), NEW name, NEW high, NEW new \in Kids,
           new = [name |-> name, high |-> high]
    PROVE  IF Has(xs, new) THEN Found(xs, name, high) # 0 /\ xs[Found(xs, name, high)] = new
           ELSE Found(xs, name, high) = 0
  <1> DEFINE I == {i \in 1..Len(xs) : IsChild(xs[i], name, high)}
             found == Found(xs, name, high)
  <1>1. found = IF I # {} THEN Min(I) ELSE 0
    BY DEF SelectInSeq, Found
  <1>2. \A i \in 1..Len(xs) : i \in I <=> xs[i] = new
    <2> SUFFICES ASSUME NEW i \in 1..Len(xs)
                 PROVE  IsChild(xs[i], name, high) <=> xs[i] = new
      OBVIOUS
    <2>1. xs[i] \in Kids
      OBVIOUS
    <2> QED
      BY <2>1 DEF IsChild, Kids
  <1>3. I # {} => Min(I) \in I
    <2>1. Len(xs) \in Nat /\ I \in SUBSET (1..Len(xs))
      OBVIOUS
    <2> HIDE DEF I
    <2> QED
      BY <2>1, FirstOf
  <1>4. I # {} <=> Has(xs, new)
    BY <1>2 DEF Has
  <1>5. \A i \in I : i \in 1..Len(xs) /\ i # 0
    OBVIOUS
  <1> HIDE DEF I, found
  <1>6. IF Has(xs, new) THEN found # 0 /\ xs[found] = new ELSE found = 0
    BY <1>1, <1>2, <1>3, <1>4, <1>5
  <1> QED
    BY <1>6 DEF found

\* The children with a new one among them.
WithChild(xs, p, new) == Insertion(xs, new, {i \in DOMAIN xs : Precedes(p, new, xs[i])})

(* A new child leaves its siblings sorted.                                 *)
LEMMA NodeInserted ==
    ASSUME NEW t, TreeInv(t), NEW p, NEW name, NEW high, FitsUnder(t, p, name, high),
           NEW new \in Kids, new = [name |-> name, high |-> high], ~Has(t[p].children, new)
    PROVE  /\ WithChild(t[p].children, p, new) \in Seq(Kids)
           /\ Sorted(WithChild(t[p].children, p, new), ChildOrder(p))
           /\ \A c : Has(WithChild(t[p].children, p, new), c) <=> Has(t[p].children, c) \/ c = new
  <1> DEFINE xs == t[p].children
             behind == {i \in DOMAIN xs : Precedes(p, new, xs[i])}
  <1>1. p \in DOMAIN t /\ xs \in Seq(Kids) /\ Sorted(xs, ChildOrder(p))
    BY DEF TreeInv, TreeTypes, NodesSorted, FitsUnder, Nodes
  <1>2. \A i \in 1..Len(xs) : xs[i] \in Kids /\ Has(xs, xs[i]) /\ xs[i] # new
    BY <1>1 DEF Has
  <1>3. DOMAIN xs = 1..Len(xs) /\ new.name = name /\ new.high = high
    BY <1>1
  <1>4. CASE p = <<>>
    <2>1. \A c \in Kids : c.high \in BOOLEAN
      BY DEF Kids
    <2>2. \A i \in 1..Len(xs) : ~xs[i].high /\ ~new.high
      BY <1>1, <1>2, <1>3, <1>4 DEF TreeInv, NodesNamed, FitsUnder
    <2>3. \A i \in 1..Len(xs) : i \notin behind
      BY <1>2, <1>3, <1>4, <2>1, <2>2 DEF Precedes
    <2>4. \A i \in 1..Len(xs) : IF i \in behind THEN <<new, xs[i]>> \in ChildOrder(p)
                                ELSE <<xs[i], new>> \in ChildOrder(p)
      BY <1>2, <1>4, <2>3 DEF ChildOrder
    <2> HIDE DEF xs, behind
    <2>5. /\ Insertion(xs, new, behind) \in Seq(Kids)
          /\ Sorted(Insertion(xs, new, behind), ChildOrder(p))
          /\ \A c : Has(Insertion(xs, new, behind), c) <=> Has(xs, c) \/ c = new
      <3>1. Parts(xs, new, ChildOrder(p), behind)
        BY <2>3, <2>4 DEF Parts
      <3> QED
        BY <1>1, <3>1, InsertionSorted
    <2> QED
      BY <2>5 DEF xs, behind, WithChild
  <1>5. CASE p # <<>>
    <2>1. new.name \in Names /\ \A i \in 1..Len(xs) : xs[i].name \in Names
      BY <1>1, <1>2, <1>3, <1>5 DEF TreeInv, NodesNamed, FitsUnder
    <2>2. \A i \in 1..Len(xs) : i \in behind <=> Precedes(p, new, xs[i])
      BY <1>3
    <2>3. \A i, j \in 1..Len(xs) : i \in behind /\ i < j => j \in behind
      <3> SUFFICES ASSUME NEW i \in 1..Len(xs), NEW j \in 1..Len(xs), Precedes(p, new, xs[i]), i < j
                   PROVE  Precedes(p, new, xs[j])
        BY <2>2
      <3>1. Before(xs[i], xs[j])
        BY <1>1, <1>2, <1>5 DEF Sorted, ChildOrder
      <3> QED
        BY <1>2, <1>5, <2>1, <3>1, PrecedesIs
    <2>4. \A i \in 1..Len(xs) : IF i \in behind THEN <<new, xs[i]>> \in ChildOrder(p)
                                ELSE <<xs[i], new>> \in ChildOrder(p)
      <3> SUFFICES ASSUME NEW i \in 1..Len(xs)
                   PROVE  IF Precedes(p, new, xs[i]) THEN <<new, xs[i]>> \in ChildOrder(p)
                          ELSE <<xs[i], new>> \in ChildOrder(p)
        BY <2>2
      <3>1. CASE Precedes(p, new, xs[i])
        <4>1. Before(new, xs[i])
          BY <1>2, <1>5, <2>1, <3>1, PrecedesIs
        <4> QED
          BY <1>2, <3>1, <4>1 DEF ChildOrder
      <3>2. CASE ~Precedes(p, new, xs[i])
        <4>1. new.name = NoSegment /\ xs[i].high = new.high => xs[i].name = NoSegment
          BY <1>2, <1>3, <1>5 DEF FitsUnder
        <4>2. Before(xs[i], new)
          BY <1>2, <1>5, <2>1, <3>2, <4>1, PrecedesIs
        <4> QED
          BY <1>2, <3>2, <4>2 DEF ChildOrder
      <3> QED
        BY <3>1, <3>2
    <2> HIDE DEF xs, behind
    <2>5. /\ Insertion(xs, new, behind) \in Seq(Kids)
          /\ Sorted(Insertion(xs, new, behind), ChildOrder(p))
          /\ \A c : Has(Insertion(xs, new, behind), c) <=> Has(xs, c) \/ c = new
      <3>1. Parts(xs, new, ChildOrder(p), behind)
        BY <2>3, <2>4 DEF Parts
      <3> QED
        BY <1>1, <3>1, InsertionSorted
    <2> QED
      BY <2>5 DEF xs, behind, WithChild
  <1> QED
    BY <1>4, <1>5

(* getNode reaches the child, and adds no other node.                      *)
LEMMA GetNodeIs ==
    ASSUME NEW t, TreeInv(t), NEW p, NEW name, NEW high, FitsUnder(t, p, name, high),
           NEW new, new = [name |-> name, high |-> high]
    PROVE  Reaches(GetNode([tree |-> t, path |-> p], name, high), t, p, new)
  <1> DEFINE at == [tree |-> t, path |-> p]
             xs == t[p].children
             found == Found(xs, name, high)
             ys == WithChild(xs, p, new)
             q == Append(p, new)
             grown == [t EXCEPT ![p].children = ys]
             tree == WithNode(grown, q)
  <1>1. /\ p \in DOMAIN t /\ p \in Seq(Kids) /\ xs \in Seq(Kids) /\ t[p] \in Nodes
        /\ \A r \in DOMAIN t : r \in Seq(Kids)
    BY DEF TreeInv, TreeTypes, FitsUnder, Nodes
  <1>2. new \in Kids
    BY DEF FitsUnder, Kids
  <1>3. q \in Seq(Kids) /\ q # p /\ q # <<>>
    BY <1>1, <1>2, Appends
  <1>4. IF Has(xs, new) THEN found # 0 /\ xs[found] = new ELSE found = 0
    BY <1>1, <1>2, ChildFound
  <1>5. GetNode(at, name, high) = IF found # 0 THEN [at EXCEPT !.path = Append(@, xs[found])]
                                  ELSE [tree |-> tree, path |-> q]
    BY DEF GetNode, Found, WithChild
  <1> HIDE DEF found
  <1>6. CASE Has(xs, new)
    <2>1. GetNode(at, name, high) = [tree |-> t, path |-> q]
      BY <1>4, <1>5, <1>6
    <2>2. q \in DOMAIN t
      BY <1>1, <1>2, <1>6 DEF TreeInv, NodesLinked
    <2>3. DOMAIN t = DOMAIN t \cup {q}
      BY <2>2
    <2> HIDE DEF at, q
    <2> QED
      BY <2>1, <2>3 DEF Reaches, q, at
  <1>7. CASE ~Has(xs, new)
    <2>1. GetNode(at, name, high) = [tree |-> tree, path |-> q]
      BY <1>4, <1>5, <1>7
    <2>2. q \notin DOMAIN t
      BY <1>1, <1>2, <1>7 DEF TreeInv, NodesLinked
    <2>3. /\ ys \in Seq(Kids)
          /\ Sorted(ys, ChildOrder(p))
          /\ \A c : Has(ys, c) <=> Has(xs, c) \/ c = new
      BY <1>2, <1>7, NodeInserted
    <2> HIDE DEF ys
    <2>4. DOMAIN grown = DOMAIN t /\ DOMAIN tree = DOMAIN t \cup {q}
      BY DEF WithNode
    <2>5. tree[q] = NewNode /\ tree[q].children = <<>> /\ tree[q].handlers = <<>>
      BY <2>4 DEF WithNode, NewNode
    <2>6. tree[p].children = ys /\ tree[p].handlers = t[p].handlers /\ tree[p] \in Nodes
      <3>1. tree[p] = [t[p] EXCEPT !.children = ys]
        BY <1>1, <1>3, <2>4 DEF WithNode
      <3> QED
        BY <1>1, <2>3, <3>1 DEF Nodes
    <2>7. \A r \in DOMAIN t : r # p => tree[r] = t[r]
      BY <2>2, <2>4 DEF WithNode
    <2> HIDE DEF tree, grown
    <2>8. \A c : ~Has(<<>>, c)
      BY DEF Has
    <2>9. TreeTypes(tree)
      <3>1. NewNode \in Nodes
        BY DEF NewNode, Nodes
      <3>2. \A r \in DOMAIN tree : tree[r] \in Nodes
        BY <2>4, <2>5, <2>6, <2>7, <3>1 DEF TreeInv, TreeTypes
      <3>3. tree = [r \in DOMAIN tree |-> tree[r]]
        BY DEF tree, WithNode
      <3> QED
        BY <1>3, <2>4, <3>2, <3>3 DEF TreeInv, TreeTypes
    <2>10. NodesLinked(tree)
      <3> SUFFICES ASSUME NEW r \in Seq(Kids), NEW c \in Kids
                   PROVE  Append(r, c) \in DOMAIN tree <=> r \in DOMAIN tree /\ Has(tree[r].children, c)
        BY DEF NodesLinked
      <3>1. Append(r, c) \in DOMAIN t <=> r \in DOMAIN t /\ Has(t[r].children, c)
        BY DEF TreeInv, NodesLinked
      <3>2. Append(r, c) = q <=> r = p /\ c = new
        BY <1>1, <1>2, AppendsDiffer
      <3>3. CASE r = q
        BY <1>3, <2>2, <2>4, <2>5, <2>8, <3>1, <3>2, <3>3
      <3>4. CASE r = p
        BY <1>1, <2>3, <2>4, <2>6, <3>1, <3>2, <3>4
      <3>5. CASE r # p /\ r # q
        BY <2>4, <2>7, <3>1, <3>2, <3>5
      <3> QED
        BY <3>3, <3>4, <3>5
    <2>11. NodesSorted(tree)
      <3>1. \A R : Sorted(<<>>, R)
        BY DEF Sorted
      <3> SUFFICES ASSUME NEW r \in DOMAIN tree
                   PROVE  Sorted(tree[r].children, ChildOrder(r)) /\ Sorted(tree[r].handlers, HandlerOrder)
        BY DEF NodesSorted
      <3>2. CASE r = q
        BY <2>5, <3>1, <3>2
      <3>3. CASE r = p
        BY <1>1, <2>3, <2>6, <3>3 DEF TreeInv, NodesSorted
      <3>4. CASE r # p /\ r # q
        BY <2>4, <2>7, <3>4 DEF TreeInv, NodesSorted
      <3> QED
        BY <3>2, <3>3, <3>4
    <2>12. NodesNamed(tree)
      <3> SUFFICES ASSUME NEW r \in DOMAIN tree, NEW c \in Kids, Has(tree[r].children, c)
                   PROVE  IF r = <<>> THEN ~c.high ELSE c.name \in Names
        BY DEF NodesNamed
      <3>1. r # q
        BY <2>5, <2>8
      <3>2. CASE r = p
        <4>1. CASE c = new
          BY <3>2, <4>1 DEF FitsUnder
        <4>2. CASE c # new
          BY <1>1, <2>3, <2>6, <3>2, <4>2 DEF TreeInv, NodesNamed
        <4> QED
          BY <4>1, <4>2
      <3>3. CASE r # p
        BY <2>4, <2>7, <3>1, <3>3 DEF TreeInv, NodesNamed
      <3> QED
        BY <3>2, <3>3
    <2>13. \A r : HandlersAt(tree, r) = HandlersAt(t, r)
      BY <1>1, <2>2, <2>4, <2>5, <2>6, <2>7 DEF HandlersAt
    <2>14. TreeInv(tree)
      BY <2>9, <2>10, <2>11, <2>12 DEF TreeInv
    <2> DEFINE g == GetNode(at, name, high)
    <2>0. g = [tree |-> tree, path |-> q]
      BY <2>1
    <2> HIDE DEF at, g, q
    <2>15. g.tree = tree /\ g = [tree |-> g.tree, path |-> q]
      BY <2>0
    <2>16. Reaches(g, t, p, new)
      BY <2>4, <2>13, <2>14, <2>15 DEF Reaches, q
    <2> QED
      BY <2>16 DEF g, at
  <1> QED
    BY <1>6, <1>7

-----------------------------------------------------------------------------
(* The way a pattern leads.                                                *)

\* The steps from the root to the node a pattern ends at.
Way(method, segments, high) ==
    [k \in 1..(Len(segments) + 1) |->
        [name |-> IF k = 1 THEN method ELSE segments[k - 1], high |-> IF k = 1 THEN FALSE ELSE high]]

\* w is such a way.
IsWay(w, method, segments, high) == w = Way(method, segments, high)

\* Its first k steps.
WayTo(w, k) == [j \in 1..k |-> w[j]]

(* A way to a node is a sequence of children, and goes on from the way     *)
(* before.                                                                 *)
LEMMA WaysAre ==
    ASSUME NEW w \in Seq(Kids), NEW k \in 0..Len(w)
    PROVE  /\ WayTo(w, k) \in Seq(Kids)
           /\ Len(WayTo(w, k)) = k
           /\ k = 0 => WayTo(w, k) = <<>>
           /\ k # 0 => WayTo(w, k) # <<>>
           /\ k = Len(w) => WayTo(w, k) = w
           /\ k # Len(w) => w[k + 1] \in Kids /\ WayTo(w, k + 1) = Append(WayTo(w, k), w[k + 1])
  <1>0. Len(w) \in Nat /\ k \in Nat /\ \A j \in 1..k : w[j] \in Kids
    OBVIOUS
  <1>1. WayTo(w, k) \in Seq(Kids) /\ Len(WayTo(w, k)) = k
    BY <1>0 DEF WayTo
  <1>2. \A j \in 1..k : WayTo(w, k)[j] = w[j]
    BY DEF WayTo
  <1>3. k = Len(w) => WayTo(w, k) = w
    BY <1>1, <1>2
  <1>4. ASSUME k # Len(w)
        PROVE  w[k + 1] \in Kids /\ WayTo(w, k + 1) = Append(WayTo(w, k), w[k + 1])
    <2>1. k + 1 \in 1..Len(w)
      BY <1>0, <1>4
    <2>2. w[k + 1] \in Kids
      BY <2>1
    <2> DEFINE a == WayTo(w, k + 1)
               p == WayTo(w, k)
               x == w[k + 1]
               b == Append(p, x)
    <2>3. a \in Seq(Kids) /\ Len(a) = k + 1 /\ \A j \in 1..(k + 1) : a[j] = w[j]
      <3>1. \A j \in 1..(k + 1) : w[j] \in Kids
        BY <1>0, <2>2
      <3> QED
        BY <1>0, <3>1 DEF WayTo
    <2>4. p \in Seq(Kids) /\ x \in Kids /\ Len(p) = k
      BY <1>1, <2>2
    <2>5. \A j \in 1..k : p[j] = w[j]
      BY <1>2
    <2> HIDE DEF a, p, x
    <2>6. b \in Seq(Kids) /\ Len(b) = k + 1 /\ b[k + 1] = x /\ \A j \in 1..k : b[j] = p[j]
      BY <2>4, Appends
    <2>7. \A j \in 1..(k + 1) : a[j] = b[j]
      BY <1>0, <2>3, <2>5, <2>6 DEF x
    <2>8. a = b
      BY <2>3, <2>6, <2>7
    <2> QED
      BY <2>2, <2>8 DEF a, p, x
  <1>5. k # 0 => WayTo(w, k) # <<>>
    BY <1>1
  <1>6. k = 0 => WayTo(w, k) = <<>>
    BY <1>1
  <1> QED
    BY <1>1, <1>3, <1>4, <1>5, <1>6

(* The way of a pattern is its method and its segments.                    *)
LEMMA WayIs ==
    ASSUME NEW method \in STRING, NEW segments \in Seq(Names), NEW high \in BOOLEAN
    PROVE  /\ Way(method, segments, high) \in Seq(Kids)
           /\ Len(Way(method, segments, high)) = Len(segments) + 1
           /\ Way(method, segments, high)[1] = [name |-> method, high |-> FALSE]
           /\ \A k \in 1..Len(segments) :
                 Way(method, segments, high)[k + 1] = [name |-> segments[k], high |-> high]
  <1> DEFINE n == Len(segments)
             w == Way(method, segments, high)
  <1>1. n \in Nat /\ n + 1 \in Nat /\ 1 \in 1..(n + 1)
    OBVIOUS
  <1>2. ASSUME NEW k \in 1..(n + 1)
        PROVE  w[k] \in Kids
    <2>1. k # 1 => k - 1 \in 1..n
      BY <1>1
    <2>2. w[k] = [name |-> IF k = 1 THEN method ELSE segments[k - 1], high |-> IF k = 1 THEN FALSE ELSE high]
      BY DEF Way
    <2>3. CASE k = 1
      BY <2>2, <2>3 DEF Kids
    <2>4. CASE k # 1
      <3>1. segments[k - 1] \in Names
        BY <2>1, <2>4
      <3> QED
        BY <2>2, <2>4, <3>1 DEF Kids
    <2> QED
      BY <2>3, <2>4
  <1>3. w = [k \in 1..(n + 1) |-> w[k]]
    BY DEF Way
  <1>4. ASSUME NEW k \in 1..n
        PROVE  w[k + 1] = [name |-> segments[k], high |-> high]
    <2>1. k + 1 \in 1..(n + 1) /\ k + 1 # 1 /\ k + 1 - 1 = k
      BY <1>1
    <2> QED
      BY <2>1 DEF Way
  <1>5. w[1] = [name |-> method, high |-> FALSE]
    BY <1>1 DEF Way
  <1> HIDE DEF w
  <1>6. w \in Seq(Kids) /\ Len(w) = n + 1
    BY <1>1, <1>2, <1>3
  <1> QED
    BY <1>4, <1>5, <1>6 DEF w

(* The nodes on the way, one after the other (add).                        *)
Walk(f, n, tree, method, segments, high) ==
    f = [i \in 0..n |-> IF i = 0 THEN GetNode([tree |-> tree, path |-> <<>>], method, FALSE)
                        ELSE GetNode(f[i - 1], segments[i], high)]

(* There is such a walk.                                                   *)
LEMMA WalkExists ==
    ASSUME NEW tree, NEW method, NEW segments, NEW high
    PROVE  \A n \in Nat : \E f : Walk(f, n, tree, method, segments, high)
  <1> DEFINE T == {n \in Nat : \E f : Walk(f, n, tree, method, segments, high)}
  <1>1. 0 \in T
    <2>1. Walk([i \in 0..0 |-> GetNode([tree |-> tree, path |-> <<>>], method, FALSE)], 0, tree, method, segments, high)
      BY DEF Walk
    <2> QED
      BY <2>1
  <1>2. ASSUME NEW m \in Nat, m \in T
        PROVE  m + 1 \in T
    <2>1. PICK g : Walk(g, m, tree, method, segments, high)
      BY <1>2
    <2> DEFINE f == [i \in 0..(m + 1) |-> IF i = m + 1 THEN GetNode(g[m], segments[m + 1], high) ELSE g[i]]
               h == [i \in 0..(m + 1) |-> IF i = 0 THEN GetNode([tree |-> tree, path |-> <<>>], method, FALSE)
                                          ELSE GetNode(f[i - 1], segments[i], high)]
    <2>2. ASSUME NEW i \in 0..(m + 1)
          PROVE  f[i] = h[i]
      <3>1. CASE i = m + 1
        <4>1. i # 0 /\ i - 1 = m /\ m \in 0..(m + 1) /\ m # m + 1
          BY <3>1
        <4>2. f[i - 1] = g[m]
          BY <4>1
        <4> QED
          BY <3>1, <4>1, <4>2
      <3>2. CASE i # m + 1
        <4>1. i \in 0..m
          BY <3>2
        <4>2. f[i] = g[i]
          BY <3>2
        <4>3. CASE i = 0
          BY <2>1, <4>1, <4>2, <4>3 DEF Walk
        <4>4. CASE i # 0
          <5>1. i - 1 \in 0..(m + 1) /\ i - 1 # m + 1
            BY <4>1, <4>4
          <5>2. f[i - 1] = g[i - 1]
            BY <5>1
          <5>3. g[i] = GetNode(g[i - 1], segments[i], high)
            BY <2>1, <4>1, <4>4 DEF Walk
          <5> QED
            BY <4>2, <4>4, <5>2, <5>3
        <4> QED
          BY <4>3, <4>4
      <3> QED
        BY <3>1, <3>2
    <2>3. f = h
      BY <2>2
    <2> HIDE DEF f
    <2>4. Walk(f, m + 1, tree, method, segments, high)
      BY <2>3 DEF Walk
    <2> QED
      BY <2>4
  <1> HIDE DEF T
  <1>3. Nat \subseteq T
    BY <1>1, <1>2, Induction
  <1> QED
    BY <1>3 DEF T

(* Where a walk is after so many segments: the nodes up to there are in    *)
(* the tree, and no handler has moved.                                     *)
WalkedTo(g, t, w, i) ==
    /\ g = [tree |-> g.tree, path |-> WayTo(w, i + 1)]
    /\ TreeInv(g.tree)
    /\ DOMAIN g.tree = DOMAIN t \cup {WayTo(w, k) : k \in 1..(i + 1)}
    /\ \A q : HandlersAt(g.tree, q) = HandlersAt(t, q)

(* No empty name comes after siblings of its priority.                     *)
EmptiesFit(t, w) ==
    \A k \in 2..Len(w), c \in Kids :
        /\ w[k].name = NoSegment
        /\ Append(WayTo(w, k - 1), c) \in DOMAIN t
        /\ c.high = w[k].high
        => c.name = NoSegment

(* The walk goes from node to node, and adds those that are missing.       *)
LEMMA Walked ==
    ASSUME NEW t, TreeInv(t), NEW method \in STRING, NEW segments \in Seq(Names), NEW high \in BOOLEAN,
           NEW f, NEW n \in Nat, n = Len(segments), Walk(f, n, t, method, segments, high),
           NEW w, IsWay(w, method, segments, high), EmptiesFit(t, w)
    PROVE  \A i \in 0..n : WalkedTo(f[i], t, w, i)
  <1>1. n \in Nat
    OBVIOUS
  <1>2. /\ w \in Seq(Kids) /\ Len(w) = n + 1
        /\ w[1] = [name |-> method, high |-> FALSE]
        /\ \A k \in 1..n : w[k + 1] = [name |-> segments[k], high |-> high]
    BY WayIs DEF IsWay
  <1>3. \A k \in 0..Len(w) :
           /\ WayTo(w, k) \in Seq(Kids)
           /\ Len(WayTo(w, k)) = k
           /\ k = 0 => WayTo(w, k) = <<>>
           /\ k # 0 => WayTo(w, k) # <<>>
           /\ k = Len(w) => WayTo(w, k) = w
           /\ k # Len(w) => w[k + 1] \in Kids /\ WayTo(w, k + 1) = Append(WayTo(w, k), w[k + 1])
    BY <1>2, WaysAre
  <1> DEFINE T == {i \in Nat : i <= n => WalkedTo(f[i], t, w, i)}
  <1>4. 0 \in T
    <2> DEFINE start == <<>>
               x == [name |-> method, high |-> FALSE]
    <2>1. 0 \in 0..n /\ 0 \in 0..Len(w) /\ 0 # Len(w) /\ 0 + 1 = 1
      BY <1>1, <1>2
    <2>2. f[0] = GetNode([tree |-> t, path |-> <<>>], method, FALSE)
      BY <2>1 DEF Walk
    <2>3. FitsUnder(t, <<>>, method, FALSE)
      BY DEF FitsUnder, TreeInv, TreeTypes
    <2>4. Reaches(f[0], t, <<>>, w[1])
      <3> DEFINE no == FALSE
      <3>1. w[1] = [name |-> method, high |-> no] /\ FitsUnder(t, start, method, no)
        BY <1>2, <2>3
      <3>2. f[0] = GetNode([tree |-> t, path |-> start], method, no)
        BY <2>2
      <3> HIDE DEF no, start
      <3>3. Reaches(GetNode([tree |-> t, path |-> start], method, no), t, start, w[1])
        BY <3>1, GetNodeIs
      <3>4. Reaches(f[0], t, start, w[1])
        BY <3>2, <3>3
      <3> QED
        BY <3>4 DEF start
    <2>5. WayTo(w, 1) = Append(<<>>, w[1])
      BY <1>3, <2>1
    <2>6. {WayTo(w, k) : k \in 1..1} = {WayTo(w, 1)}
      BY <2>1
    <2> QED
      BY <2>1, <2>4, <2>5, <2>6 DEF Reaches, WalkedTo
  <1>5. ASSUME NEW i \in Nat, i \in T
        PROVE  i + 1 \in T
    <2> SUFFICES ASSUME i + 1 <= n
                 PROVE  WalkedTo(f[i + 1], t, w, i + 1)
      OBVIOUS
    <2> DEFINE g == f[i]
               p == WayTo(w, i + 1)
               name == segments[i + 1]
               x == w[i + 2]
    <2>1. /\ i <= n /\ i + 1 \in 0..n /\ i + 1 # 0 /\ i + 1 - 1 = i /\ i + 1 \in 1..n
          /\ i + 1 \in 0..Len(w) /\ i + 1 # Len(w) /\ i + 1 + 1 = i + 2 /\ i + 2 \in 2..Len(w)
          /\ i + 2 - 1 = i + 1
      BY <1>1, <1>2
    <2>2. f[i + 1] = GetNode(g, name, high)
      BY <2>1 DEF Walk
    <2>3. /\ g = [tree |-> g.tree, path |-> p]
          /\ TreeInv(g.tree)
          /\ DOMAIN g.tree = DOMAIN t \cup {WayTo(w, k) : k \in 1..(i + 1)}
          /\ \A q : HandlersAt(g.tree, q) = HandlersAt(t, q)
      BY <1>5, <2>1 DEF WalkedTo
    <2>4. x = [name |-> name, high |-> high] /\ x \in Kids /\ name \in Names
      BY <1>2, <1>3, <2>1
    <2>5. p \in Seq(Kids) /\ p # <<>> /\ Len(p) = i + 1 /\ p \in DOMAIN g.tree /\ WayTo(w, i + 2) = Append(p, x)
      BY <1>3, <2>1, <2>3
    <2>6. FitsUnder(g.tree, p, name, high)
      <3>1. ASSUME NEW c \in Kids, name = NoSegment, Has(g.tree[p].children, c), c.high = high
            PROVE  c.name = NoSegment
        <4>1. Append(p, c) \in DOMAIN g.tree
          BY <2>3, <2>5, <3>1 DEF TreeInv, NodesLinked
        <4>2. Len(Append(p, c)) = i + 2
          <5> HIDE DEF p
          <5>1. Len(Append(p, c)) = Len(p) + 1
            BY <2>5, Appends
          <5> QED
            BY <2>1, <2>5, <5>1
        <4>3. \A k \in 1..(i + 1) : WayTo(w, k) # Append(p, c)
          <5> SUFFICES ASSUME NEW k \in 1..(i + 1), WayTo(w, k) = Append(p, c)
                       PROVE  FALSE
            OBVIOUS
          <5>1. k \in 0..Len(w) /\ k # i + 2
            BY <1>2, <2>1
          <5>2. Len(WayTo(w, k)) = k
            BY <1>3, <5>1
          <5> QED
            BY <4>2, <5>1, <5>2
        <4>4. Append(p, c) \in DOMAIN t
          BY <2>3, <4>1, <4>3
        <4>5. x.name = NoSegment /\ x.high = high
          BY <2>4, <3>1
        <4> QED
          BY <2>1, <3>1, <4>4, <4>5 DEF EmptiesFit
      <3> QED
        BY <2>4, <2>5, <3>1 DEF FitsUnder
    <2>7. Reaches(f[i + 1], g.tree, p, x)
      <3> DEFINE h == g.tree
      <3>1. g = [tree |-> h, path |-> p]
        BY <2>3
      <3>2. TreeInv(h) /\ FitsUnder(h, p, name, high)
        BY <2>3, <2>6
      <3> HIDE DEF h, p, x, name, g
      <3>3. Reaches(GetNode([tree |-> h, path |-> p], name, high), h, p, x)
        BY <2>4, <3>2, GetNodeIs
      <3> QED
        BY <2>2, <3>1, <3>3 DEF h
    <2>8. {WayTo(w, k) : k \in 1..(i + 1)} \cup {WayTo(w, i + 2)} = {WayTo(w, k) : k \in 1..(i + 1 + 1)}
      <3>1. \A k : k \in 1..(i + 1 + 1) <=> k \in 1..(i + 1) \/ k = i + 2
        BY <2>1
      <3> QED
        BY <3>1
    <2> QED
      BY <2>1, <2>3, <2>5, <2>7, <2>8 DEF Reaches, WalkedTo
  <1> HIDE DEF T
  <1>6. Nat \subseteq T
    BY <1>4, <1>5, Induction
  <1> QED
    BY <1>1, <1>6 DEF T

(* What a tree has of a set of entries, each the way to a handler and the  *)
(* handler: the nodes on the ways, and the handlers at their ends.         *)
Entries == Seq(Kids) \X Handlers

\* t has the nodes and the handlers of E.
Built(t, E) ==
    /\ TreeInv(t)
    /\ \A p : p \in DOMAIN t <=> p = <<>> \/ \E e \in E : \E k \in 1..Len(e[1]) : p = WayTo(e[1], k)
    /\ \A p, h : Has(HandlersAt(t, p), h) <=> <<p, h>> \in E

\* What add does at the end of the walk.
EndWith(g, handler) ==
    LET handlers == g.tree[g.path].handlers
        behind == {i \in DOMAIN handlers : HandlerPrecedes(handler, handlers[i])}
    IN  [g.tree EXCEPT ![g.path].handlers = Insertion(@, handler, behind)]

(* A handler at the end of a walk.                                         *)
LEMMA HandlerAdded ==
    ASSUME NEW t, NEW E \in SUBSET Entries, Built(t, E), NEW w \in Seq(Kids), NEW n \in Nat, Len(w) = n + 1,
           NEW g, WalkedTo(g, t, w, n), NEW handler \in Handlers
    PROVE  Built(EndWith(g, handler), E \cup {<<w, handler>>})
  <1> DEFINE u == g.tree
             hs == u[w].handlers
             behind == {i \in DOMAIN hs : HandlerPrecedes(handler, hs[i])}
             ys == Insertion(hs, handler, behind)
             v == [u EXCEPT ![w].handlers = ys]
  <1>1. /\ g = [tree |-> u, path |-> w] /\ g.path = w
        /\ TreeInv(u)
        /\ \A p : p \in DOMAIN u <=> p \in DOMAIN t \/ \E k \in 1..Len(w) : p = WayTo(w, k)
        /\ \A q : HandlersAt(u, q) = HandlersAt(t, q)
    <2>1. n + 1 \in 0..Len(w) /\ n + 1 = Len(w)
      OBVIOUS
    <2>2. WayTo(w, n + 1) = w
      BY <2>1, WaysAre
    <2>3. g = [tree |-> u, path |-> w]
      BY <2>2 DEF WalkedTo
    <2>4. DOMAIN u = DOMAIN t \cup {WayTo(w, k) : k \in 1..Len(w)}
      BY DEF WalkedTo
    <2>5. g.path = w
      BY <2>3
    <2> QED
      BY <2>3, <2>4, <2>5 DEF WalkedTo
  <1>2. w \in DOMAIN u /\ w # <<>> /\ u[w] \in Nodes /\ hs \in Seq(Handlers) /\ Sorted(hs, HandlerOrder)
    <2>1. Len(w) \in 1..Len(w) /\ Len(w) \in 0..Len(w)
      OBVIOUS
    <2>2. WayTo(w, Len(w)) = w
      BY <2>1, WaysAre
    <2>3. w \in DOMAIN u
      BY <1>1, <2>1, <2>2
    <2>4. w # <<>>
      OBVIOUS
    <2> QED
      BY <1>1, <2>3, <2>4 DEF TreeInv, TreeTypes, NodesSorted, Nodes
  <1>3. EndWith(g, handler) = v
    BY <1>1 DEF EndWith
  <1>4. ys \in Seq(Handlers) /\ Sorted(ys, HandlerOrder) /\ \A h : Has(ys, h) <=> Has(hs, h) \/ h = handler
    <2>1. \A i \in 1..Len(hs) : hs[i] \in Handlers
      BY <1>2
    <2>2. \A i \in 1..Len(hs) : i \in behind <=> HandlerPrecedes(handler, hs[i])
      BY <1>2
    <2>3. \A a, b \in Handlers : /\ HandlerPrecedes(a, b) => ~HandlerPrecedes(b, a)
                                 /\ \A c \in Handlers : HandlerPrecedes(c, a) /\ ~HandlerPrecedes(b, a)
                                       => HandlerPrecedes(c, b)
      BY DEF HandlerPrecedes, Handlers
    <2>4. ASSUME NEW i \in 1..Len(hs), NEW j \in 1..Len(hs), i \in behind, i < j
          PROVE  j \in behind
      <3>1. ~HandlerPrecedes(hs[j], hs[i]) /\ HandlerPrecedes(handler, hs[i])
        BY <1>2, <2>2, <2>4 DEF Sorted, HandlerOrder
      <3> QED
        BY <2>1, <2>2, <2>3, <3>1
    <2>5. ASSUME NEW i \in 1..Len(hs)
          PROVE  IF i \in behind THEN <<handler, hs[i]>> \in HandlerOrder
                 ELSE <<hs[i], handler>> \in HandlerOrder
      <3>1. CASE i \in behind
        <4>1. ~HandlerPrecedes(hs[i], handler)
          BY <2>1, <2>2, <2>3, <3>1
        <4> QED
          BY <2>1, <3>1, <4>1 DEF HandlerOrder
      <3>2. CASE i \notin behind
        BY <2>1, <2>2, <3>2 DEF HandlerOrder
      <3> QED
        BY <3>1, <3>2
    <2> HIDE DEF hs, behind
    <2>6. Parts(hs, handler, HandlerOrder, behind)
      BY <2>4, <2>5 DEF Parts
    <2> QED
      BY <1>2, <2>6, InsertionSorted
  <1> HIDE DEF ys
  <1>5. DOMAIN v = DOMAIN u /\ v[w] = [u[w] EXCEPT !.handlers = ys] /\ \A p \in DOMAIN u : p # w => v[p] = u[p]
    BY <1>2
  <1>6. v[w].children = u[w].children /\ v[w].handlers = ys /\ v[w] \in Nodes
    BY <1>2, <1>4, <1>5 DEF Nodes
  <1>7. v = [p \in DOMAIN u |-> v[p]]
    BY <1>1, <1>2 DEF TreeInv, TreeTypes
  <1> HIDE DEF v, u
  <1>8. \A p \in DOMAIN u : v[p].children = u[p].children
    BY <1>5, <1>6
  <1>9. TreeInv(v)
    <2>1. TreeTypes(v)
      <3>1. \A p \in DOMAIN u : v[p] \in Nodes
        BY <1>1, <1>5, <1>6 DEF TreeInv, TreeTypes
      <3> QED
        BY <1>1, <1>5, <1>7, <3>1 DEF TreeInv, TreeTypes
    <2>2. NodesLinked(v)
      BY <1>1, <1>5, <1>8 DEF TreeInv, NodesLinked
    <2>3. NodesSorted(v)
      <3> SUFFICES ASSUME NEW p \in DOMAIN u
                   PROVE  Sorted(v[p].children, ChildOrder(p)) /\ Sorted(v[p].handlers, HandlerOrder)
        BY <1>5 DEF NodesSorted
      <3>1. Sorted(u[p].children, ChildOrder(p)) /\ Sorted(u[p].handlers, HandlerOrder)
        BY <1>1 DEF TreeInv, NodesSorted
      <3> QED
        BY <1>4, <1>5, <1>6, <1>8, <3>1
    <2>4. NodesNamed(v)
      BY <1>1, <1>5, <1>8 DEF TreeInv, NodesNamed
    <2> QED
      BY <2>1, <2>2, <2>3, <2>4 DEF TreeInv
  <1>10. ASSUME NEW p
         PROVE  p \in DOMAIN v <=>
                   p = <<>> \/ \E e \in E \cup {<<w, handler>>} : \E k \in 1..Len(e[1]) : p = WayTo(e[1], k)
    <2>1. p \in DOMAIN u <=> p \in DOMAIN t \/ \E k \in 1..Len(w) : p = WayTo(w, k)
      BY <1>1
    <2>2. p \in DOMAIN t <=> p = <<>> \/ \E e \in E : \E k \in 1..Len(e[1]) : p = WayTo(e[1], k)
      BY DEF Built
    <2>3. <<w, handler>>[1] = w
      OBVIOUS
    <2> QED
      BY <1>5, <2>1, <2>2, <2>3
  <1>11. ASSUME NEW p, NEW h
         PROVE  Has(HandlersAt(v, p), h) <=> <<p, h>> \in E \cup {<<w, handler>>}
    <2>1. Has(HandlersAt(u, p), h) <=> <<p, h>> \in E
      BY <1>1 DEF Built
    <2>2. CASE p = w
      <3>1. HandlersAt(v, p) = ys /\ HandlersAt(u, p) = hs
        BY <1>2, <1>5, <1>6, <2>2 DEF HandlersAt, hs
      <3> QED
        BY <1>4, <2>1, <2>2, <3>1
    <2>3. CASE p # w
      <3>1. HandlersAt(v, p) = HandlersAt(u, p)
        BY <1>5, <2>3 DEF HandlersAt
      <3> QED
        BY <2>1, <2>3, <3>1
    <2> QED
      BY <2>2, <2>3
  <1>12. Built(v, E \cup {<<w, handler>>})
    BY <1>9, <1>10, <1>11 DEF Built
  <1> QED
    BY <1>3, <1>12

(* A route under one of its methods.                                       *)
LEMMA AddedUnder ==
    ASSUME NEW t, NEW E \in SUBSET Entries, Built(t, E), NEW method \in STRING, NEW route, NEW id \in Nat,
           NEW segments \in Seq(Names), segments = Segments(route.pattern), route.priority \in Nat,
           NEW w, IsWay(w, method, segments, route.priority = HIGH_PRIORITY), EmptiesFit(t, w)
    PROVE  Built(AddUnder(t, method, route, id), E \cup {<<w, [id |-> id, priority |-> route.priority]>>})
  <1> DEFINE n == Len(segments)
             handler == [id |-> id, priority |-> route.priority]
             high == route.priority = HIGH_PRIORITY
             f == CHOOSE f : f = [i \in 0..n |-> IF i = 0 THEN GetNode([tree |-> t, path |-> <<>>], method, FALSE)
                                                 ELSE GetNode(f[i - 1], segments[i], high)]
  <1>1. Walk(f, n, t, method, segments, high)
    <2>1. n \in Nat
      OBVIOUS
    <2> HIDE DEF n, high
    <2>2. PICK g : Walk(g, n, t, method, segments, high)
      BY <2>1, WalkExists
    <2> QED
      BY <2>2 DEF Walk
  <1>2. AddUnder(t, method, route, id) = EndWith(f[n], handler)
    BY DEF AddUnder, EndWith
  <1>3. n \in Nat /\ n = Len(segments) /\ high \in BOOLEAN /\ TreeInv(t) /\ IsWay(w, method, segments, high)
    BY DEF Built
  <1>4. handler \in Handlers
    BY DEF Handlers
  <1>5. w \in Seq(Kids) /\ Len(w) = n + 1
    <2> HIDE DEF high
    <2> QED
      BY <1>3, WayIs DEF IsWay
  <1> HIDE DEF f, n, high, handler
  <1>6. \A i \in 0..n : WalkedTo(f[i], t, w, i)
    BY <1>1, <1>3, Walked
  <1>7. WalkedTo(f[n], t, w, n)
    BY <1>3, <1>6
  <1>8. Built(EndWith(f[n], handler), E \cup {<<w, handler>>})
    BY <1>3, <1>4, <1>5, <1>7, HandlerAdded
  <1> QED
    BY <1>2, <1>8 DEF handler

-----------------------------------------------------------------------------
(* The routes of a program.                                                *)

\* What a program may register.
Routes == [methods : Seq(STRING), pattern : Seq(Names), priority : 1..3, does : STRING]

\* The pattern, the priority, the handler and the way of a route.
PatternOf(rs, r) == Segments(rs[r].pattern)
HighOf(rs, r) == rs[r].priority = HIGH_PRIORITY
HandlerFor(rs, r) == [id |-> r, priority |-> rs[r].priority]
WayOf(rs, r, j) == Way(rs[r].methods[j], PatternOf(rs, r), HighOf(rs, r))

(* A walk sees no more segments than there is room for.                    *)
LEMMA SegmentsAre ==
    ASSUME NEW S, NEW url \in Seq(S)
    PROVE  /\ Segments(url) \in Seq(S)
           /\ Len(Segments(url)) \in 0..MaxSegments
           /\ Len(Segments(url)) <= Len(url)
           /\ \A i \in 1..Len(Segments(url)) : Segments(url)[i] = url[i]
  <1> DEFINE n == IF Len(url) < MaxSegments THEN Len(url) ELSE MaxSegments
  <1>1. n \in Nat /\ n <= MaxSegments /\ n <= Len(url) /\ Len(url) \in Nat
    BY SegmentsAssumption
  <1>2. Segments(url) = SubSeq(url, 1, n)
    BY DEF Segments
  <1> HIDE DEF n
  <1>3. \A i \in 1..n : i \in 1..Len(url) /\ url[i] \in S
    BY <1>1
  <1>4. SubSeq(url, 1, n) \in Seq(S) /\ Len(SubSeq(url, 1, n)) = n /\ \A i \in 1..n : SubSeq(url, 1, n)[i] = url[i]
    BY <1>1, <1>3
  <1> QED
    BY <1>1, <1>2, <1>4

(* What a route is.                                                        *)
LEMMA RouteIs ==
    ASSUME NEW rs \in Seq(Routes), NEW r \in 1..Len(rs)
    PROVE  /\ PatternOf(rs, r) \in Seq(Names)
           /\ Len(PatternOf(rs, r)) \in 0..MaxSegments
           /\ Len(PatternOf(rs, r)) \in Nat
           /\ rs[r].methods \in Seq(STRING)
           /\ rs[r].priority \in Nat
           /\ HighOf(rs, r) \in BOOLEAN
           /\ HandlerFor(rs, r) \in Handlers
           /\ r \in Nat
  <1>1. rs[r] \in Routes
    OBVIOUS
  <1>2. rs[r].pattern \in Seq(Names) /\ rs[r].methods \in Seq(STRING) /\ rs[r].priority \in Nat
    BY <1>1 DEF Routes
  <1>3. PatternOf(rs, r) \in Seq(Names) /\ Len(PatternOf(rs, r)) \in 0..MaxSegments
    BY <1>2, SegmentsAre DEF PatternOf
  <1>4. Len(PatternOf(rs, r)) \in Nat
    BY <1>3
  <1>5. HighOf(rs, r) \in BOOLEAN
    BY DEF HighOf
  <1>6. r \in Nat
    OBVIOUS
  <1> QED
    BY <1>2, <1>3, <1>4, <1>5, <1>6 DEF HandlerFor, Handlers

(* The way of a route.                                                     *)
LEMMA WayOfIs ==
    ASSUME NEW rs \in Seq(Routes), NEW r \in 1..Len(rs), NEW j \in 1..Len(rs[r].methods)
    PROVE  /\ WayOf(rs, r, j) \in Seq(Kids)
           /\ Len(WayOf(rs, r, j)) = Len(PatternOf(rs, r)) + 1
           /\ WayOf(rs, r, j)[1] = [name |-> rs[r].methods[j], high |-> FALSE]
           /\ \A k \in 1..Len(PatternOf(rs, r)) :
                 WayOf(rs, r, j)[k + 1] = [name |-> PatternOf(rs, r)[k], high |-> HighOf(rs, r)]
           /\ rs[r].methods[j] \in STRING
  <1> DEFINE method == rs[r].methods[j]
             segments == PatternOf(rs, r)
             high == HighOf(rs, r)
  <1>1. method \in STRING /\ segments \in Seq(Names) /\ high \in BOOLEAN
    BY RouteIs
  <1> HIDE DEF method, segments, high
  <1>2. WayOf(rs, r, j) = Way(method, segments, high)
    BY DEF WayOf, method, segments, high
  <1>3. /\ Way(method, segments, high) \in Seq(Kids)
        /\ Len(Way(method, segments, high)) = Len(segments) + 1
        /\ Way(method, segments, high)[1] = [name |-> method, high |-> FALSE]
        /\ \A k \in 1..Len(segments) :
              Way(method, segments, high)[k + 1] = [name |-> segments[k], high |-> high]
    BY <1>1, WayIs
  <1>4. /\ WayOf(rs, r, j) \in Seq(Kids)
        /\ Len(WayOf(rs, r, j)) = Len(segments) + 1
        /\ WayOf(rs, r, j)[1] = [name |-> method, high |-> FALSE]
        /\ \A k \in 1..Len(segments) : WayOf(rs, r, j)[k + 1] = [name |-> segments[k], high |-> high]
    BY <1>2, <1>3
  <1> QED
    BY <1>1, <1>4 DEF method, segments, high

(* The entries of the routes in front of route n, and of that under its    *)
(* first k methods.                                                        *)
Pairs(rs, n, k) ==
    {c \in (1..Len(rs)) \X Nat :
        c[2] \in 1..Len(rs[c[1]].methods) /\ (c[1] < n \/ (c[1] = n /\ c[2] <= k))}

\* The entry of route r under its method j.
EntryOf(rs, r, j) == <<WayOf(rs, r, j), HandlerFor(rs, r)>>

\* Those entries.
UpTo(rs, n, k) == {EntryOf(rs, c[1], c[2]) : c \in Pairs(rs, n, k)}

(* What is in front of what.                                               *)
LEMMA PairsAre ==
    ASSUME NEW rs \in Seq(Routes)
    PROVE  /\ Pairs(rs, 1, 0) = {}
           /\ \A n \in 1..Len(rs) :
                 /\ Pairs(rs, n + 1, 0) = Pairs(rs, n, Len(rs[n].methods))
                 /\ \A k \in Nat : k + 1 \in 1..Len(rs[n].methods)
                       => Pairs(rs, n, k + 1) = Pairs(rs, n, k) \cup {<<n, k + 1>>}
  <1>1. \A c \in (1..Len(rs)) \X Nat : c[1] \in 1..Len(rs) /\ c[2] \in Nat /\ c = <<c[1], c[2]>>
    OBVIOUS
  <1>2. Pairs(rs, 1, 0) = {}
    <2> SUFFICES ASSUME NEW c \in (1..Len(rs)) \X Nat, c[2] \in 1..Len(rs[c[1]].methods),
                        c[1] < 1 \/ (c[1] = 1 /\ c[2] <= 0)
                 PROVE  FALSE
      BY DEF Pairs
    <2> QED
      BY <1>1
  <1>3. ASSUME NEW n \in 1..Len(rs)
        PROVE  Pairs(rs, n + 1, 0) = Pairs(rs, n, Len(rs[n].methods))
    <2> SUFFICES ASSUME NEW c \in (1..Len(rs)) \X Nat, c[2] \in 1..Len(rs[c[1]].methods)
                 PROVE  (c[1] < n + 1 \/ (c[1] = n + 1 /\ c[2] <= 0))
                            <=> (c[1] < n \/ (c[1] = n /\ c[2] <= Len(rs[n].methods)))
      BY DEF Pairs
    <2>1. c[1] \in Int /\ c[2] \in Int /\ n \in Int /\ ~(c[2] <= 0)
      BY <1>1
    <2> DEFINE x == c[1]
               y == c[2]
               last == Len(rs[n].methods)
    <2>2. x = n => y \in 1..last
      OBVIOUS
    <2>3. last \in Nat
      <3>1. rs[n].methods \in Seq(STRING)
        BY RouteIs
      <3> QED
        BY <3>1
    <2> HIDE DEF x, y, last
    <2>4. (x < n + 1 \/ (x = n + 1 /\ y <= 0)) <=> (x < n \/ (x = n /\ y <= last))
      BY <2>1, <2>2, <2>3 DEF x, y
    <2> QED
      BY <2>4 DEF x, y, last
  <1>4. ASSUME NEW n \in 1..Len(rs), NEW k \in Nat, k + 1 \in 1..Len(rs[n].methods)
        PROVE  Pairs(rs, n, k + 1) = Pairs(rs, n, k) \cup {<<n, k + 1>>}
    <2>1. <<n, k + 1>> \in (1..Len(rs)) \X Nat /\ <<n, k + 1>>[1] = n /\ <<n, k + 1>>[2] = k + 1
      OBVIOUS
    <2>2. ASSUME NEW c \in (1..Len(rs)) \X Nat, c[2] \in 1..Len(rs[c[1]].methods)
          PROVE  (c[1] < n \/ (c[1] = n /\ c[2] <= k + 1))
                            <=> (c[1] < n \/ (c[1] = n /\ c[2] <= k)) \/ c = <<n, k + 1>>
      <3> DEFINE x == c[1]
                 y == c[2]
      <3>1. x \in Int /\ y \in Int /\ c = <<x, y>> /\ n \in Int
        BY <1>1
      <3> HIDE DEF x, y
      <3>2. c = <<n, k + 1>> <=> x = n /\ y = k + 1
        BY <3>1
      <3>3. (x < n \/ (x = n /\ y <= k + 1)) <=> (x < n \/ (x = n /\ y <= k)) \/ (x = n /\ y = k + 1)
        BY <3>1
      <3> QED
        BY <3>2, <3>3 DEF x, y
    <2>3. <<n, k + 1>> \in Pairs(rs, n, k + 1)
      BY <1>4, <2>1 DEF Pairs
    <2>4. ASSUME NEW c
          PROVE  c \in Pairs(rs, n, k + 1) <=> c \in Pairs(rs, n, k) \/ c = <<n, k + 1>>
      BY <2>2, <2>3 DEF Pairs
    <2> QED
      BY <2>4
  <1> QED
    BY <1>2, <1>3, <1>4

(* The entries are such.                                                   *)
LEMMA EntriesAre ==
    ASSUME NEW rs \in Seq(Routes), NEW n, NEW k
    PROVE  UpTo(rs, n, k) \in SUBSET Entries
  <1> SUFFICES ASSUME NEW c \in Pairs(rs, n, k)
               PROVE  EntryOf(rs, c[1], c[2]) \in Entries
    BY DEF UpTo
  <1>1. c[1] \in 1..Len(rs) /\ c[2] \in 1..Len(rs[c[1]].methods)
    BY DEF Pairs
  <1>2. WayOf(rs, c[1], c[2]) \in Seq(Kids)
    BY <1>1, WayOfIs
  <1>3. HandlerFor(rs, c[1]) \in Handlers
    BY <1>1, RouteIs
  <1> QED
    BY <1>2, <1>3 DEF EntryOf, Entries

(* A way to a node is the beginning of one that leads through it.          *)
LEMMA WayToAt ==
    ASSUME NEW w, NEW k \in Nat, NEW j \in 1..k
    PROVE  WayTo(w, k)[j] = w[j]
  BY DEF WayTo

(* What EmptyFirst says of two routes.                                     *)
LEMMA EmptyFirstIs ==
    ASSUME NEW rs \in Seq(Routes), EmptyFirst(rs), NEW a \in 1..Len(rs), NEW b \in 1..Len(rs), a < b,
           NEW i \in Nat, i \in 1..Len(PatternOf(rs, a)), i \in 1..Len(PatternOf(rs, b)),
           NEW x \in 1..Len(rs[a].methods), NEW y \in 1..Len(rs[b].methods),
           rs[a].methods[x] = rs[b].methods[y],
           HighOf(rs, a) = HighOf(rs, b),
           \A j \in 1..(i - 1) : PatternOf(rs, a)[j] = PatternOf(rs, b)[j],
           PatternOf(rs, b)[i] = NoSegment
    PROVE  PatternOf(rs, a)[i] = NoSegment
  <1> DEFINE p == PatternOf(rs, a)
             q == PatternOf(rs, b)
             m == rs[a].methods
             l == rs[b].methods
  <1>1. /\ p \in Seq(Names) /\ q \in Seq(Names) /\ Len(p) \in 0..MaxSegments
        /\ m \in Seq(STRING) /\ l \in Seq(STRING) /\ DOMAIN rs = 1..Len(rs)
    BY RouteIs
  <1>2. i \in 1..MaxSegments /\ i \in DOMAIN p \cap DOMAIN q
    BY <1>1, SegmentsAssumption
  <1>3. Range(m) \cap Range(l) # {}
    <2>1. m[x] \in Range(m) /\ l[y] \in Range(l)
      BY <1>1 DEF Range
    <2> QED
      BY <2>1
  <1>4. Siblings(rs, a, b, i)
    <2> HIDE DEF m, l
    <2>1. /\ i \in DOMAIN p \cap DOMAIN q
          /\ Range(m) \cap Range(l) # {}
          /\ (rs[a].priority = HIGH_PRIORITY) = (rs[b].priority = HIGH_PRIORITY)
          /\ \A j \in 1..(i - 1) : p[j] = q[j]
      BY <1>2, <1>3 DEF HighOf
    <2> QED
      BY <2>1 DEF Siblings, PatternOf, m, l
  <1> QED
    BY <1>1, <1>2, <1>4 DEF EmptyFirst, PatternOf

(* A route whose empty names come before their siblings may be added.      *)
LEMMA Fits ==
    ASSUME NEW rs \in Seq(Routes), EmptyFirst(rs),
           NEW n \in 1..Len(rs), NEW k \in 1..Len(rs[n].methods), NEW l,
           NEW t, Built(t, UpTo(rs, n, l))
    PROVE  EmptiesFit(t, WayOf(rs, n, k))
  <1> DEFINE w == WayOf(rs, n, k)
             q == PatternOf(rs, n)
  <1> SUFFICES ASSUME NEW m \in 2..Len(w), NEW c \in Kids,
                      w[m].name = NoSegment, Append(WayTo(w, m - 1), c) \in DOMAIN t, c.high = w[m].high
               PROVE  c.name = NoSegment
    BY DEF EmptiesFit
  <1> DEFINE here == WayTo(w, m - 1)
             p == Append(here, c)
  <1>1. /\ w \in Seq(Kids) /\ Len(w) = Len(q) + 1 /\ Len(q) \in Nat
        /\ w[1] = [name |-> rs[n].methods[k], high |-> FALSE]
        /\ \A i \in 1..Len(q) : w[i + 1] = [name |-> q[i], high |-> HighOf(rs, n)]
    BY WayOfIs, RouteIs
  <1>2. m \in Nat /\ m <= Len(q) + 1 /\ m - 1 \in 1..Len(q) /\ m - 1 + 1 = m /\ m - 1 \in 0..Len(w) /\ m - 1 \in Nat
    BY <1>1
  <1>3. here \in Seq(Kids) /\ Len(here) = m - 1 /\ \A i \in 1..(m - 1) : here[i] = w[i]
    BY <1>1, <1>2, WaysAre, WayToAt
  <1> HIDE DEF here
  <1>4. p \in Seq(Kids) /\ p # <<>> /\ Len(p) = m /\ p[m] = c /\ \A i \in 1..(m - 1) : p[i] = here[i]
    BY <1>2, <1>3, Appends
  <1>5. p \in DOMAIN t
    BY DEF here
  <1> HIDE DEF p
  <1>6. PICK e \in UpTo(rs, n, l) : \E i \in 1..Len(e[1]) : p = WayTo(e[1], i)
    BY <1>4, <1>5 DEF Built
  <1>7. PICK d \in Pairs(rs, n, l) : e = EntryOf(rs, d[1], d[2])
    BY <1>6 DEF UpTo
  <1> DEFINE r == d[1]
             v == WayOf(rs, d[1], d[2])
             o == PatternOf(rs, d[1])
  <1>8. d[1] \in 1..Len(rs) /\ d[2] \in 1..Len(rs[d[1]].methods) /\ (d[1] < n \/ d[1] = n)
    BY <1>7 DEF Pairs
  <1>9. /\ v \in Seq(Kids) /\ Len(v) = Len(o) + 1 /\ Len(o) \in Nat
        /\ v[1] = [name |-> rs[d[1]].methods[d[2]], high |-> FALSE]
        /\ \A i \in 1..Len(o) : v[i + 1] = [name |-> o[i], high |-> HighOf(rs, d[1])]
    BY <1>8, WayOfIs, RouteIs
  <1>10. e[1] = v
    BY <1>7 DEF EntryOf
  <1>11. PICK i \in 1..Len(v) : p = WayTo(v, i)
    BY <1>6, <1>10
  <1>12. i = m
    <2>1. i \in 0..Len(v)
      OBVIOUS
    <2>2. Len(WayTo(v, i)) = i
      BY <1>9, <2>1, WaysAre
    <2> QED
      BY <1>4, <1>11, <2>2
  <1>13. /\ m - 1 \in 1..Len(o)
         /\ v[m] = c
         /\ \A j \in 1..(m - 1) : v[j] = w[j]
    <2>1. \A j \in 1..m : p[j] = v[j]
      BY <1>2, <1>11, <1>12, WayToAt
    <2>2. m \in 1..m /\ \A j \in 1..(m - 1) : j \in 1..m
      BY <1>2
    <2>3. m - 1 \in 1..Len(o)
      BY <1>2, <1>9, <1>12
    <2> QED
      BY <1>3, <1>4, <2>1, <2>2, <2>3
  <1> HIDE DEF w, v
  <1>14. /\ c = [name |-> o[m - 1], high |-> HighOf(rs, d[1])]
         /\ w[m] = [name |-> q[m - 1], high |-> HighOf(rs, n)]
    BY <1>1, <1>2, <1>9, <1>13
  <1>15. q[m - 1] = NoSegment /\ HighOf(rs, d[1]) = HighOf(rs, n) /\ c.name = o[m - 1]
    BY <1>14
  <1>16. CASE d[1] = n
    BY <1>15, <1>16
  <1>17. CASE d[1] < n
    <2>1. \A j \in 1..(m - 1 - 1) : o[j] = q[j]
      <3> SUFFICES ASSUME NEW j \in 1..(m - 1 - 1)
                   PROVE  o[j] = q[j]
        OBVIOUS
      <3>1. j + 1 \in 1..(m - 1) /\ j \in 1..Len(o) /\ j \in 1..Len(q)
        BY <1>2, <1>13
      <3>2. v[j + 1] = w[j + 1]
        BY <1>13, <3>1
      <3>3. [name |-> o[j], high |-> HighOf(rs, d[1])].name = [name |-> q[j], high |-> HighOf(rs, n)].name
        BY <1>1, <1>9, <3>1, <3>2
      <3> QED
        BY <3>3
    <2>2. rs[d[1]].methods[d[2]] = rs[n].methods[k]
      <3>1. 1 \in 1..(m - 1)
        BY <1>2
      <3>2. v[1] = w[1]
        BY <1>13, <3>1
      <3>3. [name |-> rs[d[1]].methods[d[2]], high |-> FALSE].name = [name |-> rs[n].methods[k], high |-> FALSE].name
        BY <1>1, <1>9, <3>2
      <3> QED
        BY <3>3
    <2>3. m - 1 \in Nat /\ m - 1 \in 1..Len(q)
      BY <1>2
    <2> HIDE DEF o, q
    <2>4. PatternOf(rs, d[1])[m - 1] = NoSegment
      BY <1>8, <1>13, <1>15, <1>17, <2>1, <2>2, <2>3, EmptyFirstIs DEF o, q
    <2> QED
      BY <1>15, <2>4 DEF o
  <1> QED
    BY <1>8, <1>16, <1>17

(* The trees with more and more methods of a route (add).                  *)
Adding(f, n, tree, route, id) ==
    f = [i \in 0..n |-> IF i = 0 THEN tree
                        ELSE AddUnder(f[i - 1], route.methods[i], route, id)]

(* There are such.                                                         *)
LEMMA AddingExists ==
    ASSUME NEW tree, NEW route, NEW id
    PROVE  \A n \in Nat : \E f : Adding(f, n, tree, route, id)
  <1> DEFINE T == {n \in Nat : \E f : Adding(f, n, tree, route, id)}
  <1>1. 0 \in T
    <2>1. Adding([i \in 0..0 |-> tree], 0, tree, route, id)
      BY DEF Adding
    <2> QED
      BY <2>1
  <1>2. ASSUME NEW m \in Nat, m \in T
        PROVE  m + 1 \in T
    <2>1. PICK g : Adding(g, m, tree, route, id)
      BY <1>2
    <2> DEFINE f == [i \in 0..(m + 1) |-> IF i = m + 1 THEN AddUnder(g[m], route.methods[m + 1], route, id) ELSE g[i]]
               h == [i \in 0..(m + 1) |-> IF i = 0 THEN tree
                                          ELSE AddUnder(f[i - 1], route.methods[i], route, id)]
    <2>2. ASSUME NEW i \in 0..(m + 1)
          PROVE  f[i] = h[i]
      <3>1. CASE i = m + 1
        <4>1. i # 0 /\ i - 1 = m /\ m \in 0..(m + 1) /\ m # m + 1
          BY <3>1
        <4>2. f[i - 1] = g[m]
          BY <4>1
        <4> QED
          BY <3>1, <4>1, <4>2
      <3>2. CASE i # m + 1
        <4>1. i \in 0..m
          BY <3>2
        <4>2. f[i] = g[i]
          BY <3>2
        <4>3. CASE i = 0
          BY <2>1, <4>1, <4>2, <4>3 DEF Adding
        <4>4. CASE i # 0
          <5>1. i - 1 \in 0..(m + 1) /\ i - 1 # m + 1
            BY <4>1, <4>4
          <5>2. f[i - 1] = g[i - 1]
            BY <5>1
          <5>3. g[i] = AddUnder(g[i - 1], route.methods[i], route, id)
            BY <2>1, <4>1, <4>4 DEF Adding
          <5> QED
            BY <4>2, <4>4, <5>2, <5>3
        <4> QED
          BY <4>3, <4>4
      <3> QED
        BY <3>1, <3>2
    <2>3. f = h
      BY <2>2
    <2> HIDE DEF f
    <2>4. Adding(f, m + 1, tree, route, id)
      BY <2>3 DEF Adding
    <2> QED
      BY <2>4
  <1> HIDE DEF T
  <1>3. Nat \subseteq T
    BY <1>1, <1>2, Induction
  <1> QED
    BY <1>3 DEF T

(* The trees with more and more routes.                                    *)
Growing(f, n, rs) ==
    f = [i \in 0..n |-> IF i = 0 THEN EmptyTree
                        ELSE Add(f[i - 1], rs[i], i)]

(* There are such.                                                         *)
LEMMA GrowingExists ==
    ASSUME NEW rs
    PROVE  \A n \in Nat : \E f : Growing(f, n, rs)
  <1> DEFINE T == {n \in Nat : \E f : Growing(f, n, rs)}
  <1>1. 0 \in T
    <2>1. Growing([i \in 0..0 |-> EmptyTree], 0, rs)
      BY DEF Growing
    <2> QED
      BY <2>1
  <1>2. ASSUME NEW m \in Nat, m \in T
        PROVE  m + 1 \in T
    <2>1. PICK g : Growing(g, m, rs)
      BY <1>2
    <2> DEFINE f == [i \in 0..(m + 1) |-> IF i = m + 1 THEN Add(g[m], rs[m + 1], m + 1) ELSE g[i]]
               h == [i \in 0..(m + 1) |-> IF i = 0 THEN EmptyTree
                                          ELSE Add(f[i - 1], rs[i], i)]
    <2>2. ASSUME NEW i \in 0..(m + 1)
          PROVE  f[i] = h[i]
      <3>1. CASE i = m + 1
        <4>1. i # 0 /\ i - 1 = m /\ m \in 0..(m + 1) /\ m # m + 1
          BY <3>1
        <4>2. f[i - 1] = g[m]
          BY <4>1
        <4> QED
          BY <3>1, <4>1, <4>2
      <3>2. CASE i # m + 1
        <4>1. i \in 0..m
          BY <3>2
        <4>2. f[i] = g[i]
          BY <3>2
        <4>3. CASE i = 0
          BY <2>1, <4>1, <4>2, <4>3 DEF Growing
        <4>4. CASE i # 0
          <5>1. i - 1 \in 0..(m + 1) /\ i - 1 # m + 1
            BY <4>1, <4>4
          <5>2. f[i - 1] = g[i - 1]
            BY <5>1
          <5>3. g[i] = Add(g[i - 1], rs[i], i)
            BY <2>1, <4>1, <4>4 DEF Growing
          <5> QED
            BY <4>2, <4>4, <5>2, <5>3
        <4> QED
          BY <4>3, <4>4
      <3> QED
        BY <3>1, <3>2
    <2>3. f = h
      BY <2>2
    <2> HIDE DEF f
    <2>4. Growing(f, m + 1, rs)
      BY <2>3 DEF Growing
    <2> QED
      BY <2>4
  <1> HIDE DEF T
  <1>3. Nat \subseteq T
    BY <1>1, <1>2, Induction
  <1> QED
    BY <1>3 DEF T

(* One entry after the other.                                              *)
LEMMA UpToNext ==
    ASSUME NEW rs \in Seq(Routes)
    PROVE  /\ UpTo(rs, 1, 0) = {}
           /\ \A n \in 1..Len(rs) :
                 /\ UpTo(rs, n + 1, 0) = UpTo(rs, n, Len(rs[n].methods))
                 /\ \A k \in Nat : k + 1 \in 1..Len(rs[n].methods)
                       => UpTo(rs, n, k + 1) = UpTo(rs, n, k) \cup {EntryOf(rs, n, k + 1)}
  <1>1. UpTo(rs, 1, 0) = {}
    BY PairsAre DEF UpTo
  <1>2. ASSUME NEW n \in 1..Len(rs)
        PROVE  UpTo(rs, n + 1, 0) = UpTo(rs, n, Len(rs[n].methods))
    <2>1. Pairs(rs, n + 1, 0) = Pairs(rs, n, Len(rs[n].methods))
      BY PairsAre
    <2> QED
      BY <2>1 DEF UpTo
  <1>3. ASSUME NEW n \in 1..Len(rs), NEW k \in Nat, k + 1 \in 1..Len(rs[n].methods)
        PROVE  UpTo(rs, n, k + 1) = UpTo(rs, n, k) \cup {EntryOf(rs, n, k + 1)}
    <2> DEFINE j == k + 1
    <2>1. Pairs(rs, n, j) = Pairs(rs, n, k) \cup {<<n, j>>}
      BY <1>3, PairsAre
    <2> HIDE DEF j
    <2>2. <<n, j>>[1] = n /\ <<n, j>>[2] = j
      OBVIOUS
    <2>3. UpTo(rs, n, j) = UpTo(rs, n, k) \cup {EntryOf(rs, n, j)}
      BY <2>1, <2>2 DEF UpTo
    <2> QED
      BY <2>3 DEF j
  <1> QED
    BY <1>1, <1>2, <1>3

(* A route under each of its methods.                                      *)
LEMMA RouteAdded ==
    ASSUME NEW rs \in Seq(Routes), EmptyFirst(rs), NEW n \in 1..Len(rs),
           NEW t, Built(t, UpTo(rs, n, 0))
    PROVE  Built(Add(t, rs[n], n), UpTo(rs, n + 1, 0))
  <1> DEFINE route == rs[n]
             last == Len(rs[n].methods)
             f == CHOOSE f : f = [i \in 0..last |-> IF i = 0 THEN t
                                                    ELSE AddUnder(f[i - 1], route.methods[i], route, n)]
  <1>1. last \in Nat /\ n \in Nat /\ rs[n].methods \in Seq(STRING)
    <2>1. rs[n].methods \in Seq(STRING)
      BY RouteIs
    <2> QED
      BY <2>1
  <1> HIDE DEF last
  <1>2. Adding(f, last, t, route, n)
    <2> HIDE DEF route
    <2>1. PICK g : Adding(g, last, t, route, n)
      BY <1>1, AddingExists
    <2> QED
      BY <2>1 DEF Adding
  <1>3. Add(t, route, n) = f[last]
    BY DEF Add, last
  <1> HIDE DEF f
  <1> DEFINE T == {k \in Nat : k <= last => Built(f[k], UpTo(rs, n, k))}
  <1>4. 0 \in T
    BY <1>1, <1>2 DEF Adding
  <1>5. ASSUME NEW k \in Nat, k \in T
        PROVE  k + 1 \in T
    <2> SUFFICES ASSUME k + 1 <= last
                 PROVE  Built(f[k + 1], UpTo(rs, n, k + 1))
      BY <1>1
    <2> DEFINE j == k + 1
               E == UpTo(rs, n, k)
               u == f[k]
               method == rs[n].methods[j]
               w == WayOf(rs, n, j)
               segments == PatternOf(rs, n)
    <2>1. /\ k <= last /\ j \in 0..last /\ j # 0 /\ j - 1 = k /\ j \in 1..last
      BY <1>1
    <2>2. Built(u, E)
      BY <1>5, <2>1
    <2>3. f[j] = AddUnder(u, method, route, n)
      BY <1>2, <2>1 DEF Adding
    <2>4. UpTo(rs, n, j) = E \cup {EntryOf(rs, n, j)}
      BY <1>1, <2>1, UpToNext DEF last
    <2>5. E \in SUBSET Entries
      BY EntriesAre
    <2>6. method \in STRING /\ segments \in Seq(Names) /\ segments = Segments(route.pattern) /\ route.priority \in Nat
      <3>1. j \in 1..Len(rs[n].methods)
        BY <2>1 DEF last
      <3> HIDE DEF j
      <3> QED
        BY <3>1, WayOfIs, RouteIs DEF PatternOf
    <2>7. EmptiesFit(u, w)
      <3>1. j \in 1..Len(rs[n].methods)
        BY <2>1 DEF last
      <3> HIDE DEF u, j
      <3> QED
        BY <2>2, <3>1, Fits
    <2>8. IsWay(w, method, segments, route.priority = HIGH_PRIORITY)
      BY DEF IsWay, WayOf, HighOf
    <2> HIDE DEF E, u, w, method, segments, j, route
    <2>9. Built(AddUnder(u, method, route, n), E \cup {<<w, [id |-> n, priority |-> route.priority]>>})
      BY <1>1, <2>2, <2>5, <2>6, <2>7, <2>8, AddedUnder
    <2>10. EntryOf(rs, n, j) = <<w, [id |-> n, priority |-> route.priority]>>
      BY DEF EntryOf, HandlerFor, w, route
    <2>11. Built(f[j], UpTo(rs, n, j))
      BY <2>3, <2>4, <2>9, <2>10
    <2> QED
      BY <2>11 DEF j
  <1> HIDE DEF T
  <1>6. last \in T
    BY <1>1, <1>4, <1>5, Induction
  <1>7. Built(f[last], UpTo(rs, n, last))
    BY <1>1, <1>6 DEF T
  <1>8. UpTo(rs, n + 1, 0) = UpTo(rs, n, last)
    BY UpToNext DEF last
  <1> QED
    BY <1>3, <1>7, <1>8

(* The tree of an App has the entries of its routes.                       *)
AllOf(rs) == UpTo(rs, Len(rs) + 1, 0)

(* The tree has the entries of all routes, and nothing else.               *)
THEOREM TreeBuilt ==
    ASSUME NEW rs \in Seq(Routes), EmptyFirst(rs)
    PROVE  Built(TreeOf(rs), AllOf(rs))
  <1> DEFINE n == Len(rs)
             f == CHOOSE f : f = [i \in 0..n |-> IF i = 0 THEN EmptyTree ELSE Add(f[i - 1], rs[i], i)]
  <1>1. n \in Nat
    OBVIOUS
  <1> HIDE DEF n
  <1>2. Growing(f, n, rs)
    <2>1. PICK g : Growing(g, n, rs)
      BY <1>1, GrowingExists
    <2> QED
      BY <2>1 DEF Growing
  <1>3. TreeOf(rs) = f[n]
    BY DEF TreeOf, n
  <1> HIDE DEF f
  <1> DEFINE T == {k \in Nat : k <= n => Built(f[k], UpTo(rs, k + 1, 0))}
  <1>4. 0 \in T
    <2>1. f[0] = EmptyTree /\ UpTo(rs, 0 + 1, 0) = {}
      BY <1>1, <1>2, UpToNext DEF Growing
    <2> DEFINE t == EmptyTree
    <2>2. /\ DOMAIN t = {<<>>} /\ t[<<>>] = NewNode /\ t[<<>>].children = <<>> /\ t[<<>>].handlers = <<>>
          /\ t[<<>>] \in Nodes /\ t = [p \in DOMAIN t |-> t[p]]
      BY DEF EmptyTree, NewNode, Nodes
    <2>3. (\A c : ~Has(<<>>, c)) /\ (\A R : Sorted(<<>>, R)) /\ <<>> \in Seq(Kids)
      BY DEF Has, Sorted
    <2> HIDE DEF t
    <2>4. TreeTypes(t)
      BY <2>2, <2>3 DEF TreeTypes
    <2>5. NodesLinked(t)
      <3>1. \A p \in Seq(Kids), c \in Kids : Append(p, c) # <<>>
        BY Appends
      <3>2. \A p \in Seq(Kids), c \in Kids : Append(p, c) \notin DOMAIN t
        BY <2>2, <3>1
      <3>3. \A p \in DOMAIN t, c \in Kids : ~Has(t[p].children, c)
        BY <2>2, <2>3
      <3> QED
        BY <3>2, <3>3 DEF NodesLinked
    <2>6. NodesSorted(t) /\ NodesNamed(t)
      BY <2>2, <2>3 DEF NodesSorted, NodesNamed
    <2>7. \A p, h : ~Has(HandlersAt(t, p), h)
      <3> SUFFICES ASSUME NEW p
                   PROVE  HandlersAt(t, p) = <<>>
        BY <2>3
      <3> QED
        BY <2>2 DEF HandlersAt
    <2>8. Built(t, {})
      BY <2>2, <2>4, <2>5, <2>6, <2>7 DEF Built, TreeInv
    <2> QED
      BY <2>1, <2>8 DEF t
  <1>5. ASSUME NEW k \in Nat, k \in T
        PROVE  k + 1 \in T
    <2> SUFFICES ASSUME k + 1 <= n
                 PROVE  Built(f[k + 1], UpTo(rs, k + 1 + 1, 0))
      BY <1>1
    <2> DEFINE j == k + 1
    <2>1. k <= n /\ j \in 0..n /\ j # 0 /\ j - 1 = k /\ j \in 1..n
      BY <1>1
    <2>2. f[j] = Add(f[k], rs[j], j)
      BY <1>2, <2>1 DEF Growing
    <2>3. Built(f[k], UpTo(rs, j, 0)) /\ j \in 1..Len(rs)
      BY <1>5, <2>1 DEF n
    <2> HIDE DEF j
    <2>4. Built(f[j], UpTo(rs, j + 1, 0))
      BY <2>2, <2>3, RouteAdded
    <2> QED
      BY <2>4 DEF j
  <1> HIDE DEF T
  <1>6. n \in T
    BY <1>1, <1>4, <1>5, Induction
  <1>7. Built(f[n], UpTo(rs, n + 1, 0))
    BY <1>1, <1>6 DEF T
  <1> QED
    BY <1>3, <1>7 DEF AllOf, n

-----------------------------------------------------------------------------
(* The walk of a request.                                                  *)

(* What a child of the node at a path answers, given the answers below.    *)
Try(f, t, path, url, yielding, child) ==
    IF child.name[1] = "*"
      THEN Call(t[Append(path, child)].handlers, RouteParameters(path, url), yielding)
    ELSE IF \/ child.name[1] = ":" /\ url[Len(path)] # NoSegment
            \/ child.name = url[Len(path)]
      THEN f[Append(path, child)]
    ELSE NoRoute

\* The first child that does not answer NoRoute.
FirstToAnswer(f, t, path, url, yielding) ==
    SelectInSeq(t[path].children, LAMBDA child : Try(f, t, path, url, yielding, child) # NoRoute)

(* What the node answers.                                                  *)
AnswerAt(f, t, path, url, yielding) ==
    IF Len(path) > Len(url)
      THEN Call(t[path].handlers, RouteParameters(path, url), yielding)
    ELSE IF FirstToAnswer(f, t, path, url, yielding) = 0 THEN NoRoute
    ELSE Try(f, t, path, url, yielding, t[path].children[FirstToAnswer(f, t, path, url, yielding)])

\* f is what all nodes answer.
Answering(f, t, url, yielding) == f = [path \in DOMAIN t |-> AnswerAt(f, t, path, url, yielding)]

(* It depends on the answers of the children only.                         *)
LEMMA AnswerDepends ==
    ASSUME NEW t, TreeInv(t), NEW url, NEW yielding, NEW f, NEW g, NEW path \in DOMAIN t,
           Len(url) \in Nat,
           Len(path) <= Len(url) =>
              \A c \in Kids : Has(t[path].children, c) => f[Append(path, c)] = g[Append(path, c)]
    PROVE  AnswerAt(f, t, path, url, yielding) = AnswerAt(g, t, path, url, yielding)
  <1> DEFINE xs == t[path].children
             I(h) == {i \in 1..Len(xs) : Try(h, t, path, url, yielding, xs[i]) # NoRoute}
             at(h) == FirstToAnswer(h, t, path, url, yielding)
  <1>1. xs \in Seq(Kids)
    BY DEF TreeInv, TreeTypes, Nodes
  <1>2. CASE Len(path) > Len(url)
    BY <1>2 DEF AnswerAt
  <1>3. CASE ~(Len(path) > Len(url))
    <2>1. path \in Seq(Kids)
      BY DEF TreeInv, TreeTypes
    <2>2. Len(path) <= Len(url)
      BY <1>3, <2>1
    <2>3. ASSUME NEW i \in 1..Len(xs)
          PROVE  Try(f, t, path, url, yielding, xs[i]) = Try(g, t, path, url, yielding, xs[i])
      <3>1. xs[i] \in Kids /\ Has(xs, xs[i])
        BY <1>1 DEF Has
      <3> HIDE DEF xs
      <3>2. f[Append(path, xs[i])] = g[Append(path, xs[i])]
        BY <2>2, <3>1 DEF xs
      <3> QED
        BY <3>2 DEF Try
    <2>4. I(f) = I(g)
      BY <2>3
    <2>5. \A h : at(h) = IF I(h) # {} THEN Min(I(h)) ELSE 0
      BY DEF SelectInSeq, FirstToAnswer
    <2>6. at(f) = at(g)
      BY <2>4, <2>5
    <2>7. at(f) # 0 => at(f) \in 1..Len(xs)
      <3>1. I(f) # {} => Min(I(f)) \in I(f)
        <4> DEFINE J == I(f)
                   n == Len(xs)
        <4>1. n \in Nat /\ J \in SUBSET (1..n)
          BY <1>1
        <4> HIDE DEF J, n
        <4>2. J # {} => Min(J) \in J
          BY <4>1, FirstOf
        <4> QED
          BY <4>2 DEF J
      <3> QED
        BY <2>5, <3>1
    <2>8. at(f) # 0 => Try(f, t, path, url, yielding, xs[at(f)]) = Try(g, t, path, url, yielding, xs[at(f)])
      BY <2>3, <2>7
    <2> QED
      BY <1>3, <2>6, <2>8 DEF AnswerAt
  <1> QED
    BY <1>2, <1>3

(* So there is such a function: the URL ends the walk.                     *)
AnswersFrom(f, t, url, yielding, n) ==
    /\ f = [path \in DOMAIN t |-> f[path]]
    /\ \A path \in DOMAIN t : Len(path) + n > Len(url) => f[path] = AnswerAt(f, t, path, url, yielding)

(* The answers of all nodes exist: there is room for one segment more at a *)
(* time.                                                                   *)
LEMMA AnsweringExists ==
    ASSUME NEW t, TreeInv(t), NEW url, NEW yielding, Len(url) \in Nat
    PROVE  \E f : Answering(f, t, url, yielding)
  <1> DEFINE T == {n \in Nat : \E f : AnswersFrom(f, t, url, yielding, n)}
  <1>0. \A path \in DOMAIN t : path \in Seq(Kids) /\ Len(path) \in Nat
    BY DEF TreeInv, TreeTypes
  <1>1. 0 \in T
    <2> DEFINE f == [path \in DOMAIN t |-> Call(t[path].handlers, RouteParameters(path, url), yielding)]
    <2>1. ASSUME NEW path \in DOMAIN t, Len(path) + 0 > Len(url)
          PROVE  f[path] = AnswerAt(f, t, path, url, yielding)
      <3>1. Len(path) > Len(url)
        BY <1>0, <2>1
      <3>2. f[path] = Call(t[path].handlers, RouteParameters(path, url), yielding)
        OBVIOUS
      <3> HIDE DEF f
      <3> QED
        BY <3>1, <3>2 DEF AnswerAt
    <2>2. f = [path \in DOMAIN t |-> f[path]]
      OBVIOUS
    <2> HIDE DEF f
    <2>3. AnswersFrom(f, t, url, yielding, 0)
      BY <2>1, <2>2 DEF AnswersFrom
    <2> QED
      BY <2>3
  <1>2. ASSUME NEW n \in Nat, n \in T
        PROVE  n + 1 \in T
    <2>1. PICK g : AnswersFrom(g, t, url, yielding, n)
      BY <1>2
    <2> DEFINE f == [path \in DOMAIN t |-> IF Len(path) + n > Len(url) THEN g[path]
                                           ELSE AnswerAt(g, t, path, url, yielding)]
    <2>2. \A path \in DOMAIN t : f[path] = IF Len(path) + n > Len(url) THEN g[path]
                                           ELSE AnswerAt(g, t, path, url, yielding)
      OBVIOUS
    <2>3. f = [path \in DOMAIN t |-> f[path]]
      OBVIOUS
    <2> HIDE DEF f
    <2>4. ASSUME NEW path \in DOMAIN t, Len(path) + (n + 1) > Len(url)
          PROVE  f[path] = AnswerAt(f, t, path, url, yielding)
      <3>1. ASSUME NEW c \in Kids, Has(t[path].children, c)
            PROVE  f[Append(path, c)] = g[Append(path, c)]
        <4> DEFINE q == Append(path, c)
        <4>1. q \in DOMAIN t
          BY <1>0, <3>1 DEF TreeInv, NodesLinked
        <4>2. Len(q) = Len(path) + 1
          BY <1>0, Appends
        <4> HIDE DEF q
        <4>3. Len(q) + n > Len(url)
          BY <1>0, <2>4, <4>2
        <4>4. f[q] = g[q]
          BY <2>2, <4>1, <4>3
        <4> QED
          BY <4>4 DEF q
      <3>2. AnswerAt(f, t, path, url, yielding) = AnswerAt(g, t, path, url, yielding)
        BY <3>1, AnswerDepends
      <3>3. CASE Len(path) + n > Len(url)
        BY <2>1, <2>2, <3>2, <3>3 DEF AnswersFrom
      <3>4. CASE ~(Len(path) + n > Len(url))
        BY <2>2, <3>2, <3>4
      <3> QED
        BY <3>3, <3>4
    <2>5. AnswersFrom(f, t, url, yielding, n + 1)
      BY <2>3, <2>4 DEF AnswersFrom
    <2> QED
      BY <2>5
  <1> HIDE DEF T
  <1>3. Nat \subseteq T
    BY <1>1, <1>2, Induction
  <1> DEFINE last == Len(url) + 1
  <1>4. last \in Nat /\ \A path \in DOMAIN t : Len(path) + last > Len(url)
    BY <1>0
  <1> HIDE DEF last
  <1>5. PICK f : AnswersFrom(f, t, url, yielding, last)
    BY <1>3, <1>4 DEF T
  <1>6. f = [path \in DOMAIN t |-> AnswerAt(f, t, path, url, yielding)]
    BY <1>4, <1>5 DEF AnswersFrom
  <1> QED
    BY <1>6 DEF Answering

(* And executeHandlers computes it.                                        *)
LEMMA ExecuteIs ==
    ASSUME NEW t, TreeInv(t), NEW url, NEW yielding, Len(url) \in Nat
    PROVE  \E f : Answering(f, t, url, yielding) /\ \A path : Execute(t, path, url, yielding) = f[path]
  <1> DEFINE f == CHOOSE f : f = [path \in DOMAIN t |-> AnswerAt(f, t, path, url, yielding)]
  <1>1. PICK g : Answering(g, t, url, yielding)
    BY AnsweringExists
  <1>2. Answering(f, t, url, yielding)
    BY <1>1 DEF Answering
  <1>3. \A path : Execute(t, path, url, yielding) = f[path]
    BY DEF Execute, AnswerAt, FirstToAnswer, Try
  <1> HIDE DEF f
  <1> QED
    BY <1>2, <1>3

-----------------------------------------------------------------------------
(* The answer.                                                             *)

(* A way that leads a URL to a handler.                                    *)
WayFits(w, u) ==
    /\ \A i \in 2..Len(w) : IF w[i].name[1] = "*" THEN i = Len(w) /\ i - 1 <= Len(u)
                            ELSE i - 1 <= Len(u) /\ SegmentMatches(w[i].name, u[i - 1])
    /\ Len(w) = Len(u) + 1 \/ (Len(w) >= 2 /\ w[Len(w)].name[1] = "*")

(* One that leads it so far.                                               *)
PrefixFits(p, u) ==
    /\ Len(p) \in 1..(Len(u) + 1)
    /\ \A i \in 2..Len(p) : p[i].name[1] # "*" /\ SegmentMatches(p[i].name, u[i - 1])

\* A way that leads through the node at p.
Through(w, p) == Len(p) <= Len(w) /\ \A i \in 1..Len(p) : w[i] = p[i]

\* The entries a walk at p may still choose from.
Chosen(E, p, u, yielding) == {e \in E : e[2].id \notin yielding /\ Through(e[1], p) /\ WayFits(e[1], u)}

(* The entry that comes first in a tree.                                   *)
Better(a, b) ==
    \/ a[1] = b[1] /\ ~HandlerPrecedes(b[2], a[2])
    \/ \E i \in 1..Len(a[1]) :
          /\ i <= Len(b[1])
          /\ \A j \in 1..(i - 1) : a[1][j] = b[1][j]
          /\ a[1][i] # b[1][i]
          /\ Before(a[1][i], b[1][i])

(* What a walk answers that has these entries to choose from.              *)
Right(answer, F, u) ==
    IF F = {} THEN answer = NoRoute
    ELSE \E e \in F : /\ \A o \in F : Better(e, o)
                      /\ answer = [id |-> e[2].id, params |-> RouteParameters(e[1], u)]

\* No entry has the number of NoRoute.
Numbered(E) == \A e \in E : e[2].id # 0

(* No answer is no route.                                                  *)
LEMMA RightIs ==
    ASSUME NEW a, NEW F, NEW u, Numbered(F), Right(a, F, u)
    PROVE  a = NoRoute <=> F = {}
  <1>1. ASSUME F # {}
        PROVE  a # NoRoute
    <2>1. PICK e \in F : a = [id |-> e[2].id, params |-> RouteParameters(e[1], u)]
      BY <1>1 DEF Right
    <2>2. a.id # 0 /\ NoRoute.id = 0
      BY <2>1 DEF Numbered, NoRoute
    <2> QED
      BY <2>2
  <1> QED
    BY <1>1 DEF Right

\* The entries that end at p.
EntriesAt(E, p, yielding) == {e \in E : e[1] = p /\ e[2].id \notin yielding}

\* a is what the first of them that does not yield answers.
Called(a, F, params) ==
    IF F = {} THEN a = NoRoute
    ELSE \E e \in F : /\ \A o \in F : ~HandlerPrecedes(o[2], e[2])
                      /\ a = [id |-> e[2].id, params |-> params]

(* Of the handlers of a node the oldest of the highest priority that does  *)
(* not yield is called.                                                    *)
LEMMA CallIs ==
    ASSUME NEW t, NEW E \in SUBSET Entries, Built(t, E), NEW p \in DOMAIN t, NEW params, NEW yielding
    PROVE  Called(Call(t[p].handlers, params, yielding), EntriesAt(E, p, yielding), params)
  <1> DEFINE F == {e \in E : e[1] = p /\ e[2].id \notin yielding}
             hs == t[p].handlers
             I == {i \in 1..Len(hs) : hs[i].id \notin yielding}
             n == Len(hs)
             at == IF I # {} THEN Min(I) ELSE 0
  <1>1. hs \in Seq(Handlers) /\ Sorted(hs, HandlerOrder) /\ TreeInv(t)
    BY DEF Built, TreeInv, TreeTypes, NodesSorted, Nodes
  <1>2. Call(hs, params, yielding) = IF at = 0 THEN NoRoute ELSE [id |-> hs[at].id, params |-> params]
    BY DEF Call, SelectInSeq
  <1>3. \A h : Has(hs, h) <=> <<p, h>> \in E
    <2>1. HandlersAt(t, p) = hs
      BY DEF HandlersAt
    <2> QED
      BY <2>1 DEF Built
  <1>4. ASSUME NEW e \in F
        PROVE  \E i \in I : hs[i] = e[2] /\ e = <<p, e[2]>>
    <2>1. e \in E /\ e[1] = p /\ e[2].id \notin yielding
      OBVIOUS
    <2>2. e = <<p, e[2]>>
      BY <2>1 DEF Entries
    <2>3. Has(hs, e[2])
      BY <1>3, <2>1, <2>2
    <2> QED
      BY <2>1, <2>2, <2>3 DEF Has
  <1>5. ASSUME NEW i \in I
        PROVE  <<p, hs[i]>> \in F
    <2>1. Has(hs, hs[i])
      BY DEF Has
    <2>2. <<p, hs[i]>> \in E /\ <<p, hs[i]>>[1] = p /\ <<p, hs[i]>>[2] = hs[i]
      BY <1>3, <2>1
    <2> QED
      BY <2>2
  <1>6. n \in Nat /\ I \in SUBSET (1..n)
    BY <1>1
  <1>7. I # {} => Min(I) \in I /\ \A j \in I : Min(I) <= j
    <2> HIDE DEF I, n
    <2> QED
      BY <1>6, FirstOf
  <1>8. ASSUME F = {}
        PROVE  Call(hs, params, yielding) = NoRoute
    <2>1. I = {}
      BY <1>5, <1>8
    <2> QED
      BY <1>2, <1>8, <2>1
  <1>9. ASSUME F # {}
        PROVE  \E e \in F : /\ \A o \in F : ~HandlerPrecedes(o[2], e[2])
                            /\ Call(hs, params, yielding) = [id |-> e[2].id, params |-> params]
    <2>1. I # {}
      BY <1>4, <1>9
    <2>2. at \in I /\ \A j \in I : at <= j
      BY <1>7, <2>1
    <2>3. at # 0 /\ at \in 1..n
      BY <2>2
    <2> HIDE DEF at
    <2> DEFINE e == <<p, hs[at]>>
    <2>4. e \in F /\ e[2] = hs[at]
      BY <1>5, <2>2
    <2>5. ASSUME NEW o \in F
          PROVE  ~HandlerPrecedes(o[2], hs[at])
      <3>1. PICK j \in I : hs[j] = o[2]
        BY <1>4
      <3>2. at <= j /\ j \in 1..n
        BY <2>2
      <3>3. hs[j] \in Handlers
        BY <1>1, <3>2
      <3>4. CASE at = j
        BY <3>1, <3>3, <3>4 DEF HandlerPrecedes, Handlers
      <3>5. CASE at # j
        <4>1. at < j
          BY <2>3, <3>2, <3>5
        <4>2. <<hs[at], hs[j]>> \in HandlerOrder
          BY <1>1, <2>3, <3>2, <4>1 DEF Sorted
        <4> QED
          BY <3>1, <4>2 DEF HandlerOrder
      <3> QED
        BY <3>4, <3>5
    <2>6. Call(hs, params, yielding) = [id |-> hs[at].id, params |-> params]
      BY <1>2, <2>3 DEF at
    <2> HIDE DEF hs, F
    <2> QED
      BY <1>9, <2>4, <2>5, <2>6
  <1> HIDE DEF F, hs
  <1>10. Called(Call(hs, params, yielding), F, params)
    BY <1>8, <1>9 DEF Called
  <1> QED
    BY <1>10 DEF F, hs, EntriesAt

(* Called at the end of the ways through p.                                *)
LEMMA CallRight ==
    ASSUME NEW t, NEW E \in SUBSET Entries, Built(t, E), NEW p \in DOMAIN t, NEW u, NEW yielding,
           NEW params, params = RouteParameters(p, u),
           \A e \in E : Through(e[1], p) /\ WayFits(e[1], u) <=> e[1] = p
    PROVE  Right(Call(t[p].handlers, params, yielding), Chosen(E, p, u, yielding), u)
  <1> DEFINE F == Chosen(E, p, u, yielding)
             a == Call(t[p].handlers, params, yielding)
  <1>1. F = EntriesAt(E, p, yielding)
    BY DEF Chosen, EntriesAt
  <1> HIDE DEF F, a
  <1>2. IF F = {} THEN a = NoRoute
        ELSE \E e \in F : /\ \A o \in F : ~HandlerPrecedes(o[2], e[2])
                          /\ a = [id |-> e[2].id, params |-> params]
    <2>1. Called(Call(t[p].handlers, params, yielding), F, params)
      BY <1>1, CallIs
    <2> QED
      BY <2>1 DEF a, Called
  <1>3. \A e \in F : e[1] = p
    BY <1>1 DEF EntriesAt
  <1>4. \A e, o \in F : ~HandlerPrecedes(o[2], e[2]) => Better(e, o)
    BY <1>3 DEF Better
  <1>5. Right(a, F, u)
    BY <1>2, <1>3, <1>4 DEF Right
  <1> QED
    BY <1>5 DEF a, F

-----------------------------------------------------------------------------
(* The nodes below a node.                                                 *)

(* What is known of a node the walk is at.                                 *)
At(t, E, p, u) ==
    /\ E \in SUBSET Entries /\ Built(t, E) /\ Numbered(E)
    /\ p \in DOMAIN t
    /\ Len(u) \in Nat
    /\ PrefixFits(p, u)

(* What is known of a node that a walk is at.                              *)
LEMMA AtIs ==
    ASSUME NEW t, NEW E, NEW p, NEW u, At(t, E, p, u)
    PROVE  /\ p \in Seq(Kids) /\ Len(p) \in Nat /\ Len(p) >= 1 /\ p # <<>>
           /\ TreeInv(t) /\ t[p].children \in Seq(Kids)
           /\ Len(u) \in Nat
           /\ \A e \in E : e[1] \in Seq(Kids) /\ Len(e[1]) \in Nat /\ e[2] \in Handlers
  <1>1. TreeInv(t) /\ p \in Seq(Kids) /\ t[p].children \in Seq(Kids)
    BY DEF At, Built, TreeInv, TreeTypes, Nodes
  <1>2. Len(p) \in Nat /\ Len(p) >= 1
    BY <1>1 DEF At, PrefixFits
  <1>3. p # <<>>
    BY <1>2
  <1>4. \A e \in E : e[1] \in Seq(Kids) /\ Len(e[1]) \in Nat /\ e[2] \in Handlers
    <2> SUFFICES ASSUME NEW e \in E
                 PROVE  e[1] \in Seq(Kids) /\ Len(e[1]) \in Nat /\ e[2] \in Handlers
      OBVIOUS
    <2>1. e \in Entries
      BY DEF At
    <2>2. e[1] \in Seq(Kids) /\ e[2] \in Handlers
      BY <2>1 DEF Entries
    <2> QED
      BY <2>2
  <1> QED
    BY <1>1, <1>2, <1>3, <1>4 DEF At

(* Where the URL ends there is nothing below.                              *)
LEMMA EndsHere ==
    ASSUME NEW t, NEW E, NEW p, NEW u, At(t, E, p, u), Len(p) = Len(u) + 1, NEW e \in E
    PROVE  Through(e[1], p) /\ WayFits(e[1], u) <=> e[1] = p
  <1> DEFINE w == e[1]
  <1>1. p \in Seq(Kids) /\ w \in Seq(Kids) /\ Len(w) \in Nat /\ Len(p) \in Nat /\ Len(p) >= 1 /\ Len(u) \in Nat
    BY AtIs
  <1> HIDE DEF w
  <1>2. ASSUME Through(w, p), WayFits(w, u)
        PROVE  w = p
    <2>1. Len(p) <= Len(w) /\ \A i \in 1..Len(p) : w[i] = p[i]
      BY <1>2 DEF Through
    <2>2. Len(w) <= Len(u) + 1
      <3>1. Len(w) \in 2..Len(w) => Len(w) - 1 <= Len(u)
        BY <1>1, <1>2 DEF WayFits
      <3> QED
        BY <1>1, <3>1
    <2>3. Len(w) = Len(p)
      BY <1>1, <2>1, <2>2
    <2> QED
      BY <1>1, <2>1, <2>3
  <1>3. ASSUME w = p
        PROVE  Through(w, p) /\ WayFits(w, u)
    <2>1. Through(w, p)
      BY <1>1, <1>3 DEF Through
    <2>2. \A i \in 2..Len(p) : p[i].name[1] # "*" /\ SegmentMatches(p[i].name, u[i - 1])
      BY DEF At, PrefixFits
    <2>3. \A i \in 2..Len(p) : i - 1 <= Len(u)
      BY <1>1
    <2>4. WayFits(p, u)
      BY <1>1, <2>2, <2>3 DEF WayFits
    <2> QED
      BY <1>3, <2>1, <2>4
  <1> QED
    BY <1>2, <1>3 DEF w

(* Elsewhere every way that fits leads through a child.                    *)
LEMMA ChosenBelow ==
    ASSUME NEW t, NEW E, NEW p, NEW u, NEW yielding, At(t, E, p, u), Len(p) <= Len(u),
           NEW e \in Chosen(E, p, u, yielding)
    PROVE  \E c \in Kids : /\ Has(t[p].children, c)
                           /\ e \in Chosen(E, Append(p, c), u, yielding)
                           /\ e[1][Len(p) + 1] = c
                           /\ Len(p) + 1 \in 1..Len(e[1])
  <1> DEFINE w == e[1]
             n == Len(p)
             c == w[n + 1]
             q == Append(p, c)
  <1>1. e \in E /\ e[2].id \notin yielding /\ Through(w, p) /\ WayFits(w, u)
    BY DEF Chosen
  <1>2. p \in Seq(Kids) /\ w \in Seq(Kids) /\ Len(w) \in Nat /\ n \in Nat /\ n >= 1 /\ Len(u) \in Nat /\ TreeInv(t)
    BY <1>1, AtIs
  <1>3. n <= Len(w) /\ \A i \in 1..n : w[i] = p[i]
    BY <1>1 DEF Through
  <1>4. n < Len(w)
    <2> SUFFICES ASSUME Len(w) = n
                 PROVE  FALSE
      BY <1>2, <1>3
    <2>1. Len(w) >= 2 /\ w[Len(w)].name[1] = "*"
      BY <1>1, <1>2 DEF WayFits
    <2>2. n \in 2..n
      BY <1>2, <2>1
    <2>3. p[n].name[1] # "*"
      BY <2>2 DEF At, PrefixFits
    <2> QED
      BY <1>2, <1>3, <2>1, <2>3
  <1>5. n + 1 \in 1..Len(w) /\ n + 1 \in 0..Len(w) /\ n \in 0..Len(w) /\ n # Len(w)
    BY <1>2, <1>4
  <1>6. c \in Kids
    BY <1>2, <1>5
  <1>7. WayTo(w, n) = p
    <2>1. WayTo(w, n) \in Seq(Kids) /\ Len(WayTo(w, n)) = n
      BY <1>2, <1>5, WaysAre
    <2>2. \A i \in 1..n : WayTo(w, n)[i] = p[i]
      BY <1>2, <1>3, WayToAt
    <2> QED
      BY <1>2, <2>1, <2>2
  <1>8. WayTo(w, n + 1) = q
    <2>1. WayTo(w, n + 1) = Append(WayTo(w, n), w[n + 1])
      BY <1>2, <1>5, WaysAre
    <2> QED
      BY <1>7, <2>1
  <1>9. q \in DOMAIN t
    <2>1. \A r : r \in DOMAIN t <=> r = <<>> \/ \E o \in E : \E k \in 1..Len(o[1]) : r = WayTo(o[1], k)
      BY DEF At, Built
    <2>2. q = WayTo(e[1], n + 1) /\ n + 1 \in 1..Len(e[1]) /\ e \in E
      BY <1>1, <1>5, <1>8
    <2> HIDE DEF q, w
    <2> QED
      BY <2>1, <2>2
  <1>10. Has(t[p].children, c)
    BY <1>2, <1>6, <1>9 DEF TreeInv, NodesLinked
  <1>11. Through(w, q)
    <2> HIDE DEF c, w
    <2>1. q \in Seq(Kids) /\ Len(q) = n + 1 /\ q[n + 1] = c /\ \A i \in 1..n : q[i] = p[i]
      BY <1>2, <1>6, Appends
    <2>2. w[n + 1] = c
      BY DEF c
    <2> HIDE DEF q
    <2>3. \A i \in 1..(n + 1) : w[i] = q[i]
      BY <1>2, <1>3, <2>1, <2>2
    <2> QED
      BY <1>2, <1>4, <2>1, <2>3 DEF Through
  <1>12. e \in Chosen(E, q, u, yielding)
    BY <1>1, <1>11 DEF Chosen
  <1> QED
    BY <1>5, <1>6, <1>10, <1>12

(* The children a segment leads to are those the walk goes on with.        *)
LEMMA SegmentLeads ==
    ASSUME NEW name, NEW segment
    PROVE  name[1] # "*" =>
              ((name[1] = ":" /\ segment # NoSegment) \/ name = segment <=> SegmentMatches(name, segment))
  <1>1. NoSegment[1] = "" /\ "" # ":"
    BY DEF NoSegment
  <1> QED
    BY <1>1 DEF SegmentMatches

(* What a child answers is right for the ways through it.                  *)
LEMMA TryRight ==
    ASSUME NEW t, NEW E, NEW p, NEW u, NEW yielding, At(t, E, p, u), Len(p) <= Len(u), NEW f,
           NEW c \in Kids, Has(t[p].children, c), NEW q, q = Append(p, c),
           At(t, E, q, u) => Right(f[q], Chosen(E, q, u, yielding), u),
           c.name[1] = "*" => RouteParameters(q, u) = RouteParameters(p, u)
    PROVE  Right(Try(f, t, p, u, yielding, c), Chosen(E, q, u, yielding), u)
  <1> DEFINE n == Len(p)
  <1>1. /\ p \in Seq(Kids) /\ n \in Nat /\ n >= 1 /\ Len(u) \in Nat /\ TreeInv(t)
        /\ \A e \in E : e[1] \in Seq(Kids) /\ Len(e[1]) \in Nat
        /\ E \in SUBSET Entries /\ Built(t, E) /\ Numbered(E)
    BY AtIs DEF At
  <1>2. q \in Seq(Kids) /\ Len(q) = n + 1 /\ q[n + 1] = c /\ \A i \in 1..n : q[i] = p[i]
    BY <1>1, Appends
  <1>3. q \in DOMAIN t
    BY <1>1 DEF At, TreeInv, NodesLinked
  <1>4. n + 1 \in 2..(n + 1) /\ n + 1 - 1 = n /\ \A i \in 2..(n + 1) : i = n + 1 \/ i \in 2..n
    BY <1>1
  <1>5. \A i \in 2..n : q[i].name[1] # "*" /\ SegmentMatches(q[i].name, u[i - 1])
    <2>1. \A i \in 2..n : p[i].name[1] # "*" /\ SegmentMatches(p[i].name, u[i - 1]) /\ i \in 1..n
      BY <1>1 DEF At, PrefixFits
    <2> QED
      BY <1>2, <2>1
  <1>6. \A e \in E : Through(e[1], q) => Len(e[1]) >= n + 1 /\ e[1][n + 1] = c /\ n + 1 \in 2..Len(e[1])
    <2> SUFFICES ASSUME NEW e \in E, Through(e[1], q)
                 PROVE  Len(e[1]) >= n + 1 /\ e[1][n + 1] = c /\ n + 1 \in 2..Len(e[1])
      OBVIOUS
    <2>1. n + 1 <= Len(e[1]) /\ n + 1 \in 1..(n + 1)
      BY <1>1, <1>2 DEF Through
    <2>2. e[1][n + 1] = q[n + 1]
      BY <1>2, <2>1 DEF Through
    <2> QED
      BY <1>1, <1>2, <2>1, <2>2
  <1>7. CASE c.name[1] = "*"
    <2>1. ASSUME NEW e \in E
          PROVE  Through(e[1], q) /\ WayFits(e[1], u) <=> e[1] = q
      <3> DEFINE w == e[1]
      <3>1. w \in Seq(Kids) /\ Len(w) \in Nat
        BY <1>1
      <3>2. Through(w, q) => Len(w) >= n + 1 /\ w[n + 1] = c /\ n + 1 \in 2..Len(w)
        BY <1>6
      <3> HIDE DEF w
      <3>3. ASSUME Through(w, q), WayFits(w, u)
            PROVE  w = q
        <4>1. n + 1 = Len(w)
          BY <1>7, <3>2, <3>3 DEF WayFits
        <4> QED
          BY <1>2, <3>1, <3>3, <4>1 DEF Through
      <3>4. ASSUME w = q
            PROVE  Through(w, q) /\ WayFits(w, u)
        <4>1. Through(q, q)
          BY <1>1, <1>2 DEF Through
        <4>2. ASSUME NEW i \in 2..(n + 1)
              PROVE  IF q[i].name[1] = "*" THEN i = Len(q) /\ i - 1 <= Len(u)
                     ELSE i - 1 <= Len(u) /\ SegmentMatches(q[i].name, u[i - 1])
          <5>1. CASE i = n + 1
            BY <1>1, <1>2, <1>7, <5>1
          <5>2. CASE i \in 2..n
            BY <1>1, <1>5, <5>2
          <5> QED
            BY <1>4, <5>1, <5>2
        <4>3. WayFits(q, u)
          BY <1>1, <1>2, <1>4, <1>7, <4>2 DEF WayFits
        <4> QED
          BY <3>4, <4>1, <4>3
      <3> QED
        BY <3>3, <3>4 DEF w
    <2> DEFINE params == RouteParameters(p, u)
    <2>2. params = RouteParameters(q, u)
      BY <1>7
    <2> HIDE DEF params
    <2>3. Right(Call(t[q].handlers, params, yielding), Chosen(E, q, u, yielding), u)
      BY <1>1, <1>3, <2>1, <2>2, CallRight
    <2>4. Try(f, t, p, u, yielding, c) = Call(t[q].handlers, params, yielding)
      BY <1>7 DEF Try, params
    <2> QED
      BY <2>3, <2>4
  <1>8. CASE c.name[1] # "*" /\ SegmentMatches(c.name, u[n])
    <2>1. Try(f, t, p, u, yielding, c) = f[q]
      BY <1>8, SegmentLeads DEF Try
    <2>2. PrefixFits(q, u)
      <3>1. \A i \in 2..(n + 1) : q[i].name[1] # "*" /\ SegmentMatches(q[i].name, u[i - 1])
        BY <1>2, <1>4, <1>5, <1>8
      <3> QED
        BY <1>1, <1>2, <3>1 DEF PrefixFits
    <2>3. At(t, E, q, u)
      BY <1>1, <1>3, <2>2 DEF At
    <2> QED
      BY <2>1, <2>3
  <1>9. CASE c.name[1] # "*" /\ ~SegmentMatches(c.name, u[n])
    <2>1. Try(f, t, p, u, yielding, c) = NoRoute
      BY <1>9, SegmentLeads DEF Try
    <2>2. Chosen(E, q, u, yielding) = {}
      <3> SUFFICES ASSUME NEW e \in E, Through(e[1], q), WayFits(e[1], u)
                   PROVE  FALSE
        BY DEF Chosen
      <3>1. n + 1 \in 2..Len(e[1]) /\ e[1][n + 1] = c
        BY <1>6
      <3>2. SegmentMatches(c.name, u[n + 1 - 1])
        BY <1>9, <3>1 DEF WayFits
      <3> QED
        BY <1>4, <1>9, <3>2
    <2> QED
      BY <2>1, <2>2 DEF Right
  <1> QED
    BY <1>7, <1>8, <1>9

(* The first child that answers is the best one.                           *)
LEMMA AnswerRight ==
    ASSUME NEW t, NEW E, NEW p, NEW u, NEW yielding, At(t, E, p, u), Len(p) <= Len(u), NEW f,
           \A c \in Kids : Has(t[p].children, c) =>
              Right(Try(f, t, p, u, yielding, c), Chosen(E, Append(p, c), u, yielding), u)
    PROVE  Right(AnswerAt(f, t, p, u, yielding), Chosen(E, p, u, yielding), u)
  <1> DEFINE xs == t[p].children
             n == Len(xs)
             a(i) == Try(f, t, p, u, yielding, xs[i])
             F(i) == Chosen(E, Append(p, xs[i]), u, yielding)
             G == Chosen(E, p, u, yielding)
             I == {i \in 1..n : a(i) # NoRoute}
             at == IF I # {} THEN Min(I) ELSE 0
  <1>1. /\ p \in Seq(Kids) /\ Len(p) \in Nat /\ p # <<>> /\ xs \in Seq(Kids) /\ TreeInv(t) /\ Len(u) \in Nat
        /\ p \in DOMAIN t /\ Numbered(E)
    BY AtIs DEF At
  <1>2. \A i \in 1..n : xs[i] \in Kids /\ Has(xs, xs[i])
    BY <1>1 DEF Has
  <1>3. AnswerAt(f, t, p, u, yielding) = IF at = 0 THEN NoRoute ELSE a(at)
    <2>1. FirstToAnswer(f, t, p, u, yielding) = at
      BY DEF FirstToAnswer, SelectInSeq
    <2>2. ~(Len(p) > Len(u))
      BY <1>1
    <2> HIDE DEF at
    <2> QED
      BY <2>1, <2>2 DEF AnswerAt
  <1>4. \A i \in 1..n : Right(a(i), F(i), u)
    BY <1>2
  <1>5. \A i \in 1..n : a(i) = NoRoute <=> F(i) = {}
    <2> SUFFICES ASSUME NEW i \in 1..n
                 PROVE  a(i) = NoRoute <=> F(i) = {}
      OBVIOUS
    <2>1. Numbered(F(i))
      BY <1>1 DEF Numbered, Chosen
    <2> QED
      BY <1>4, <2>1, RightIs
  <1>6. ASSUME NEW e \in G
        PROVE  \E i \in 1..n : e \in F(i) /\ e[1][Len(p) + 1] = xs[i] /\ Len(p) + 1 \in 1..Len(e[1])
    <2>1. PICK c \in Kids : /\ Has(xs, c)
                            /\ e \in Chosen(E, Append(p, c), u, yielding)
                            /\ e[1][Len(p) + 1] = c
                            /\ Len(p) + 1 \in 1..Len(e[1])
      BY ChosenBelow
    <2>2. PICK i \in 1..n : xs[i] = c
      BY <2>1 DEF Has
    <2> QED
      BY <2>1, <2>2
  <1>7. ASSUME NEW i \in 1..n, NEW e \in F(i)
        PROVE  /\ e \in G /\ e[1][Len(p) + 1] = xs[i]
               /\ Len(p) + 1 \in 1..Len(e[1]) /\ \A j \in 1..Len(p) : e[1][j] = p[j]
    <2> DEFINE q == Append(p, xs[i])
    <2>1. Len(q) = Len(p) + 1 /\ q[Len(p) + 1] = xs[i] /\ \A j \in 1..Len(p) : q[j] = p[j]
      <3> HIDE DEF xs
      <3> QED
        BY <1>1, <1>2, Appends
    <2>2. e \in E /\ e[2].id \notin yielding /\ Through(e[1], q) /\ WayFits(e[1], u)
      BY DEF Chosen
    <2> HIDE DEF q
    <2>3. Len(e[1]) \in Nat
      BY <2>2, AtIs
    <2>4. Len(p) + 1 <= Len(e[1]) /\ \A j \in 1..(Len(p) + 1) : e[1][j] = q[j]
      BY <2>1, <2>2 DEF Through
    <2>5. \A j \in 1..Len(p) : j \in 1..(Len(p) + 1)
      BY <1>1
    <2>6. e[1][Len(p) + 1] = xs[i] /\ Len(p) + 1 \in 1..Len(e[1])
      BY <1>1, <2>1, <2>3, <2>4
    <2>7. \A j \in 1..Len(p) : e[1][j] = p[j]
      BY <2>1, <2>4, <2>5
    <2>8. Through(e[1], p)
      BY <1>1, <2>3, <2>4, <2>7 DEF Through
    <2> QED
      BY <2>2, <2>6, <2>7, <2>8 DEF Chosen
  <1>8. n \in Nat /\ I \in SUBSET (1..n)
    BY <1>1
  <1>9. I # {} => Min(I) \in I /\ \A j \in I : Min(I) <= j
    <2> HIDE DEF I, n
    <2> QED
      BY <1>8, FirstOf
  <1> HIDE DEF G, F, a
  <1>10. CASE G = {}
    <2>1. I = {}
      <3> SUFFICES ASSUME NEW i \in 1..n, a(i) # NoRoute
                   PROVE  FALSE
        OBVIOUS
      <3>1. F(i) # {}
        BY <1>5
      <3> QED
        BY <1>7, <1>10, <3>1
    <2>2. AnswerAt(f, t, p, u, yielding) = NoRoute
      BY <1>3, <2>1
    <2>3. Right(AnswerAt(f, t, p, u, yielding), G, u)
      BY <1>10, <2>2 DEF Right
    <2> QED
      BY <2>3 DEF G
  <1>11. CASE G # {}
    <2>1. I # {}
      <3>1. PICK e \in G : TRUE
        BY <1>11
      <3>2. PICK i \in 1..n : e \in F(i)
        BY <1>6
      <3>3. a(i) # NoRoute
        BY <1>5, <3>2
      <3> QED
        BY <3>3
    <2>2. at \in I /\ \A j \in I : at <= j
      BY <1>9, <2>1
    <2>3. at \in 1..n /\ at # 0 /\ a(at) # NoRoute
      BY <2>2
    <2> HIDE DEF at
    <2>4. F(at) # {}
      BY <1>5, <2>3
    <2>5. PICK e \in F(at) : /\ \A o \in F(at) : Better(e, o)
                             /\ a(at) = [id |-> e[2].id, params |-> RouteParameters(e[1], u)]
      BY <1>4, <2>3, <2>4 DEF Right
    <2>6. e \in G
      BY <1>7, <2>3
    <2>7. ASSUME NEW o \in G
          PROVE  Better(e, o)
      <3>1. PICK j \in 1..n : o \in F(j) /\ o[1][Len(p) + 1] = xs[j] /\ Len(p) + 1 \in 1..Len(o[1])
        BY <1>6
      <3>2. CASE xs[j] = xs[at]
        <4>1. F(j) = F(at)
          BY <3>2 DEF F
        <4> QED
          BY <2>5, <3>1, <4>1
      <3>3. CASE xs[j] # xs[at]
        <4>1. a(j) # NoRoute
          BY <1>5, <3>1
        <4>2. at <= j /\ at # j
          BY <2>2, <3>3, <4>1
        <4>3. at < j
          BY <2>3, <4>2
        <4>4. <<xs[at], xs[j]>> \in ChildOrder(p)
          BY <1>1, <2>3, <4>3 DEF TreeInv, NodesSorted, Sorted
        <4>5. Before(xs[at], xs[j])
          BY <1>1, <4>4 DEF ChildOrder
        <4>6. /\ e[1][Len(p) + 1] = xs[at] /\ Len(p) + 1 \in 1..Len(e[1])
              /\ \A k \in 1..Len(p) : e[1][k] = p[k]
              /\ \A k \in 1..Len(p) : o[1][k] = p[k]
          BY <1>7, <2>3, <3>1
        <4> DEFINE i == Len(p) + 1
        <4>7. i \in 1..Len(e[1]) /\ i <= Len(o[1]) /\ i - 1 = Len(p)
          BY <1>1, <3>1, <4>6
        <4>8. e[1][i] = xs[at] /\ o[1][i] = xs[j]
          BY <3>1, <4>6
        <4>9. \A k \in 1..(i - 1) : e[1][k] = o[1][k]
          BY <4>6, <4>7
        <4> HIDE DEF i
        <4> QED
          BY <3>3, <4>5, <4>7, <4>8, <4>9 DEF Better
      <3> QED
        BY <3>2, <3>3
    <2>8. AnswerAt(f, t, p, u, yielding) = [id |-> e[2].id, params |-> RouteParameters(e[1], u)]
      BY <1>3, <2>3, <2>5
    <2>9. Right(AnswerAt(f, t, p, u, yielding), G, u)
      BY <1>11, <2>6, <2>7, <2>8 DEF Right
    <2> QED
      BY <2>9 DEF G
  <1> QED
    BY <1>10, <1>11

(* The parameters, pushed one after the other.                             *)
Pushing(f, n, path, url) ==
    f = [i \in 0..n |-> IF i = 0 THEN <<>>
                        ELSE (IF path[i + 1].name[1] = ":" THEN Append(f[i - 1], url[i]) ELSE f[i - 1])]

(* There are such.                                                         *)
LEMMA PushingExists ==
    ASSUME NEW path, NEW url
    PROVE  \A n \in Nat : \E f : Pushing(f, n, path, url)
  <1> DEFINE T == {n \in Nat : \E f : Pushing(f, n, path, url)}
  <1>1. 0 \in T
    <2>1. Pushing([i \in 0..0 |-> <<>>], 0, path, url)
      BY DEF Pushing
    <2> QED
      BY <2>1
  <1>2. ASSUME NEW m \in Nat, m \in T
        PROVE  m + 1 \in T
    <2>1. PICK g : Pushing(g, m, path, url)
      BY <1>2
    <2> DEFINE f == [i \in 0..(m + 1) |->
                        IF i = m + 1
                          THEN (IF path[m + 1 + 1].name[1] = ":" THEN Append(g[m], url[m + 1]) ELSE g[m])
                        ELSE g[i]]
               h == [i \in 0..(m + 1) |-> IF i = 0 THEN <<>>
                                          ELSE (IF path[i + 1].name[1] = ":" THEN Append(f[i - 1], url[i]) ELSE f[i - 1])]
    <2>2. ASSUME NEW i \in 0..(m + 1)
          PROVE  f[i] = h[i]
      <3>1. CASE i = m + 1
        <4>1. i # 0 /\ i - 1 = m /\ m \in 0..(m + 1) /\ m # m + 1
          BY <3>1
        <4>2. f[i - 1] = g[m]
          BY <4>1
        <4> QED
          BY <3>1, <4>1, <4>2
      <3>2. CASE i # m + 1
        <4>1. i \in 0..m
          BY <3>2
        <4>2. f[i] = g[i]
          BY <3>2
        <4>3. CASE i = 0
          BY <2>1, <4>1, <4>2, <4>3 DEF Pushing
        <4>4. CASE i # 0
          <5>1. i - 1 \in 0..(m + 1) /\ i - 1 # m + 1
            BY <4>1, <4>4
          <5>2. f[i - 1] = g[i - 1]
            BY <5>1
          <5>3. g[i] = (IF path[i + 1].name[1] = ":" THEN Append(g[i - 1], url[i]) ELSE g[i - 1])
            BY <2>1, <4>1, <4>4 DEF Pushing
          <5> QED
            BY <4>2, <4>4, <5>2, <5>3
        <4> QED
          BY <4>3, <4>4
      <3> QED
        BY <3>1, <3>2
    <2>3. f = h
      BY <2>2
    <2> HIDE DEF f
    <2>4. Pushing(f, m + 1, path, url)
      BY <2>3 DEF Pushing
    <2> QED
      BY <2>4
  <1> HIDE DEF T
  <1>3. Nat \subseteq T
    BY <1>1, <1>2, Induction
  <1> QED
    BY <1>3 DEF T

(* And RouteParameters computes them.                                      *)
LEMMA ParametersAre ==
    ASSUME NEW path, NEW url, NEW n \in Nat, n = Len(path) - 1
    PROVE  \E f : Pushing(f, n, path, url) /\ RouteParameters(path, url) = f[n]
  <1> DEFINE f == CHOOSE f : f = [i \in 0..n |-> IF i = 0 THEN <<>>
                                                 ELSE IF path[i + 1].name[1] = ":" THEN Append(f[i - 1], url[i])
                                                 ELSE f[i - 1]]
  <1>1. PICK g : Pushing(g, n, path, url)
    BY PushingExists
  <1>2. Pushing(f, n, path, url)
    BY <1>1 DEF Pushing
  <1>3. RouteParameters(path, url) = f[n]
    BY DEF RouteParameters
  <1> HIDE DEF f
  <1> QED
    BY <1>2, <1>3

(* A wildcard adds none.                                                   *)
LEMMA WildcardParameters ==
    ASSUME NEW p \in Seq(Kids), NEW c \in Kids, NEW url, Len(p) >= 1, c.name[1] = "*",
           NEW q, q = Append(p, c)
    PROVE  RouteParameters(q, url) = RouteParameters(p, url)
  <1> DEFINE n == Len(p) - 1
             m == n + 1
  <1>1. n \in Nat /\ m \in Nat /\ m = Len(q) - 1 /\ n = Len(p) - 1 /\ m + 1 = Len(p) + 1
        /\ q[m + 1] = c /\ \A i \in 1..Len(p) : q[i] = p[i]
    <2>1. Len(p) \in Nat /\ Len(q) = Len(p) + 1 /\ q[Len(p) + 1] = c /\ \A i \in 1..Len(p) : q[i] = p[i]
      BY Appends
    <2>2. m = Len(p)
      BY <2>1
    <2> QED
      BY <2>1, <2>2
  <1> HIDE DEF n
  <1>2. PICK f : Pushing(f, n, p, url) /\ RouteParameters(p, url) = f[n]
    <2>1. n \in Nat /\ n = Len(p) - 1
      BY <1>1
    <2> QED
      BY <2>1, ParametersAre
  <1>3. PICK g : Pushing(g, m, q, url) /\ RouteParameters(q, url) = g[m]
    <2>1. m \in Nat /\ m = Len(q) - 1
      BY <1>1
    <2> DEFINE r == q
    <2>2. m = Len(r) - 1
      BY <2>1
    <2> HIDE DEF m, r
    <2>3. \E g : Pushing(g, m, r, url) /\ RouteParameters(r, url) = g[m]
      BY <2>1, <2>2, ParametersAre
    <2> QED
      BY <2>3 DEF r
  <1> DEFINE T == {i \in Nat : i <= n => g[i] = f[i]}
  <1>4. 0 \in T
    BY <1>1, <1>2, <1>3 DEF Pushing
  <1>5. ASSUME NEW i \in Nat, i \in T
        PROVE  i + 1 \in T
    <2> SUFFICES ASSUME i + 1 <= n
                 PROVE  g[i + 1] = f[i + 1]
      BY <1>1
    <2> DEFINE j == i + 1
    <2>1. j \in 0..n /\ j \in 0..m /\ j # 0 /\ j - 1 = i /\ i <= n /\ j + 1 \in 1..Len(p)
      BY <1>1
    <2> HIDE DEF j, m
    <2>2. g[i] = f[i] /\ q[j + 1] = p[j + 1]
      BY <1>1, <1>5, <2>1
    <2>3. f[j] = IF p[j + 1].name[1] = ":" THEN Append(f[j - 1], url[j]) ELSE f[j - 1]
      BY <1>2, <2>1 DEF Pushing
    <2>4. g[j] = IF q[j + 1].name[1] = ":" THEN Append(g[j - 1], url[j]) ELSE g[j - 1]
      BY <1>3, <2>1 DEF Pushing
    <2>5. g[j] = f[j]
      BY <2>1, <2>2, <2>3, <2>4
    <2> QED
      BY <2>5 DEF j
  <1> HIDE DEF T
  <1>6. Nat \subseteq T
    BY <1>4, <1>5, Induction
  <1>7. g[n] = f[n]
    BY <1>1, <1>6 DEF T
  <1>8. g[m] = g[n]
    <2>1. m \in 0..m /\ m # 0 /\ m - 1 = n
      BY <1>1
    <2>2. q[m + 1].name[1] # ":"
      <3>1. "*" # ":"
        OBVIOUS
      <3> QED
        BY <1>1, <3>1
    <2> HIDE DEF m
    <2>3. g[m] = IF q[m + 1].name[1] = ":" THEN Append(g[m - 1], url[m]) ELSE g[m - 1]
      BY <1>3, <2>1 DEF Pushing
    <2> QED
      BY <2>1, <2>2, <2>3
  <1> QED
    BY <1>2, <1>3, <1>7, <1>8

(* Whatever the tree, the walk answers what is right.                      *)
LEMMA WalkRight ==
    ASSUME NEW t, NEW E, NEW u, NEW yielding, NEW f, Answering(f, t, u, yielding), Len(u) \in Nat
    PROVE  \A n \in Nat : \A p \in DOMAIN t :
              Len(p) + n = Len(u) + 1 /\ At(t, E, p, u) => Right(f[p], Chosen(E, p, u, yielding), u)
  <1> DEFINE Holding(n) == \A p \in DOMAIN t :
                 Len(p) + n = Len(u) + 1 /\ At(t, E, p, u) => Right(f[p], Chosen(E, p, u, yielding), u)
             T == {n \in Nat : Holding(n)}
  <1>1. \A p \in DOMAIN t : f[p] = AnswerAt(f, t, p, u, yielding)
    BY DEF Answering
  <1>2. 0 \in T
    <2> SUFFICES ASSUME NEW p \in DOMAIN t, Len(p) + 0 = Len(u) + 1, At(t, E, p, u)
                 PROVE  Right(f[p], Chosen(E, p, u, yielding), u)
      OBVIOUS
    <2>1. Len(p) = Len(u) + 1 /\ Len(p) > Len(u)
      BY AtIs
    <2> DEFINE params == RouteParameters(p, u)
    <2>2. f[p] = Call(t[p].handlers, params, yielding)
      BY <1>1, <2>1 DEF AnswerAt
    <2> HIDE DEF params
    <2>3. \A e \in E : Through(e[1], p) /\ WayFits(e[1], u) <=> e[1] = p
      BY <2>1, EndsHere
    <2>4. E \in SUBSET Entries /\ Built(t, E)
      BY DEF At
    <2>5. Right(Call(t[p].handlers, params, yielding), Chosen(E, p, u, yielding), u)
      BY <2>3, <2>4, CallRight DEF params
    <2> QED
      BY <2>2, <2>5
  <1>3. ASSUME NEW n \in Nat, n \in T
        PROVE  n + 1 \in T
    <2> SUFFICES ASSUME NEW p \in DOMAIN t, Len(p) + (n + 1) = Len(u) + 1, At(t, E, p, u)
                 PROVE  Right(f[p], Chosen(E, p, u, yielding), u)
      OBVIOUS
    <2>1. p \in Seq(Kids) /\ Len(p) \in Nat /\ Len(p) >= 1 /\ Len(p) <= Len(u) /\ TreeInv(t)
      BY AtIs
    <2>2. ASSUME NEW c \in Kids, Has(t[p].children, c)
          PROVE  Right(Try(f, t, p, u, yielding, c), Chosen(E, Append(p, c), u, yielding), u)
      <3> DEFINE q == Append(p, c)
      <3>1. q \in DOMAIN t
        BY <2>1, <2>2 DEF TreeInv, NodesLinked
      <3>2. Len(q) = Len(p) + 1
        BY <2>1, Appends
      <3>3. q = Append(p, c)
        OBVIOUS
      <3> HIDE DEF q
      <3>4. Len(q) + n = Len(u) + 1
        BY <2>1, <3>2
      <3>5. At(t, E, q, u) => Right(f[q], Chosen(E, q, u, yielding), u)
        BY <1>3, <3>1, <3>4
      <3>6. c.name[1] = "*" => RouteParameters(q, u) = RouteParameters(p, u)
        BY <2>1, <3>3, WildcardParameters
      <3>7. Right(Try(f, t, p, u, yielding, c), Chosen(E, q, u, yielding), u)
        BY <2>1, <2>2, <3>3, <3>5, <3>6, TryRight
      <3> QED
        BY <3>3, <3>7
    <2>3. Right(AnswerAt(f, t, p, u, yielding), Chosen(E, p, u, yielding), u)
      BY <2>1, <2>2, AnswerRight
    <2> QED
      BY <1>1, <2>3
  <1> HIDE DEF T
  <1>4. Nat \subseteq T
    BY <1>2, <1>3, Induction
  <1> QED
    BY <1>4 DEF T

-----------------------------------------------------------------------------
(* The parameters of a pattern.                                            *)

(* The places of the parameters up to place i.                             *)
Places(p, i) == {j \in 1..Len(p) : p[j][1] = ":" /\ j <= i}

\* How many they are.
Place(p, i) == Cardinality(Places(p, i))

(* They come one after the other.                                          *)
LEMMA PlacesAre ==
    ASSUME NEW p \in Seq(Names), NEW i \in Nat, i + 1 <= Len(p), IsFiniteSet(Places(p, i))
    PROVE  /\ Place(p, i) \in Nat
           /\ p[i + 1][1] # ":" => Places(p, i + 1) = Places(p, i)
           /\ p[i + 1][1] = ":" => /\ Places(p, i + 1) = Places(p, i) \cup {i + 1}
                                   /\ IsFiniteSet(Places(p, i + 1))
                                   /\ Place(p, i + 1) = Place(p, i) + 1
  <1> DEFINE S == Places(p, i)
             x == i + 1
  <1>1. Len(p) \in Nat
    OBVIOUS
  <1>2. Cardinality(S) \in Nat
    BY FS_CardinalityType
  <1>3. x \notin S
    BY DEF Places
  <1>4. p[x][1] # ":" => Places(p, x) = S
    <2>1. \A j \in 1..Len(p) : j <= x <=> j <= i \/ j = x
      BY <1>1
    <2> QED
      BY <2>1 DEF Places
  <1>5. p[x][1] = ":" => Places(p, x) = S \cup {x}
    <2>1. \A j \in 1..Len(p) : j <= x <=> j <= i \/ j = x
      BY <1>1
    <2>2. x \in 1..Len(p)
      BY <1>1
    <2> QED
      BY <2>1, <2>2 DEF Places
  <1>6. IsFiniteSet(S \cup {x}) /\ Cardinality(S \cup {x}) = Cardinality(S) + 1
    <2> HIDE DEF x, S
    <2>1. IsFiniteSet(S)
      BY DEF S
    <2> QED
      BY <1>3, <2>1, FS_AddElement
  <1> HIDE DEF x, S
  <1>7. Place(p, i) = Cardinality(S)
    BY DEF Place, S
  <1>8. p[x][1] = ":" => Place(p, x) = Cardinality(S) + 1
    BY <1>5, <1>6 DEF Place
  <1>9. /\ Place(p, i) \in Nat
        /\ p[x][1] # ":" => Places(p, x) = S
        /\ p[x][1] = ":" => /\ Places(p, x) = S \cup {x}
                            /\ IsFiniteSet(Places(p, x))
                            /\ Place(p, x) = Place(p, i) + 1
    BY <1>2, <1>4, <1>5, <1>6, <1>7, <1>8
  <1> QED
    BY <1>9 DEF x, S

(* So many are pushed, each at its place.                                  *)
PushedRight(s, S, p, url, i) ==
    /\ IsFiniteSet(Places(p, i)) /\ Place(p, i) \in Nat
    /\ s \in Seq(S) /\ Len(s) = Place(p, i)
    /\ \A j \in Places(p, i) : Place(p, j) \in 1..Place(p, i) /\ s[Place(p, j)] = url[j]
    /\ \A m \in 1..Place(p, i) : \E j \in Places(p, i) : Place(p, j) = m

(* One more segment pushes its parameter behind the others.                *)
LEMMA PushedOne ==
    ASSUME NEW p \in Seq(Names), NEW i \in Nat, i + 1 <= Len(p), NEW S, NEW s, NEW url,
           PushedRight(s, S, p, url, i), url[i + 1] \in S
    PROVE  PushedRight(IF p[i + 1][1] = ":" THEN Append(s, url[i + 1]) ELSE s, S, p, url, i + 1)
  <1> DEFINE x == i + 1
             n == Place(p, i)
             y == url[x]
             v == Append(s, y)
  <1>1. /\ IsFiniteSet(Places(p, i)) /\ n \in Nat
        /\ s \in Seq(S) /\ Len(s) = n
        /\ \A j \in Places(p, i) : Place(p, j) \in 1..n /\ s[Place(p, j)] = url[j]
        /\ \A m \in 1..n : \E j \in Places(p, i) : Place(p, j) = m
    BY DEF PushedRight
  <1>2. /\ p[x][1] # ":" => Places(p, x) = Places(p, i)
        /\ p[x][1] = ":" => /\ Places(p, x) = Places(p, i) \cup {x}
                            /\ IsFiniteSet(Places(p, x))
                            /\ Place(p, x) = n + 1
    BY <1>1, PlacesAre
  <1> HIDE DEF x
  <1>3. CASE p[x][1] # ":"
    <2>1. Places(p, x) = Places(p, i) /\ Place(p, x) = Place(p, i)
      BY <1>2, <1>3 DEF Place
    <2>2. PushedRight(s, S, p, url, x)
      BY <1>1, <2>1 DEF PushedRight
    <2> QED
      BY <1>3, <2>2 DEF x
  <1>4. CASE p[x][1] = ":"
    <2>1. Places(p, x) = Places(p, i) \cup {x} /\ IsFiniteSet(Places(p, x)) /\ Place(p, x) = n + 1
      BY <1>2, <1>4
    <2>2. y \in S
      BY DEF x
    <2> HIDE DEF y, n
    <2>3. v \in Seq(S) /\ Len(v) = n + 1 /\ v[n + 1] = y /\ \A k \in 1..n : v[k] = s[k]
      BY <1>1, <2>2, Appends
    <2> HIDE DEF v
    <2>4. ASSUME NEW j \in Places(p, x)
          PROVE  Place(p, j) \in 1..(n + 1) /\ v[Place(p, j)] = url[j]
      <3>1. CASE j = x
        BY <1>1, <2>1, <2>3, <3>1 DEF y
      <3>2. CASE j \in Places(p, i)
        <4>1. Place(p, j) \in 1..n /\ s[Place(p, j)] = url[j]
          BY <1>1, <3>2
        <4> QED
          BY <1>1, <2>3, <4>1
      <3> QED
        BY <2>1, <3>1, <3>2
    <2>5. ASSUME NEW m \in 1..(n + 1)
          PROVE  \E j \in Places(p, x) : Place(p, j) = m
      <3>1. CASE m = n + 1
        BY <2>1, <3>1
      <3>2. CASE m # n + 1
        <4>1. m \in 1..n
          BY <1>1, <3>2
        <4> QED
          BY <1>1, <2>1, <4>1
      <3> QED
        BY <3>1, <3>2
    <2>6. n + 1 \in Nat
      BY <1>1
    <2>7. PushedRight(v, S, p, url, x)
      BY <2>1, <2>3, <2>4, <2>5, <2>6 DEF PushedRight
    <2> QED
      BY <1>4, <2>7 DEF x, v, y
  <1> QED
    BY <1>3, <1>4

(* The parameters of a way are those of its pattern.                       *)
LEMMA ParametersRight ==
    ASSUME NEW p \in Seq(Names), NEW w, Len(w) = Len(p) + 1, \A i \in 1..Len(p) : w[i + 1].name = p[i],
           NEW u, NEW url, \A i \in 1..Len(p) : u[i] = url[i]
    PROVE  RouteParameters(w, u) = ParametersOf(p, url)
  <1> DEFINE n == Len(p)
             S == {url[i] : i \in 1..n}
  <1>1. n \in Nat /\ n = Len(w) - 1
    OBVIOUS
  <1> HIDE DEF n
  <1>2. PICK f : Pushing(f, n, w, u) /\ RouteParameters(w, u) = f[n]
    BY <1>1, ParametersAre
  <1> DEFINE T == {i \in Nat : i <= n => PushedRight(f[i], S, p, url, i)}
  <1>3. 0 \in T
    <2>1. Places(p, 0) = {}
      BY DEF Places
    <2>2. IsFiniteSet({}) /\ Cardinality({}) = 0
      BY FS_EmptySet
    <2>3. Place(p, 0) = 0
      BY <2>1, <2>2 DEF Place
    <2> HIDE DEF S
    <2>4. <<>> \in Seq(S) /\ Len(<<>>) = 0
      OBVIOUS
    <2> DEFINE none == <<>>
    <2>5. none \in Seq(S) /\ Len(none) = Place(p, 0) /\ Place(p, 0) \in Nat
      BY <2>3, <2>4
    <2>6. IsFiniteSet(Places(p, 0)) /\ 1..Place(p, 0) = {}
      <3>1. 1..0 = {}
        OBVIOUS
      <3> QED
        BY <2>1, <2>2, <2>3, <3>1
    <2> HIDE DEF none
    <2>7. PushedRight(none, S, p, url, 0)
      BY <2>1, <2>5, <2>6 DEF PushedRight
    <2>8. f[0] = none
      BY <1>1, <1>2 DEF Pushing, none
    <2> QED
      BY <2>7, <2>8
  <1>4. ASSUME NEW i \in Nat, i \in T
        PROVE  i + 1 \in T
    <2> SUFFICES ASSUME i + 1 <= n
                 PROVE  PushedRight(f[i + 1], S, p, url, i + 1)
      BY <1>1
    <2> DEFINE x == i + 1
    <2>1. x \in 0..n /\ x # 0 /\ x - 1 = i /\ x \in 1..n /\ x <= n /\ i <= n /\ i \in Nat
      BY <1>1
    <2>2. url[x] \in S
      BY <2>1
    <2>3. PushedRight(f[i], S, p, url, i)
      BY <1>4, <2>1
    <2> HIDE DEF x, S
    <2>4. f[x] = IF w[x + 1].name[1] = ":" THEN Append(f[i], u[x]) ELSE f[i]
      BY <1>2, <2>1 DEF Pushing
    <2>5. w[x + 1].name = p[x] /\ u[x] = url[x]
      BY <2>1 DEF n
    <2>6. PushedRight(IF p[x][1] = ":" THEN Append(f[i], url[x]) ELSE f[i], S, p, url, x)
      BY <2>1, <2>2, <2>3, PushedOne DEF n, x
    <2>7. PushedRight(f[x], S, p, url, x)
      BY <2>4, <2>5, <2>6
    <2> QED
      BY <2>7 DEF x
  <1> HIDE DEF T
  <1>5. n \in T
    BY <1>1, <1>3, <1>4, Induction
  <1> DEFINE s == f[n]
  <1>6. PushedRight(s, S, p, url, n)
    BY <1>1, <1>5 DEF T
  <1> HIDE DEF S, s
  <1> DEFINE parameters == {i \in DOMAIN p : p[i][1] = ":"}
             nth(m) == CHOOSE i \in parameters : Cardinality({j \in parameters : j <= i}) = m
  <1>7. parameters = Places(p, n)
    <2>1. DOMAIN p = 1..n /\ \A j \in 1..n : j <= n
      BY <1>1 DEF n
    <2> QED
      BY <2>1 DEF Places, n
  <1>8. ASSUME NEW i \in parameters
        PROVE  Cardinality({j \in parameters : j <= i}) = Place(p, i)
    <2>1. {j \in parameters : j <= i} = Places(p, i)
      <3>1. DOMAIN p = 1..Len(p)
        OBVIOUS
      <3> QED
        BY <3>1 DEF Places
    <2> QED
      BY <2>1 DEF Place
  <1>9. ParametersOf(p, url) = [m \in 1..Cardinality(parameters) |-> url[nth(m)]]
    BY DEF ParametersOf
  <1> HIDE DEF parameters
  <1>10. Cardinality(parameters) = Len(s) /\ Len(s) \in Nat /\ s \in Seq(S)
    BY <1>6, <1>7 DEF PushedRight, Place
  <1>11. ASSUME NEW m \in 1..Len(s)
         PROVE  s[m] = url[nth(m)]
    <2>1. \E i \in parameters : Cardinality({j \in parameters : j <= i}) = m
      <3>1. m \in 1..Place(p, n)
        BY <1>6 DEF PushedRight
      <3>2. \E i \in Places(p, n) : Place(p, i) = m
        BY <1>6, <3>1 DEF PushedRight
      <3> QED
        BY <1>7, <1>8, <3>2
    <2>2. nth(m) \in parameters /\ Cardinality({j \in parameters : j <= nth(m)}) = m
      BY <2>1
    <2> HIDE DEF nth
    <2>3. Place(p, nth(m)) = m
      BY <1>8, <2>2
    <2> QED
      BY <1>6, <1>7, <2>2, <2>3 DEF PushedRight
  <1>12. s = [m \in 1..Len(s) |-> s[m]]
    BY <1>10
  <1> HIDE DEF nth
  <1>13. s = [m \in 1..Cardinality(parameters) |-> url[nth(m)]]
    BY <1>10, <1>11, <1>12
  <1> QED
    BY <1>2, <1>9, <1>13 DEF s

-----------------------------------------------------------------------------
(* What is expected.                                                       *)

\* A pattern that matches a URL.
PatternFits(p, u) ==
    /\ \A i \in 1..Len(p) : IF p[i][1] = "*" THEN i = Len(p) /\ i <= Len(u)
                            ELSE i <= Len(u) /\ SegmentMatches(p[i], u[i])
    /\ Len(p) = Len(u) \/ (Len(p) >= 1 /\ p[Len(p)][1] = "*")

(* A way leads where its pattern does.                                     *)
LEMMA WayFitsIs ==
    ASSUME NEW p \in Seq(Names), NEW w, Len(w) = Len(p) + 1, \A i \in 1..Len(p) : w[i + 1].name = p[i],
           NEW u, Len(u) \in Nat
    PROVE  WayFits(w, u) <=> PatternFits(p, u)
  <1> DEFINE n == Len(p)
             m == Len(w)
  <1>1. n \in Nat /\ m = n + 1 /\ m \in Nat
    OBVIOUS
  <1>2. \A i \in 1..n : w[i + 1].name = p[i] /\ i + 1 \in 2..m /\ i + 1 - 1 = i /\ (i + 1 = m <=> i = n)
    BY <1>1
  <1>3. \A k \in 2..m : k - 1 \in 1..n /\ k - 1 + 1 = k
    BY <1>1
  <1>4. ASSUME WayFits(w, u)
        PROVE  PatternFits(p, u)
    <2>1. ASSUME NEW i \in 1..n
          PROVE  IF p[i][1] = "*" THEN i = n /\ i <= Len(u) ELSE i <= Len(u) /\ SegmentMatches(p[i], u[i])
      <3> DEFINE k == i + 1
      <3>1. k \in 2..m /\ w[k].name = p[i] /\ k - 1 = i /\ (k = m <=> i = n)
        BY <1>2
      <3> HIDE DEF k
      <3>2. IF w[k].name[1] = "*" THEN k = m /\ k - 1 <= Len(u)
            ELSE k - 1 <= Len(u) /\ SegmentMatches(w[k].name, u[k - 1])
        BY <1>4, <3>1 DEF WayFits
      <3> QED
        BY <3>1, <3>2
    <2>2. n = Len(u) \/ (n >= 1 /\ p[n][1] = "*")
      <3>1. CASE m = Len(u) + 1
        BY <1>1, <3>1
      <3>2. CASE m >= 2 /\ w[m].name[1] = "*"
        <4>1. n \in 1..n /\ n + 1 = m
          BY <1>1, <3>2
        <4>2. w[m].name = p[n]
          BY <1>2, <4>1
        <4> QED
          BY <3>2, <4>1, <4>2
      <3> QED
        BY <1>4, <3>1, <3>2 DEF WayFits
    <2> QED
      BY <2>1, <2>2 DEF PatternFits
  <1>5. ASSUME PatternFits(p, u)
        PROVE  WayFits(w, u)
    <2>1. ASSUME NEW k \in 2..m
          PROVE  IF w[k].name[1] = "*" THEN k = m /\ k - 1 <= Len(u)
                 ELSE k - 1 <= Len(u) /\ SegmentMatches(w[k].name, u[k - 1])
      <3> DEFINE i == k - 1
      <3>1. i \in 1..n /\ w[k].name = p[i] /\ (k = m <=> i = n)
        BY <1>1, <1>2, <1>3
      <3> HIDE DEF i
      <3>2. IF p[i][1] = "*" THEN i = n /\ i <= Len(u) ELSE i <= Len(u) /\ SegmentMatches(p[i], u[i])
        BY <1>5, <3>1 DEF PatternFits
      <3>3. IF w[k].name[1] = "*" THEN k = m /\ i <= Len(u) ELSE i <= Len(u) /\ SegmentMatches(w[k].name, u[i])
        BY <3>1, <3>2
      <3> QED
        BY <3>3 DEF i
    <2>2. m = Len(u) + 1 \/ (m >= 2 /\ w[m].name[1] = "*")
      <3>1. CASE n = Len(u)
        BY <1>1, <3>1
      <3>2. CASE n >= 1 /\ p[n][1] = "*"
        <4>1. n \in 1..n /\ n + 1 = m /\ m >= 2
          BY <1>1, <3>2
        <4>2. w[m].name = p[n]
          BY <1>2, <4>1
        <4> QED
          BY <3>2, <4>1, <4>2
      <3> QED
        BY <1>5, <3>1, <3>2 DEF PatternFits
    <2> QED
      BY <2>1, <2>2 DEF WayFits
  <1> QED
    BY <1>4, <1>5

(* The routes that match.                                                  *)
LEMMA MatchesIs ==
    ASSUME NEW rs \in Seq(Routes), NEW r \in 1..Len(rs), NEW method, NEW S, NEW url \in Seq(S)
    PROVE  Matches(rs[r], method, url) <=>
              /\ \E j \in 1..Len(rs[r].methods) : rs[r].methods[j] = method
              /\ PatternFits(PatternOf(rs, r), Segments(url))
  <1> DEFINE p == PatternOf(rs, r)
             u == Segments(url)
             wild == {i \in DOMAIN p : p[i][1] = "*"}
             rest == /\ \A i \in DOMAIN p \ wild : i \in DOMAIN u /\ SegmentMatches(p[i], u[i])
                     /\ IF wild = {} THEN Len(p) = Len(u) ELSE wild = {Len(p)} /\ Len(p) <= Len(u)
  <1>1. p \in Seq(Names) /\ Len(p) \in Nat /\ rs[r].methods \in Seq(STRING)
    BY RouteIs
  <1>2. u \in Seq(S) /\ Len(u) \in Nat
    BY SegmentsAre
  <1> HIDE DEF u
  <1>3. Matches(rs[r], method, url) <=>
              (\E j \in DOMAIN rs[r].methods : rs[r].methods[j] = method) /\ rest
    BY DEF Matches, PatternOf, u
  <1>4. DOMAIN p = 1..Len(p) /\ DOMAIN u = 1..Len(u) /\ DOMAIN rs[r].methods = 1..Len(rs[r].methods)
    BY <1>1, <1>2
  <1> HIDE DEF p
  <1>5. ASSUME rest
        PROVE  PatternFits(p, u)
    <2>1. ASSUME NEW i \in 1..Len(p)
          PROVE  IF p[i][1] = "*" THEN i = Len(p) /\ i <= Len(u) ELSE i <= Len(u) /\ SegmentMatches(p[i], u[i])
      <3>1. CASE p[i][1] = "*"
        <4>1. i \in wild
          BY <1>4, <3>1
        <4>2. wild = {Len(p)} /\ Len(p) <= Len(u)
          BY <1>5, <4>1
        <4> QED
          BY <3>1, <4>1, <4>2
      <3>2. CASE p[i][1] # "*"
        <4>1. i \in DOMAIN p \ wild
          BY <1>4, <3>2
        <4>2. i \in DOMAIN u /\ SegmentMatches(p[i], u[i])
          BY <1>5, <4>1
        <4> QED
          BY <1>2, <1>4, <3>2, <4>2
      <3> QED
        BY <3>1, <3>2
    <2>2. Len(p) = Len(u) \/ (Len(p) >= 1 /\ p[Len(p)][1] = "*")
      <3>1. CASE wild = {}
        BY <1>5, <3>1
      <3>2. CASE wild # {}
        <4>1. Len(p) \in wild
          BY <1>5, <3>2
        <4>2. Len(p) \in DOMAIN p /\ p[Len(p)][1] = "*"
          BY <4>1
        <4>3. Len(p) \in 1..Len(p)
          BY <1>4, <4>2
        <4>4. Len(p) >= 1
          BY <1>1, <4>3
        <4> QED
          BY <4>2, <4>4
      <3> QED
        BY <3>1, <3>2
    <2> QED
      BY <2>1, <2>2 DEF PatternFits
  <1>6. ASSUME PatternFits(p, u)
        PROVE  rest
    <2>1. \A i \in 1..Len(p) : IF p[i][1] = "*" THEN i = Len(p) /\ i <= Len(u)
                               ELSE i <= Len(u) /\ SegmentMatches(p[i], u[i])
      BY <1>6 DEF PatternFits
    <2>2. Len(p) = Len(u) \/ (Len(p) >= 1 /\ p[Len(p)][1] = "*")
      BY <1>6 DEF PatternFits
    <2>3. ASSUME NEW i \in DOMAIN p \ wild
          PROVE  i \in DOMAIN u /\ SegmentMatches(p[i], u[i])
      <3>1. i \in 1..Len(p) /\ p[i][1] # "*"
        BY <1>4
      <3>2. i <= Len(u) /\ SegmentMatches(p[i], u[i])
        BY <2>1, <3>1
      <3>3. i \in 1..Len(u)
        BY <1>2, <3>1, <3>2
      <3> QED
        BY <1>4, <3>2, <3>3
    <2>4. CASE wild = {}
      <3>1. ~(Len(p) >= 1 /\ p[Len(p)][1] = "*")
        <4> SUFFICES ASSUME Len(p) >= 1, p[Len(p)][1] = "*"
                     PROVE  FALSE
          OBVIOUS
        <4>1. Len(p) \in 1..Len(p)
          BY <1>1
        <4> QED
          BY <1>4, <2>4, <4>1
      <3> QED
        BY <2>2, <2>3, <2>4, <3>1
    <2>5. CASE wild # {}
      <3>1. \A i \in wild : i = Len(p) /\ i <= Len(u)
        BY <1>4, <2>1
      <3>2. wild = {Len(p)} /\ Len(p) <= Len(u)
        BY <2>5, <3>1
      <3> QED
        BY <2>3, <2>5, <3>2
    <2> QED
      BY <2>4, <2>5
  <1> HIDE DEF rest
  <1> QED
    BY <1>3, <1>4, <1>5, <1>6 DEF p, u

(* Where patterns differ.                                                  *)
Differ(p, q) == {i \in DOMAIN p \cap DOMAIN q : p[i] # q[i]}
FirstDiffer(p, q) == CHOOSE i \in Differ(p, q) : \A j \in Differ(p, q) : i <= j

(* The first of them is the first, whichever pattern is looked at first.   *)
LEMMA FirstDifferIs ==
    ASSUME NEW S, NEW p \in Seq(S), NEW q \in Seq(S)
    PROVE  /\ Differ(p, q) = Differ(q, p)
           /\ Differ(p, q) # {} => FirstDiffer(p, q) \in Differ(p, q)
           /\ \A i \in 1..Len(p) : i <= Len(q) /\ p[i] # q[i] /\ (\A j \in 1..(i - 1) : p[j] = q[j])
                 => i \in Differ(p, q) /\ FirstDiffer(p, q) = i
  <1> DEFINE D == Differ(p, q)
             n == Len(p)
             at == FirstDiffer(p, q)
  <1>1. n \in Nat /\ Len(q) \in Nat /\ DOMAIN p = 1..n /\ DOMAIN q = 1..Len(q)
    OBVIOUS
  <1>2. \A i : i \in D <=> i \in 1..n /\ i \in 1..Len(q) /\ p[i] # q[i]
    BY <1>1 DEF Differ
  <1>3. Differ(p, q) = Differ(q, p)
    BY DEF Differ
  <1>4. D \in SUBSET (1..n)
    BY <1>2
  <1>5. D # {} => at \in D /\ \A j \in D : at <= j
    <2>1. D # {} => Min(D) \in D /\ \A j \in D : Min(D) <= j
      <3> HIDE DEF D, n
      <3> QED
        BY <1>1, <1>4, FirstOf
    <2> QED
      BY <2>1 DEF FirstDiffer
  <1> HIDE DEF at, D
  <1>6. ASSUME NEW i \in 1..n, i <= Len(q), p[i] # q[i], \A j \in 1..(i - 1) : p[j] = q[j]
        PROVE  i \in D /\ at = i
    <2>1. i \in D
      BY <1>1, <1>2, <1>6
    <2>2. at \in D /\ at <= i
      BY <1>5, <2>1
    <2>3. ~(at < i)
      <3> SUFFICES ASSUME at < i
                   PROVE  FALSE
        OBVIOUS
      <3>1. at \in 1..(i - 1) /\ p[at] # q[at]
        BY <1>1, <1>2, <2>2
      <3> QED
        BY <1>6, <3>1
    <2>4. at \in Int
      BY <1>2, <2>2
    <2> QED
      BY <2>1, <2>2, <2>3, <2>4
  <1> QED
    BY <1>3, <1>5, <1>6 DEF D, at, n

(* Which route is preferred.                                               *)
LEMMA PreferredIs ==
    ASSUME NEW rs, NEW a, NEW b
    PROVE  Preferred(rs, a, b) <=>
              IF HighOf(rs, a) # HighOf(rs, b) THEN HighOf(rs, a)
              ELSE IF Differ(PatternOf(rs, a), PatternOf(rs, b)) # {}
                THEN MoreSpecific(PatternOf(rs, a)[FirstDiffer(PatternOf(rs, a), PatternOf(rs, b))],
                                  PatternOf(rs, b)[FirstDiffer(PatternOf(rs, a), PatternOf(rs, b))])
              ELSE HandlerPrecedes(HandlerFor(rs, a), HandlerFor(rs, b))
  <1> DEFINE high == [x \in {a, b} |-> rs[x].priority = HIGH_PRIORITY]
             handler(x) == [priority |-> rs[x].priority, id |-> x]
  <1>1. (high[a] <=> HighOf(rs, a)) /\ (high[b] <=> HighOf(rs, b))
    BY DEF HighOf
  <1>2. \A x : handler(x).priority = HandlerFor(rs, x).priority /\ handler(x).id = HandlerFor(rs, x).id
    BY DEF HandlerFor
  <1>3. HandlerPrecedes(handler(a), handler(b)) <=> HandlerPrecedes(HandlerFor(rs, a), HandlerFor(rs, b))
    BY <1>2 DEF HandlerPrecedes
  <1> DEFINE p == PatternOf(rs, a)
             q == PatternOf(rs, b)
             at == FirstDiffer(p, q)
  <1>4. Preferred(rs, a, b) <=>
              IF high[a] # high[b] THEN high[a]
              ELSE IF Differ(p, q) # {} THEN MoreSpecific(p[at], q[at])
              ELSE HandlerPrecedes(handler(a), handler(b))
    BY DEF Preferred, Differ, FirstDiffer, PatternOf
  <1>5. high[a] \in BOOLEAN /\ high[b] \in BOOLEAN /\ HighOf(rs, a) \in BOOLEAN /\ HighOf(rs, b) \in BOOLEAN
    BY DEF HighOf
  <1> HIDE DEF high, handler, p, q, at
  <1>6. Preferred(rs, a, b) <=>
              IF HighOf(rs, a) # HighOf(rs, b) THEN HighOf(rs, a)
              ELSE IF Differ(p, q) # {} THEN MoreSpecific(p[at], q[at])
              ELSE HandlerPrecedes(HandlerFor(rs, a), HandlerFor(rs, b))
    BY <1>1, <1>3, <1>4, <1>5
  <1> QED
    BY <1>6 DEF p, q, at

(* No two routes are preferred to each other.                              *)
LEMMA PreferredOnce ==
    ASSUME NEW rs \in Seq(Routes), NEW a \in 1..Len(rs), NEW b \in 1..Len(rs), a # b,
           Preferred(rs, a, b), Preferred(rs, b, a)
    PROVE  FALSE
  <1> DEFINE p == PatternOf(rs, a)
             q == PatternOf(rs, b)
             at == FirstDiffer(p, q)
             h == HandlerFor(rs, a)
             g == HandlerFor(rs, b)
  <1>1. p \in Seq(Names) /\ q \in Seq(Names) /\ h \in Handlers /\ g \in Handlers
    BY RouteIs
  <1>2. h.id # g.id
    BY DEF HandlerFor
  <1> HIDE DEF p, q, h, g
  <1>3. Differ(p, q) = Differ(q, p) /\ FirstDiffer(q, p) = at
    <2>1. Differ(p, q) = Differ(q, p)
      BY <1>1, FirstDifferIs
    <2> QED
      BY <2>1 DEF FirstDiffer
  <1>4. Differ(p, q) # {} => at \in Differ(p, q)
    BY <1>1, FirstDifferIs
  <1> HIDE DEF at
  <1>5. IF HighOf(rs, a) # HighOf(rs, b) THEN HighOf(rs, a)
        ELSE IF Differ(p, q) # {} THEN MoreSpecific(p[at], q[at]) ELSE HandlerPrecedes(h, g)
    BY PreferredIs DEF p, q, at, h, g
  <1>6. IF HighOf(rs, b) # HighOf(rs, a) THEN HighOf(rs, b)
        ELSE IF Differ(q, p) # {} THEN MoreSpecific(q[FirstDiffer(q, p)], p[FirstDiffer(q, p)])
        ELSE HandlerPrecedes(g, h)
    BY PreferredIs DEF p, q, h, g
  <1>7. HighOf(rs, a) \in BOOLEAN /\ HighOf(rs, b) \in BOOLEAN
    BY DEF HighOf
  <1>8. HighOf(rs, a) = HighOf(rs, b)
    BY <1>5, <1>6, <1>7
  <1>9. CASE Differ(p, q) # {}
    <2>1. MoreSpecific(p[at], q[at]) /\ MoreSpecific(q[at], p[at])
      BY <1>3, <1>5, <1>6, <1>8, <1>9
    <2>2. at \in DOMAIN p /\ at \in DOMAIN q
      BY <1>4, <1>9 DEF Differ
    <2>3. p[at] \in Names /\ q[at] \in Names
      BY <1>1, <2>2
    <2>4. p[at][2] \in Int /\ q[at][2] \in Int
      BY <2>3, NamesRanked
    <2> QED
      BY <2>1, <2>4 DEF MoreSpecific
  <1>10. CASE Differ(p, q) = {}
    <2>1. HandlerPrecedes(h, g) /\ HandlerPrecedes(g, h)
      BY <1>3, <1>5, <1>6, <1>8, <1>10
    <2> QED
      BY <1>1, <2>1 DEF HandlerPrecedes, Handlers
  <1> QED
    BY <1>9, <1>10

(* The route whose entry comes first in the tree is preferred.             *)
LEMMA BetterPreferred ==
    ASSUME NEW rs \in Seq(Routes), NEW a \in 1..Len(rs), NEW b \in 1..Len(rs), a # b,
           NEW j \in 1..Len(rs[a].methods), NEW k \in 1..Len(rs[b].methods),
           rs[a].methods[j] = rs[b].methods[k],
           Better(EntryOf(rs, a, j), EntryOf(rs, b, k))
    PROVE  Preferred(rs, a, b)
  <1> DEFINE p == PatternOf(rs, a)
             q == PatternOf(rs, b)
             at == FirstDiffer(p, q)
             h == HandlerFor(rs, a)
             g == HandlerFor(rs, b)
             v == WayOf(rs, a, j)
             w == WayOf(rs, b, k)
             x == HighOf(rs, a)
             y == HighOf(rs, b)
  <1>1. /\ p \in Seq(Names) /\ q \in Seq(Names) /\ h \in Handlers /\ g \in Handlers
        /\ Len(p) \in Nat /\ Len(q) \in Nat /\ x \in BOOLEAN /\ y \in BOOLEAN
    BY RouteIs
  <1>2. /\ h.id # g.id /\ (h.priority = HIGH_PRIORITY <=> x) /\ (g.priority = HIGH_PRIORITY <=> y)
        /\ h.priority \in 1..3 /\ g.priority \in 1..3
    <2>1. rs[a] \in Routes /\ rs[b] \in Routes
      OBVIOUS
    <2>2. rs[a].priority \in 1..3 /\ rs[b].priority \in 1..3
      BY <2>1 DEF Routes
    <2> QED
      BY <2>2 DEF HandlerFor, HighOf
  <1>3. /\ v \in Seq(Kids) /\ Len(v) = Len(p) + 1 /\ v[1] = [name |-> rs[a].methods[j], high |-> FALSE]
        /\ \A i \in 1..Len(p) : v[i + 1] = [name |-> p[i], high |-> x]
    BY WayOfIs
  <1>4. /\ w \in Seq(Kids) /\ Len(w) = Len(q) + 1 /\ w[1] = [name |-> rs[b].methods[k], high |-> FALSE]
        /\ \A i \in 1..Len(q) : w[i + 1] = [name |-> q[i], high |-> y]
    BY WayOfIs
  <1>5. EntryOf(rs, a, j)[1] = v /\ EntryOf(rs, a, j)[2] = h
        /\ EntryOf(rs, b, k)[1] = w /\ EntryOf(rs, b, k)[2] = g
    BY DEF EntryOf
  <1> HIDE DEF p, q, h, g, v, w, x, y
  <1>6. \/ v = w /\ ~HandlerPrecedes(g, h)
        \/ \E i \in 1..Len(v) : i <= Len(w) /\ (\A m \in 1..(i - 1) : v[m] = w[m]) /\ v[i] # w[i] /\ Before(v[i], w[i])
    BY <1>5 DEF Better
  <1>7. IF x # y THEN x ELSE IF Differ(p, q) # {} THEN MoreSpecific(p[at], q[at]) ELSE HandlerPrecedes(h, g)
    <2>1. CASE v = w /\ ~HandlerPrecedes(g, h)
      <3>1. Len(p) = Len(q)
        BY <1>1, <1>3, <1>4, <2>1
      <3>2. \A i \in 1..Len(p) : p[i] = q[i]
        <4> SUFFICES ASSUME NEW i \in 1..Len(p)
                     PROVE  p[i] = q[i]
          OBVIOUS
        <4>1. [name |-> p[i], high |-> x].name = [name |-> q[i], high |-> y].name
          BY <1>3, <1>4, <2>1, <3>1
        <4> QED
          BY <4>1
      <3>3. Differ(p, q) = {}
        BY <1>1, <3>1, <3>2 DEF Differ
      <3>4. x # y => x
        BY <1>1, <1>2, <2>1 DEF HandlerPrecedes, HIGH_PRIORITY
      <3>5. HandlerPrecedes(h, g) \/ x # y
        <4>1. h.id \in Nat /\ g.id \in Nat
          BY <1>1 DEF Handlers
        <4> QED
          BY <1>2, <2>1, <4>1 DEF HandlerPrecedes
      <3> QED
        BY <3>3, <3>4, <3>5
    <2>2. ASSUME NEW i \in 1..Len(v), i <= Len(w), \A m \in 1..(i - 1) : v[m] = w[m], v[i] # w[i], Before(v[i], w[i])
          PROVE  IF x # y THEN x ELSE IF Differ(p, q) # {} THEN MoreSpecific(p[at], q[at]) ELSE HandlerPrecedes(h, g)
      <3> DEFINE c == i - 1
      <3>1. i # 1
        BY <1>3, <1>4, <2>2
      <3>2. c \in 1..Len(p) /\ c \in 1..Len(q) /\ c + 1 = i
        BY <1>1, <1>3, <1>4, <2>2, <3>1
      <3> HIDE DEF c
      <3>3. v[i] = [name |-> p[c], high |-> x] /\ w[i] = [name |-> q[c], high |-> y]
        BY <1>3, <1>4, <3>2
      <3>4. IF x # y THEN x ELSE MoreSpecific(p[c], q[c])
        BY <1>1, <2>2, <3>3 DEF Before
      <3>5. CASE x # y
        BY <3>4, <3>5
      <3>6. CASE x = y
        <4>1. p[c] # q[c]
          BY <2>2, <3>3, <3>6
        <4>2. \A m \in 1..(c - 1) : p[m] = q[m]
          <5> SUFFICES ASSUME NEW m \in 1..(c - 1)
                       PROVE  p[m] = q[m]
            OBVIOUS
          <5>1. m + 1 \in 1..(i - 1) /\ m \in 1..Len(p) /\ m \in 1..Len(q)
            BY <1>1, <3>2
          <5>2. [name |-> p[m], high |-> x].name = [name |-> q[m], high |-> y].name
            BY <1>3, <1>4, <2>2, <5>1
          <5> QED
            BY <5>2
        <4>3. c \in Differ(p, q) /\ at = c
          <5>1. c <= Len(q)
            BY <1>1, <3>2
          <5>2. \A o \in 1..Len(p) :
                   o <= Len(q) /\ p[o] # q[o] /\ (\A m \in 1..(o - 1) : p[m] = q[m])
                      => o \in Differ(p, q) /\ at = o
            BY <1>1, FirstDifferIs
          <5> HIDE DEF at
          <5> QED
            BY <3>2, <4>1, <4>2, <5>1, <5>2
        <4> HIDE DEF at
        <4> QED
          BY <3>4, <3>6, <4>3
      <3> QED
        BY <3>5, <3>6
    <2> QED
      BY <1>6, <2>1, <2>2
  <1> QED
    BY <1>7, PreferredIs DEF p, q, at, h, g, x, y

-----------------------------------------------------------------------------
(* The answer to a request.                                                *)

(* The entries of all routes.                                              *)
LEMMA AllOfIs ==
    ASSUME NEW rs \in Seq(Routes)
    PROVE  /\ \A e \in AllOf(rs) : \E r \in 1..Len(rs) : \E j \in 1..Len(rs[r].methods) :
                 e = EntryOf(rs, r, j)
           /\ \A r \in 1..Len(rs) : \A j \in 1..Len(rs[r].methods) : EntryOf(rs, r, j) \in AllOf(rs)
           /\ Numbered(AllOf(rs))
  <1> DEFINE n == Len(rs) + 1
  <1>1. ASSUME NEW e \in AllOf(rs)
        PROVE  \E r \in 1..Len(rs) : \E j \in 1..Len(rs[r].methods) : e = EntryOf(rs, r, j)
    <2>1. PICK c \in Pairs(rs, n, 0) : e = EntryOf(rs, c[1], c[2])
      BY DEF AllOf, UpTo
    <2>2. c[1] \in 1..Len(rs) /\ c[2] \in 1..Len(rs[c[1]].methods)
      BY DEF Pairs
    <2> QED
      BY <2>1, <2>2
  <1>2. ASSUME NEW r \in 1..Len(rs), NEW j \in 1..Len(rs[r].methods)
        PROVE  EntryOf(rs, r, j) \in AllOf(rs)
    <2> DEFINE c == <<r, j>>
    <2>1. r < n
      OBVIOUS
    <2>2. c \in (1..Len(rs)) \X Nat /\ c[1] = r /\ c[2] = j
      <3>1. j \in Nat
        <4>1. Len(rs[r].methods) \in Nat
          <5>1. rs[r].methods \in Seq(STRING)
            BY RouteIs
          <5> QED
            BY <5>1
        <4> QED
          BY <4>1
      <3> QED
        BY <3>1
    <2> HIDE DEF c
    <2>3. c \in Pairs(rs, n, 0)
      BY <2>1, <2>2 DEF Pairs
    <2>4. EntryOf(rs, c[1], c[2]) \in UpTo(rs, n, 0)
      BY <2>3 DEF UpTo
    <2> QED
      BY <2>2, <2>4 DEF AllOf
  <1>3. Numbered(AllOf(rs))
    <2> SUFFICES ASSUME NEW e \in AllOf(rs)
                 PROVE  e[2].id # 0
      BY DEF Numbered
    <2>1. PICK r \in 1..Len(rs) : \E j \in 1..Len(rs[r].methods) : e = EntryOf(rs, r, j)
      BY <1>1
    <2>2. e[2].id = r
      BY <2>1 DEF EntryOf, HandlerFor
    <2> QED
      BY <2>2
  <1> QED
    BY <1>1, <1>2, <1>3

(* An entry fits when its route matches.                                   *)
LEMMA EntryFits ==
    ASSUME NEW rs \in Seq(Routes), NEW r \in 1..Len(rs), NEW j \in 1..Len(rs[r].methods),
           NEW S, NEW url \in Seq(S)
    PROVE  /\ Matches(rs[r], rs[r].methods[j], url) <=> WayFits(EntryOf(rs, r, j)[1], Segments(url))
           /\ EntryOf(rs, r, j)[2].id = r
           /\ EntryOf(rs, r, j)[1][1] = [name |-> rs[r].methods[j], high |-> FALSE]
           /\ WayFits(EntryOf(rs, r, j)[1], Segments(url))
                 => RouteParameters(EntryOf(rs, r, j)[1], Segments(url)) = ParametersOf(PatternOf(rs, r), url)
  <1> DEFINE p == PatternOf(rs, r)
             w == WayOf(rs, r, j)
             u == Segments(url)
  <1>1. p \in Seq(Names) /\ Len(p) \in Nat
    BY RouteIs
  <1>2. /\ Len(w) = Len(p) + 1 /\ w[1] = [name |-> rs[r].methods[j], high |-> FALSE]
        /\ \A i \in 1..Len(p) : w[i + 1] = [name |-> p[i], high |-> HighOf(rs, r)]
    BY WayOfIs
  <1>4. Len(u) \in Nat /\ Len(u) <= Len(url) /\ \A i \in 1..Len(u) : u[i] = url[i]
    BY SegmentsAre
  <1> HIDE DEF w, u
  <1>5. Matches(rs[r], rs[r].methods[j], url) <=> PatternFits(p, u)
    BY MatchesIs DEF u
  <1> HIDE DEF p
  <1>3. \A i \in 1..Len(p) : w[i + 1].name = p[i]
    <2> SUFFICES ASSUME NEW i \in 1..Len(p)
                 PROVE  w[i + 1].name = p[i]
      OBVIOUS
    <2>1. w[i + 1] = [name |-> p[i], high |-> HighOf(rs, r)]
      BY <1>2
    <2> QED
      BY <2>1
  <1>6. WayFits(w, u) <=> PatternFits(p, u)
    BY <1>1, <1>2, <1>3, <1>4, WayFitsIs
  <1>7. ASSUME PatternFits(p, u)
        PROVE  RouteParameters(w, u) = ParametersOf(p, url)
    <2>1. Len(p) <= Len(u)
      <3>1. CASE Len(p) = Len(u)
        BY <1>4, <3>1
      <3>2. CASE Len(p) >= 1 /\ p[Len(p)][1] = "*"
        <4>1. Len(p) \in 1..Len(p)
          BY <1>1, <3>2
        <4> QED
          BY <1>7, <3>2, <4>1 DEF PatternFits
      <3> QED
        BY <1>7, <3>1, <3>2 DEF PatternFits
    <2>2. \A i \in 1..Len(p) : u[i] = url[i]
      BY <1>1, <1>4, <2>1
    <2> QED
      BY <1>1, <1>2, <1>3, <2>2, ParametersRight
  <1>8. EntryOf(rs, r, j)[1] = w /\ EntryOf(rs, r, j)[2].id = r
    BY DEF EntryOf, HandlerFor, w
  <1> QED
    BY <1>2, <1>5, <1>6, <1>7, <1>8 DEF p, u

(* The routes that match a request and do not yield.                       *)
Finding(rs, method, url, yielding) ==
    {r \in 1..Len(rs) : r \notin yielding /\ Matches(rs[r], method, url)}

(* Of those that match the preferred one is expected.                      *)
LEMMA ExpectedIs ==
    ASSUME NEW rs \in Seq(Routes), NEW method, NEW url, NEW yielding
    PROVE  /\ Finding(rs, method, url, yielding) = {} => Expected(rs, method, url, yielding) = NoRoute
           /\ \A r \in Finding(rs, method, url, yielding) :
                 (\A o \in Finding(rs, method, url, yielding) : o # r => Preferred(rs, r, o)) =>
                 Expected(rs, method, url, yielding) = [id |-> r, params |-> ParametersOf(PatternOf(rs, r), url)]
  <1> DEFINE found == Finding(rs, method, url, yielding)
             best == CHOOSE r \in found : \A other \in found \ {r} : Preferred(rs, r, other)
  <1>1. found = {r \in DOMAIN rs \ yielding : Matches(rs[r], method, url)}
    <2>1. DOMAIN rs = 1..Len(rs)
      OBVIOUS
    <2> QED
      BY <2>1 DEF Finding
  <1>2. Expected(rs, method, url, yielding) =
           IF found = {} THEN NoRoute ELSE [id |-> best, params |-> ParametersOf(PatternOf(rs, best), url)]
    BY <1>1 DEF Expected, PatternOf
  <1>3. ASSUME NEW r \in found, \A o \in found : o # r => Preferred(rs, r, o)
        PROVE  best = r
    <2>1. \A other \in found \ {r} : Preferred(rs, r, other)
      BY <1>3
    <2>2. best \in found /\ \A other \in found \ {best} : Preferred(rs, best, other)
      BY <2>1
    <2> HIDE DEF best
    <2> SUFFICES ASSUME best # r
                 PROVE  FALSE
      OBVIOUS
    <2>3. Preferred(rs, best, r) /\ Preferred(rs, r, best)
      BY <2>1, <2>2
    <2>4. best \in 1..Len(rs) /\ r \in 1..Len(rs)
      BY <2>2 DEF Finding
    <2> QED
      BY <2>3, <2>4, PreferredOnce
  <1> HIDE DEF best
  <1> QED
    BY <1>2, <1>3

(* The node of a method.                                                   *)
FirstMethod(t, method) == SelectInSeq(t[<<>>].children, LAMBDA child : child.name = method)

(* The method of a request is found if the root has it.                    *)
LEMMA MethodFound ==
    ASSUME NEW t, TreeInv(t), NEW method
    PROVE  /\ FirstMethod(t, method) = 0 => \A c : Has(t[<<>>].children, c) => c.name # method
           /\ FirstMethod(t, method) # 0 =>
                 /\ FirstMethod(t, method) \in 1..Len(t[<<>>].children)
                 /\ t[<<>>].children[FirstMethod(t, method)] = [name |-> method, high |-> FALSE]
  <1> DEFINE xs == t[<<>>].children
             I == {i \in 1..Len(xs) : xs[i].name = method}
             at == FirstMethod(t, method)
  <1>1. <<>> \in DOMAIN t /\ xs \in Seq(Kids) /\ Len(xs) \in Nat
    BY DEF TreeInv, TreeTypes, Nodes
  <1>2. at = IF I # {} THEN Min(I) ELSE 0
    BY DEF FirstMethod, SelectInSeq
  <1>3. I \in SUBSET (1..Len(xs))
    OBVIOUS
  <1>4. I # {} => at \in I
    BY <1>1, <1>2, <1>3, FirstOf
  <1>5. \A i \in 1..Len(xs) : xs[i].name = method => I # {}
    OBVIOUS
  <1>6. I # {} => at \in 1..Len(xs) /\ xs[at].name = method
    BY <1>4
  <1>7. I # {} => xs[at] \in Kids /\ Has(xs, xs[at])
    BY <1>1, <1>6 DEF Has
  <1>8. \A c \in Kids : Has(xs, c) => ~c.high
    BY <1>1 DEF TreeInv, NodesNamed
  <1> HIDE DEF xs, I, at
  <1>9. I # {} => ~xs[at].high
    BY <1>7, <1>8
  <1>10. I # {} => xs[at] = [name |-> method, high |-> FALSE]
    BY <1>6, <1>7, <1>9 DEF Kids
  <1>11. I = {} => \A c : Has(xs, c) => c.name # method
    BY <1>5 DEF Has
  <1>12. I # {} => at # 0
    BY <1>1, <1>6
  <1> QED
    BY <1>2, <1>6, <1>10, <1>11, <1>12 DEF xs, at

(* The entries that answer a request.                                      *)
Under(E, method, u, yielding) ==
    {e \in E : e[2].id \notin yielding /\ e[1][1] = [name |-> method, high |-> FALSE] /\ WayFits(e[1], u)}

(* The best of them does.                                                  *)
LEMMA RouteAnswers ==
    ASSUME NEW t, NEW E \in SUBSET Entries, Built(t, E), Numbered(E),
           NEW method, NEW S, NEW url \in Seq(S), NEW yielding
    PROVE  Right(Route(t, method, url, yielding), Under(E, method, Segments(url), yielding), Segments(url))
  <1> DEFINE u == Segments(url)
             at == FirstMethod(t, method)
             c == [name |-> method, high |-> FALSE]
             p == Append(<<>>, c)
             F == Under(E, method, u, yielding)
  <1>1. TreeInv(t) /\ <<>> \in DOMAIN t /\ <<>> \in Seq(Kids) /\ Len(u) \in Nat
    BY SegmentsAre DEF Built, TreeInv, TreeTypes
  <1>2. p = <<c>> /\ Len(p) = 1 /\ p[1] = c
    OBVIOUS
  <1>3. at # 0 => t[<<>>].children[at] = c
    BY <1>1, MethodFound
  <1>4. Route(t, method, url, yielding) = IF at = 0 THEN NoRoute ELSE Execute(t, p, u, yielding)
    BY <1>2, <1>3 DEF Route, FirstMethod
  <1> HIDE DEF u, p
  <1>5. \A e \in F : e[1] \in Seq(Kids) /\ Len(e[1]) \in Nat /\ Len(e[1]) >= 1 /\ c = e[1][1]
    <2> SUFFICES ASSUME NEW e \in F
                 PROVE  e[1] \in Seq(Kids) /\ Len(e[1]) \in Nat /\ Len(e[1]) >= 1 /\ c = e[1][1]
      OBVIOUS
    <2>1. e \in Entries /\ WayFits(e[1], u) /\ e[1][1] = c
      BY DEF Under
    <2>2. e[1] \in Seq(Kids)
      BY <2>1 DEF Entries
    <2>3. Len(e[1]) \in Nat
      BY <2>2
    <2>4. Len(e[1]) = Len(u) + 1 \/ Len(e[1]) >= 2
      BY <2>1 DEF WayFits
    <2> QED
      BY <1>1, <2>1, <2>2, <2>3, <2>4
  <1>6. CASE at = 0
    <2>1. ASSUME NEW e \in F
          PROVE  FALSE
      <3>1. 1 \in 1..Len(e[1]) /\ c \in Kids /\ e \in E
        <4>1. e[1] \in Seq(Kids) /\ Len(e[1]) \in Nat /\ Len(e[1]) >= 1 /\ c = e[1][1]
          BY <1>5, <2>1
        <4> QED
          BY <4>1 DEF Under
      <3>2. WayTo(e[1], 1) \in DOMAIN t
        BY <3>1 DEF Built
      <3>3. WayTo(e[1], 1) = p
        <4>1. c = e[1][1]
          BY <1>5, <2>1
        <4>2. [j \in 1..1 |-> e[1][j]] = <<e[1][1]>>
          OBVIOUS
        <4> QED
          BY <1>2, <4>1, <4>2 DEF WayTo
      <3>4. Has(t[<<>>].children, c)
        <4>1. Append(<<>>, c) \in DOMAIN t
          BY <3>2, <3>3 DEF p
        <4>2. \A q \in Seq(Kids), d \in Kids : Append(q, d) \in DOMAIN t => Has(t[q].children, d)
          BY <1>1 DEF TreeInv, NodesLinked
        <4> QED
          BY <1>1, <3>1, <4>1, <4>2
      <3>5. c.name # method
        BY <1>1, <1>6, <3>4, MethodFound
      <3> QED
        BY <3>5
    <2>2. F = {}
      BY <2>1
    <2> QED
      BY <1>4, <1>6, <2>2 DEF Right, u
  <1>7. CASE at # 0
    <2>1. c \in Kids /\ Has(t[<<>>].children, c)
      <3>1. at \in 1..Len(t[<<>>].children) /\ t[<<>>].children[at] = c
        BY <1>1, <1>7, MethodFound
      <3>2. t[<<>>].children \in Seq(Kids)
        BY <1>1 DEF TreeInv, TreeTypes, Nodes
      <3> HIDE DEF c, at
      <3> QED
        BY <3>1, <3>2 DEF Has
    <2>2. p \in DOMAIN t
      <3>1. \A q \in Seq(Kids), d \in Kids : q \in DOMAIN t /\ Has(t[q].children, d) => Append(q, d) \in DOMAIN t
        BY <1>1 DEF TreeInv, NodesLinked
      <3> QED
        BY <1>1, <2>1, <3>1 DEF p
    <2>3. PrefixFits(p, u)
      <3>1. 1 \in 1..(Len(u) + 1)
        BY <1>1
      <3> QED
        BY <1>2, <3>1 DEF PrefixFits
    <2>4. At(t, E, p, u)
      BY <1>1, <2>2, <2>3 DEF At
    <2>5. PICK f : Answering(f, t, u, yielding) /\ \A path : Execute(t, path, u, yielding) = f[path]
      BY <1>1, ExecuteIs
    <2>6. Right(f[p], Chosen(E, p, u, yielding), u)
      <3>1. \A n \in Nat : \A q \in DOMAIN t :
               Len(q) + n = Len(u) + 1 /\ At(t, E, q, u) => Right(f[q], Chosen(E, q, u, yielding), u)
        BY <1>1, <2>5, WalkRight
      <3>2. Len(p) + Len(u) = Len(u) + 1
        BY <1>1, <1>2
      <3> QED
        BY <1>1, <2>2, <2>4, <3>1, <3>2
    <2>7. Chosen(E, p, u, yielding) = F
      <3>1. ASSUME NEW e \in Chosen(E, p, u, yielding)
            PROVE  e \in F
        <4>1. e \in E /\ e[2].id \notin yielding /\ Through(e[1], p) /\ WayFits(e[1], u)
          BY <3>1 DEF Chosen
        <4>2. 1 \in 1..Len(p)
          BY <1>2
        <4>3. e[1][1] = p[1]
          BY <4>1, <4>2 DEF Through
        <4>4. e[1][1] = c
          BY <1>2, <4>3
        <4> QED
          BY <4>1, <4>4 DEF Under
      <3>2. ASSUME NEW e \in F
            PROVE  e \in Chosen(E, p, u, yielding)
        <4>1. e \in E /\ e[2].id \notin yielding /\ WayFits(e[1], u) /\ e[1][1] = c
          BY <3>2 DEF Under
        <4>2. Len(p) <= Len(e[1]) /\ \A i \in 1..Len(p) : e[1][i] = p[i]
          <5>1. Len(e[1]) \in Nat /\ Len(e[1]) >= 1
            BY <1>5, <3>2
          <5>2. Len(p) <= Len(e[1])
            BY <1>2, <5>1
          <5>3. \A i \in 1..Len(p) : i = 1
            BY <1>2
          <5>4. e[1][1] = p[1]
            BY <1>2, <4>1
          <5> QED
            BY <5>2, <5>3, <5>4
        <4> QED
          BY <4>1, <4>2 DEF Chosen, Through
      <3> HIDE DEF F
      <3> QED
        BY <3>1, <3>2
    <2> QED
      BY <1>4, <1>7, <2>5, <2>6, <2>7 DEF u
  <1> QED
    BY <1>6, <1>7

(* A request goes to the route that is expected to answer it, whatever the *)
(* routes are and whatever the order they were registered in, if an empty  *)
(* name comes before its siblings.                                         *)
THEOREM RouteRight ==
    ASSUME NEW rs \in Seq(Routes), EmptyFirst(rs),
           NEW method, NEW S, NEW url \in Seq(S), NEW yielding
    PROVE  Route(TreeOf(rs), method, url, yielding) = Expected(rs, method, url, yielding)
  <1> DEFINE E == AllOf(rs)
             t == TreeOf(rs)
             u == Segments(url)
             F == Under(E, method, u, yielding)
             found == Finding(rs, method, url, yielding)
             answer == Route(t, method, url, yielding)
  <1>1. E \in SUBSET Entries /\ Built(t, E) /\ Numbered(E)
    BY EntriesAre, TreeBuilt, AllOfIs DEF AllOf
  <1>2. Right(answer, F, u)
    BY <1>1, RouteAnswers
  <1>3. ASSUME NEW r \in found
        PROVE  \E k \in 1..Len(rs[r].methods) : rs[r].methods[k] = method /\ EntryOf(rs, r, k) \in F
    <2>5. r \in 1..Len(rs) /\ r \notin yielding /\ Matches(rs[r], method, url)
      BY DEF Finding
    <2>6. Matches(rs[r], method, url) <=>
             /\ \E k \in 1..Len(rs[r].methods) : rs[r].methods[k] = method
             /\ PatternFits(PatternOf(rs, r), Segments(url))
      BY <2>5, MatchesIs
    <2>1. PICK k \in 1..Len(rs[r].methods) : rs[r].methods[k] = method
      BY <2>5, <2>6
    <2>2. EntryOf(rs, r, k) \in E
      BY <2>5, AllOfIs
    <2>3. /\ WayFits(EntryOf(rs, r, k)[1], u)
          /\ EntryOf(rs, r, k)[2].id = r
          /\ EntryOf(rs, r, k)[1][1] = [name |-> method, high |-> FALSE]
      BY <2>5, <2>1, EntryFits
    <2>4. EntryOf(rs, r, k) \in F
      BY <2>5, <2>2, <2>3 DEF Under
    <2> QED
      BY <2>1, <2>4
  <1>4. CASE F = {}
    <2>1. found = {}
      BY <1>3, <1>4
    <2>2. Expected(rs, method, url, yielding) = NoRoute
      BY <2>1, ExpectedIs
    <2> QED
      BY <1>2, <1>4, <2>2 DEF Right
  <1>5. CASE F # {}
    <2>1. PICK e \in F : /\ \A o \in F : Better(e, o)
                         /\ answer = [id |-> e[2].id, params |-> RouteParameters(e[1], u)]
      BY <1>2, <1>5 DEF Right
    <2>2. e \in E /\ e[2].id \notin yielding /\ e[1][1] = [name |-> method, high |-> FALSE] /\ WayFits(e[1], u)
      BY DEF Under
    <2>3. PICK r \in 1..Len(rs) : \E j \in 1..Len(rs[r].methods) : e = EntryOf(rs, r, j)
      BY <2>2, AllOfIs
    <2>4. PICK j \in 1..Len(rs[r].methods) : e = EntryOf(rs, r, j)
      BY <2>3
    <2>5. /\ Matches(rs[r], rs[r].methods[j], url)
          /\ e[2].id = r
          /\ e[1][1] = [name |-> rs[r].methods[j], high |-> FALSE]
          /\ RouteParameters(e[1], u) = ParametersOf(PatternOf(rs, r), url)
      BY <2>2, <2>4, EntryFits
    <2>6. rs[r].methods[j] = method
      <3>1. [name |-> rs[r].methods[j], high |-> FALSE].name = [name |-> method, high |-> FALSE].name
        BY <2>2, <2>5
      <3> QED
        BY <3>1
    <2>7. r \in found
      BY <2>2, <2>5, <2>6 DEF Finding
    <2>8. ASSUME NEW o \in found, o # r
          PROVE  Preferred(rs, r, o)
      <3>1. PICK k \in 1..Len(rs[o].methods) : rs[o].methods[k] = method /\ EntryOf(rs, o, k) \in F
        BY <1>3
      <3>2. Better(EntryOf(rs, r, j), EntryOf(rs, o, k))
        BY <2>1, <2>4, <3>1
      <3>3. rs[r].methods[j] = rs[o].methods[k]
        BY <2>6, <3>1
      <3>4. o \in 1..Len(rs)
        BY DEF Finding
      <3> QED
        BY <2>8, <3>2, <3>3, <3>4, BetterPreferred
    <2>9. Expected(rs, method, url, yielding) = [id |-> r, params |-> ParametersOf(PatternOf(rs, r), url)]
      BY <2>7, <2>8, ExpectedIs
    <2> QED
      BY <2>1, <2>5, <2>9
  <1> QED
    BY <1>4, <1>5

(* What a program registers are routes.                                    *)
LEMMA RoutesAre == Candidates \subseteq Routes /\ Program \in Seq(Routes)
  <1>1. ASSUME NEW route \in Candidates \cup Range(Program)
        PROVE  route \in Routes
    <2>1. route \in RouteTypes
      BY RoutesAssumption DEF Range
    <2>2. route.pattern \in Seq(STRING \X Int)
      BY <2>1 DEF RouteTypes
    <2>3. \A i \in 1..Len(route.pattern) : route.pattern[i] \in Names
      BY <2>2 DEF Names, Range
    <2>4. route.pattern \in Seq(Names)
      BY <2>2, <2>3
    <2>5. route.priority \in 1..3
      BY <2>1 DEF RouteTypes, HIGH_PRIORITY, MEDIUM_PRIORITY, LOW_PRIORITY
    <2> QED
      BY <2>1, <2>4, <2>5 DEF RouteTypes, Routes
  <1>2. \A i \in 1..Len(Program) : Program[i] \in Range(Program)
    BY RoutesAssumption DEF Range
  <1>3. \A i \in 1..Len(Program) : Program[i] \in Routes
    BY <1>1, <1>2
  <1>4. Program \in Seq(Routes)
    BY <1>3, RoutesAssumption
  <1> QED
    BY <1>1, <1>4

RoutesTyped == routes \in Seq(Routes)

(* The program registers routes and nothing else.                          *)
THEOREM RoutesTypedCorrect == Spec => []RoutesTyped
  <1>1. Init => RoutesTyped
    <2>1. <<>> \in Seq(Routes) /\ Program \in Seq(Routes)
      BY RoutesAre
    <2> QED
      BY <2>1 DEF Init, RoutesTyped
  <1>2. RoutesTyped /\ [Next]_vars => RoutesTyped'
    <2> SUFFICES ASSUME routes \in Seq(Routes), [Next]_vars
                 PROVE  routes' \in Seq(Routes)
      BY DEF RoutesTyped
    <2>1. ASSUME NEW route \in Candidates, Register(route)
          PROVE  routes' \in Seq(Routes)
      <3>1. route \in Routes
        BY RoutesAre
      <3> QED
        BY <2>1, <3>1 DEF Register
    <2>2. CASE Serve
      BY <2>2 DEF Serve
    <2>3. CASE Adopt
      BY <2>3 DEF Adopt
    <2>4. CASE Parse
      BY <2>4 DEF Parse
    <2>5. CASE UNCHANGED vars
      BY <2>5 DEF vars
    <2> QED
      BY <2>1, <2>2, <2>3, <2>4, <2>5 DEF Next
  <1> QED
    BY <1>1, <1>2, PTL DEF Spec

(* Whatever was registered before, a request goes to the handler of the    *)
(* most specific pattern that matches it, with the parameters of that      *)
(* pattern (HttpRouter::add and route), for every program, every URL and   *)
(* every MAX_URL_SEGMENTS.                                                 *)
THEOREM RoutedRightCorrect == Spec => []RoutedRight
  <1>1. RoutesTyped => RoutedRight
    <2> SUFFICES ASSUME routes \in Seq(Routes), EmptyFirst(routes),
                        NEW method \in {"get", "post"}, NEW url \in Urls, NEW key \in BOOLEAN
                 PROVE  LET yielding == {id \in DOMAIN routes : routes[id].does = "upgrade" /\ ~key}
                        IN  Route(TreeOf(routes), method, url, yielding) = Expected(routes, method, url, yielding)
      BY DEF RoutesTyped, RoutedRight
    <2>1. url \in Seq(STRING \X Int)
      BY RoutesAssumption
    <2>2. \A yielding : Route(TreeOf(routes), method, url, yielding) = Expected(routes, method, url, yielding)
      BY <2>1, RouteRight
    <2> QED
      BY <2>2
  <1> QED
    BY <1>1, RoutesTypedCorrect, PTL

-----------------------------------------------------------------------------
(* The composition.                                                        *)

(* Whatever the App routes, a connection behaves as an HTTP connection     *)
(* does, and once it is adopted as a websocket's parser does.              *)
THEOREM Composes == Spec => HttpSpec /\ FrameSpec
  <1>1. Init => HttpInit /\ FrameInit
    BY DEF Init
  <1>2. [Next]_vars => [HttpStep]_httpVars
    BY DEF Next, vars, Register, Serve, Adopt, Parse
  <1>3. [Next]_vars => [(\E fs \in FrameStreams : StartFrames(fs)) \/ FrameStep]_frameVars
    BY DEF Next, vars, Register, Serve, Adopt, Parse
  <1> QED
    BY <1>1, <1>2, <1>3, PTL DEF Spec, HttpSpec, FrameSpec

(* So it keeps what is proved of the two: every byte of a body reaches its *)
(* handler once and in order, every request is answered or aborted, never  *)
(* with a mixture of answers, an idle connection has a timeout, and what   *)
(* is kept of a chunk stays bounded; the handlers of a websocket are told  *)
(* what the peer's frames mean, from a state that fits into its words.     *)
THEOREM InboundCorrect ==
    Spec => [](/\ BodiesWhole /\ AnsweredOrAborted /\ AnswersWhole
               /\ IdleHasTimeout /\ FallbackBounded
               /\ StateFits /\ Understood)
  BY Composes, HttpBodiesWhole, HttpAnsweredOrAborted, HttpAnswersWhole,
     HttpIdleHasTimeout, HttpFallbackBounded, StateFitsCorrect, UnderstoodCorrect, PTL

=============================================================================
