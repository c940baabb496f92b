--------------------------- MODULE BalancerProofs ---------------------------
(***************************************************************************)
(* Proofs about weighted round-robin, for any upstreams, weights and width *)
(* of the counter.                                                         *)
(***************************************************************************)
EXTENDS RoundRobin, FiniteSetTheorems, FunctionTheorems, SequenceTheorems, TLAPS

(* Among sets of upstreams there is one from which nothing can be removed   *)
(* without leaving them.  This takes the place of induction below.          *)
LEMMA SmallestSet ==
  ASSUME NEW B, B \subseteq SUBSET Upstreams, B # {}
  PROVE  \E S \in B : \A x \in S : S \ {x} \notin B
<1> DEFINE R == StrictSubsetOrdering(Upstreams)
<1>1. IsWellFoundedOn(R, FiniteSubsetsOf(Upstreams))
  BY FS_StrictSubsetOrderingWellFounded, Zenon
<1>2. FiniteSubsetsOf(Upstreams) = SUBSET Upstreams
  BY UpstreamsAssumption, FS_FiniteSubsetsOfFinite
<1>3. PICK S \in B : \A T \in B : ~(<<T, S>> \in R)
  <2> HIDE DEF R
  <2> QED BY <1>1, <1>2, WFMin, Zenon
<1>4. ASSUME NEW x \in S, S \ {x} \in B PROVE FALSE
  <2>1. <<S \ {x}, S>> \in R
    BY <1>3, <1>4 DEF StrictSubsetOrdering
  <2> QED BY <1>3, <1>4, <2>1
<1> QED BY <1>4

(* A nonempty set of upstreams has a last one in configuration order. *)
LEMMA LastExists ==
  ASSUME NEW S \in SUBSET Upstreams, S # {}
  PROVE  Max(S) \in S /\ \A v \in S : v <= Max(S)
<1> DEFINE HasLast(T) == \E x \in T : \A y \in T : x >= y
           B == {T \in SUBSET Upstreams : T # {} /\ ~HasLast(T)}
<1>1. B = {}
  <2> SUFFICES ASSUME B # {} PROVE FALSE
    OBVIOUS
  <2>1. PICK T \in B : \A x \in T : T \ {x} \notin B
    <3>1. B \subseteq SUBSET Upstreams
      OBVIOUS
    <3> HIDE DEF B
    <3> QED BY <3>1, SmallestSet
  <2>2. PICK x \in T : TRUE
    OBVIOUS
  <2>3. T \subseteq Nat
    BY UpstreamsAssumption
  <2>4. CASE T \ {x} = {}
    BY <2>3, <2>4
  <2>5. CASE T \ {x} # {}
    <3>1. PICK y \in T \ {x} : \A z \in T \ {x} : y >= z
      BY <2>1, <2>5
    <3>2. CASE x >= y
      <4>1. \A z \in T : x >= z
        BY <2>3, <3>1, <3>2
      <4> QED BY <4>1
    <3>3. CASE ~(x >= y)
      <4>1. \A z \in T : y >= z
        BY <2>3, <3>1, <3>3
      <4> QED BY <4>1
    <3> QED BY <3>2, <3>3
  <2> QED BY <2>4, <2>5
<1>2. HasLast(S)
  BY <1>1
<1>3. Max(S) \in S /\ \A y \in S : Max(S) >= y
  BY <1>2, Zenon DEF Max
<1> QED BY <1>3, UpstreamsAssumption

-----------------------------------------------------------------------------
(* One step of the recursion in VirtualList. *)
Pushed(f, S) == IF S = {} THEN <<>> ELSE f[S \ {Max(S)}] \o Copies(Max(S))

(* The recursion in VirtualList has a solution. *)
LEMMA VirtualListDefined ==
  /\ DOMAIN VirtualList = SUBSET Upstreams
  /\ \A S \in SUBSET Upstreams : VirtualList[S] = Pushed(VirtualList, S)
<1> DEFINE Solves(f, T) == f = [S \in SUBSET T |-> Pushed(f, S)]
           B == {T \in SUBSET Upstreams : ~\E f : Solves(f, T)}
<1>1. B = {}
  <2> SUFFICES ASSUME B # {} PROVE FALSE
    OBVIOUS
  <2>1. PICK T \in B : \A x \in T : T \ {x} \notin B
    <3>1. B \subseteq SUBSET Upstreams
      OBVIOUS
    <3> HIDE DEF B
    <3> QED BY <3>1, SmallestSet
  <2>2. T # {}
    <3>1. Solves([S \in SUBSET {} |-> <<>>], {})
      BY DEF Pushed
    <3> QED BY <3>1
  <2> DEFINE x == Max(T)
  <2>3. x \in T /\ \A v \in T : v <= x
    BY <2>2, LastExists
  <2> HIDE DEF x
  <2>4. PICK f : Solves(f, T \ {x})
    BY <2>1, <2>3
  <2>5. \A S \in SUBSET (T \ {x}) : f[S] = Pushed(f, S)
    BY <2>4, Zenon
  <2> DEFINE g == [S \in SUBSET T |->
                     IF x \in S THEN f[S \ {x}] \o Copies(x) ELSE f[S]]
  <2>6. ASSUME NEW S \in SUBSET T PROVE g[S] = Pushed(g, S)
    <3>1. CASE x \in S
      <4>1. Max(S) = x
        <5>1. Max(S) \in S /\ \A v \in S : v <= Max(S)
          BY <3>1, LastExists
        <5>2. x \in Nat /\ Max(S) \in Nat /\ Max(S) <= x /\ x <= Max(S)
          BY <2>3, <3>1, <5>1, UpstreamsAssumption
        <5> HIDE DEF g
        <5> QED BY <5>2
      <4>2. S \ {x} \in SUBSET T /\ x \notin S \ {x}
        OBVIOUS
      <4>3. g[S] = f[S \ {x}] \o Copies(x) /\ g[S \ {x}] = f[S \ {x}]
        BY <3>1, <4>2
      <4> HIDE DEF g
      <4> QED BY <3>1, <4>1, <4>3 DEF Pushed
    <3>2. CASE x \notin S
      <4>1. S \in SUBSET (T \ {x}) /\ S \ {Max(S)} \in SUBSET T /\ x \notin S \ {Max(S)}
        BY <3>2
      <4>2. g[S] = f[S] /\ g[S \ {Max(S)}] = f[S \ {Max(S)}]
        BY <3>2, <4>1
      <4> HIDE DEF g
      <4> QED BY <2>5, <4>1, <4>2 DEF Pushed
    <3> QED BY <3>1, <3>2
  <2>7. Solves(g, T)
    BY <2>6
  <2> QED BY <2>1, <2>7
<1>2. PICK l : Solves(l, Upstreams)
  BY <1>1
<1>3. Solves(VirtualList, Upstreams)
  <2>1. VirtualList = CHOOSE f : Solves(f, Upstreams)
    BY DEF VirtualList, Pushed
  <2> QED BY <1>2, <2>1, Zenon
<1> QED BY <1>3, Zenon

-----------------------------------------------------------------------------
(* The upstreams that come before u. *)
Before(S, u) == {v \in S : v < u}

LEMMA ShareType == \A u \in Upstreams : Share(u) \in Nat \ {0}
BY WeightAssumption DEF Share

LEMMA CopiesType ==
  ASSUME NEW u \in Upstreams
  PROVE  /\ Copies(u) \in Seq(Upstreams) /\ Len(Copies(u)) = Share(u)
         /\ \A k \in 1..Share(u) : Copies(u)[k] = u
BY ShareType DEF Copies

(* The list is a sequence of upstreams. *)
LEMMA VirtualListType ==
  \A S \in SUBSET Upstreams : VirtualList[S] \in Seq(Upstreams) /\ Shares(S) \in Nat
<1> DEFINE B == {S \in SUBSET Upstreams : ~(VirtualList[S] \in Seq(Upstreams))}
<1>1. B = {}
  <2> SUFFICES ASSUME B # {} PROVE FALSE
    OBVIOUS
  <2>1. PICK S \in B : \A x \in S : S \ {x} \notin B
    <3>1. B \subseteq SUBSET Upstreams
      OBVIOUS
    <3> HIDE DEF B
    <3> QED BY <3>1, SmallestSet
  <2>2. S \in SUBSET Upstreams /\ ~(VirtualList[S] \in Seq(Upstreams))
    OBVIOUS
  <2>3. VirtualList[S] = Pushed(VirtualList, S)
    BY <2>2, VirtualListDefined
  <2>4. CASE S = {}
    BY <2>2, <2>3, <2>4 DEF Pushed
  <2>5. CASE S # {}
    <3>1. Max(S) \in S
      BY <2>2, <2>5, LastExists
    <3>2. VirtualList[S \ {Max(S)}] \in Seq(Upstreams)
      BY <2>1, <2>2, <3>1
    <3>3. Copies(Max(S)) \in Seq(Upstreams)
      BY <2>2, <3>1, CopiesType
    <3> QED BY <2>2, <2>3, <2>5, <3>2, <3>3 DEF Pushed
  <2> QED BY <2>4, <2>5
<1>2. \A S \in SUBSET Upstreams : VirtualList[S] \in Seq(Upstreams)
  BY <1>1
<1> QED BY <1>2 DEF Shares

(* The last upstream of S adds its copies to the end of the list. *)
LEMMA LastPushed ==
  ASSUME NEW S \in SUBSET Upstreams, S # {}
  PROVE  LET x == Max(S) IN
         /\ x \in S /\ Before(S, x) = S \ {x}
         /\ Shares(S) = Shares(S \ {x}) + Share(x)
         /\ \A p \in 1..Shares(S \ {x}) : VirtualList[S][p] = VirtualList[S \ {x}][p]
         /\ \A k \in 1..Share(x) : VirtualList[S][Shares(S \ {x}) + k] = x
<1> DEFINE x == Max(S)
           s == VirtualList[S \ {x}]
           t == Copies(x)
<1>1. x \in S /\ x \in Upstreams /\ \A v \in S : v <= x
  BY LastExists
<1>2. VirtualList[S] = s \o t
  BY VirtualListDefined DEF Pushed
<1>3. s \in Seq(Upstreams) /\ Shares(S \ {x}) = Len(s) /\ Shares(S \ {x}) \in Nat
  BY VirtualListType DEF Shares
<1>4. /\ t \in Seq(Upstreams) /\ Len(t) = Share(x) /\ Share(x) \in Nat
      /\ \A k \in 1..Share(x) : t[k] = x
  BY <1>1, CopiesType, ShareType
<1> HIDE DEF x, s, t
<1>5. Before(S, x) = S \ {x}
  <2>1. \A v \in S : v \in Nat
    BY UpstreamsAssumption
  <2>2. \A v \in S : v < x <=> v # x
    BY <1>1, <2>1
  <2> QED BY <2>2 DEF Before
<1>6. /\ Len(s \o t) = Len(s) + Len(t)
      /\ \A i \in 1..(Len(s) + Len(t)) :
           (s \o t)[i] = IF i <= Len(s) THEN s[i] ELSE t[i - Len(s)]
  BY <1>3, <1>4, ConcatProperties
<1>7. Shares(S) = Shares(S \ {x}) + Share(x)
  BY <1>2, <1>3, <1>4, <1>6 DEF Shares
<1>8. \A p \in 1..Shares(S \ {x}) : VirtualList[S][p] = s[p]
  BY <1>2, <1>3, <1>4, <1>6
<1>9. ASSUME NEW k \in 1..Share(x) PROVE VirtualList[S][Shares(S \ {x}) + k] = x
  <2>1. Len(s) + k \in 1..(Len(s) + Len(t)) /\ ~(Len(s) + k <= Len(s))
        /\ (Len(s) + k) - Len(s) = k
    BY <1>3, <1>4
  <2>2. (s \o t)[Len(s) + k] = t[k]
    BY <1>6, <2>1
  <2> QED BY <1>2, <1>3, <1>4, <2>2
<1> QED BY <1>1, <1>5, <1>7, <1>8, <1>9 DEF x, s

(* Removing the last upstream changes nobody else's place. *)
LEMMA BeforeKept ==
  ASSUME NEW S \in SUBSET Upstreams, NEW u \in S, u # Max(S)
  PROVE  u \in S \ {Max(S)} /\ Before(S \ {Max(S)}, u) = Before(S, u)
<1>1. Max(S) \in S /\ \A v \in S : v <= Max(S)
  BY LastExists
<1>2. \A v \in S : v \in Nat
  BY UpstreamsAssumption
<1>3. ~(Max(S) < u)
  BY <1>1, <1>2
<1> QED BY <1>3 DEF Before

(* The copies of u occupy the places after those of the upstreams before u. *)
LEMMA Placed ==
  ASSUME NEW S \in SUBSET Upstreams, NEW u \in S
  PROVE  /\ Shares(Before(S, u)) + Share(u) <= Shares(S)
         /\ \A k \in 1..Share(u) : VirtualList[S][Shares(Before(S, u)) + k] = u
<1> DEFINE Good(T, w) ==
             /\ Shares(Before(T, w)) + Share(w) <= Shares(T)
             /\ \A k \in 1..Share(w) : VirtualList[T][Shares(Before(T, w)) + k] = w
           B == {T \in SUBSET Upstreams : ~\A w \in T : Good(T, w)}
<1>1. B = {}
  <2> SUFFICES ASSUME B # {} PROVE FALSE
    OBVIOUS
  <2>1. PICK T \in B : \A x \in T : T \ {x} \notin B
    <3>1. B \subseteq SUBSET Upstreams
      OBVIOUS
    <3> HIDE DEF B
    <3> QED BY <3>1, SmallestSet
  <2>2. T \in SUBSET Upstreams
    OBVIOUS
  <2>3. PICK w \in T : ~Good(T, w)
    OBVIOUS
  <2> DEFINE x == Max(T)
             T0 == T \ {x}
  <2>4. /\ x \in T /\ Before(T, x) = T0
        /\ Shares(T) = Shares(T0) + Share(x)
        /\ \A p \in 1..Shares(T0) : VirtualList[T][p] = VirtualList[T0][p]
        /\ \A k \in 1..Share(x) : VirtualList[T][Shares(T0) + k] = x
    BY <2>2, LastPushed
  <2>5. /\ Shares(T0) \in Nat /\ Share(x) \in Nat /\ Shares(T) \in Nat
        /\ Share(w) \in Nat /\ Shares(Before(T, w)) \in Nat
    BY <2>2, <2>4, ShareType, VirtualListType DEF Before
  <2>6. CASE w = x
    BY <2>3, <2>4, <2>5, <2>6
  <2>7. CASE w # x
    <3>1. w \in T0 /\ Before(T0, w) = Before(T, w)
      BY <2>2, <2>7, BeforeKept
    <3>2. Good(T0, w)
      BY <2>1, <2>2, <2>4, <3>1
    <3>3. Shares(Before(T, w)) + Share(w) <= Shares(T0)
      BY <3>1, <3>2
    <3> HIDE DEF x, T0
    <3>4. \A k \in 1..Share(w) : Shares(Before(T, w)) + k \in 1..Shares(T0)
      BY <2>5, <3>3
    <3>5. \A k \in 1..Share(w) : VirtualList[T][Shares(Before(T, w)) + k] = w
      BY <2>4, <3>1, <3>2, <3>4
    <3>6. Shares(Before(T, w)) + Share(w) <= Shares(T)
      BY <2>4, <2>5, <3>3
    <3> QED BY <2>3, <3>5, <3>6
  <2> QED BY <2>6, <2>7
<1> QED BY <1>1

(* Every place of the list is a copy's. *)
LEMMA Covered ==
  ASSUME NEW S \in SUBSET Upstreams, NEW p \in 0..(Shares(S) - 1)
  PROVE  \E u \in S : /\ Shares(Before(S, u)) <= p
                      /\ p < Shares(Before(S, u)) + Share(u)
<1> DEFINE Covers(T, w, q) == /\ Shares(Before(T, w)) <= q
                              /\ q < Shares(Before(T, w)) + Share(w)
           Good(T) == \A q \in 0..(Shares(T) - 1) : \E w \in T : Covers(T, w, q)
           B == {T \in SUBSET Upstreams : ~Good(T)}
<1>1. B = {}
  <2> SUFFICES ASSUME B # {} PROVE FALSE
    OBVIOUS
  <2>1. PICK T \in B : \A x \in T : T \ {x} \notin B
    <3>1. B \subseteq SUBSET Upstreams
      OBVIOUS
    <3> HIDE DEF B
    <3> QED BY <3>1, SmallestSet
  <2>2. T \in SUBSET Upstreams /\ Shares(T) \in Nat
    BY VirtualListType
  <2>3. PICK q \in 0..(Shares(T) - 1) : ~\E w \in T : Covers(T, w, q)
    OBVIOUS
  <2>4. T # {}
    <3>1. VirtualList[{}] = Pushed(VirtualList, {})
      BY VirtualListDefined
    <3>2. Shares({}) = 0
      BY <3>1 DEF Shares, Pushed
    <3> QED BY <2>3, <3>2
  <2> DEFINE x == Max(T)
             T0 == T \ {x}
  <2>5. x \in T /\ Before(T, x) = T0 /\ Shares(T) = Shares(T0) + Share(x)
    BY <2>2, <2>4, LastPushed
  <2>6. Shares(T0) \in Nat /\ Share(x) \in Nat
    BY <2>2, <2>5, ShareType, VirtualListType
  <2>7. CASE q < Shares(T0)
    <3>1. Good(T0)
      BY <2>1, <2>2, <2>5
    <3>2. q \in 0..(Shares(T0) - 1)
      BY <2>2, <2>3, <2>6, <2>7
    <3>3. PICK w \in T0 : Covers(T0, w, q)
      BY <3>1, <3>2
    <3>4. Before(T0, w) = Before(T, w)
      BY <2>2, BeforeKept
    <3> QED BY <2>3, <3>3, <3>4
  <2>8. CASE ~(q < Shares(T0))
    <3>1. Covers(T, x, q)
      BY <2>2, <2>3, <2>5, <2>6, <2>8
    <3> QED BY <2>3, <2>5, <3>1
  <2> QED BY <2>7, <2>8
<1> QED BY <1>1

-----------------------------------------------------------------------------
(* What a counter value picks is what the list holds in its slot, whoever   *)
(* draws it: somebody, and nobody else.                                     *)
LEMMA OnePick ==
  ASSUME NEW S \in NonEmpty, NEW c \in Nat
  PROVE  /\ Shares(S) \in Nat \ {0}
         /\ VirtualList[S][(c % Shares(S)) + 1] \in S
         /\ \A u \in Upstreams :
              WrrPicks(u, S, c) <=> u = VirtualList[S][(c % Shares(S)) + 1]
<1> DEFINE L == Shares(S)
           slot == c % L
<1>1. S \in SUBSET Upstreams /\ S # {}
  BY DEF NonEmpty
<1>2. L \in Nat \ {0}
  <2>1. PICK u \in S : TRUE
    BY <1>1
  <2>2. Shares(Before(S, u)) + Share(u) <= L
    BY <1>1, Placed
  <2>3. Shares(Before(S, u)) \in Nat /\ Share(u) \in Nat \ {0} /\ L \in Nat
    BY <1>1, ShareType, VirtualListType DEF Before
  <2> HIDE DEF L
  <2> QED BY <2>2, <2>3
<1>3. slot \in 0..(L - 1)
  <2> HIDE DEF L
  <2> QED BY <1>2
<1> HIDE DEF slot
<1>4. PICK w \in S : Shares(Before(S, w)) <= slot /\ slot < Shares(Before(S, w)) + Share(w)
  BY <1>1, <1>3, Covered
<1>5. ASSUME NEW u \in S, Shares(Before(S, u)) <= slot,
             slot < Shares(Before(S, u)) + Share(u)
      PROVE  VirtualList[S][slot + 1] = u
  <2> DEFINE a == Shares(Before(S, u))
  <2>1. a \in Nat /\ Share(u) \in Nat
    BY <1>1, ShareType, VirtualListType DEF Before
  <2>2. \A k \in 1..Share(u) : VirtualList[S][a + k] = u
    BY <1>1, Placed
  <2>3. a <= slot /\ slot < a + Share(u)
    BY <1>5
  <2> HIDE DEF a, L
  <2>4. slot - a + 1 \in 1..Share(u) /\ a + (slot - a + 1) = slot + 1
    BY <1>2, <1>3, <2>1, <2>3
  <2> QED BY <2>2, <2>4
<1>6. ASSUME NEW u \in Upstreams
      PROVE  WrrPicks(u, S, c) <=> u = VirtualList[S][slot + 1]
  <2>1. WrrPicks(u, S, c) <=> /\ u \in S /\ Shares(Before(S, u)) <= slot
                              /\ slot < Shares(Before(S, u)) + Share(u)
    BY DEF WrrPicks, Before, slot
  <2> QED BY <1>4, <1>5, <2>1
<1> QED BY <1>2, <1>4, <1>5, <1>6 DEF slot

-----------------------------------------------------------------------------
(* Division with remainder has one result. *)
LEMMA RemainderUnique ==
  ASSUME NEW L \in Nat \ {0}, NEW q \in Int, NEW r \in 0..(L - 1)
  PROVE  (L * q + r) % L = r
OBVIOUS

LEMMA Remainder ==
  ASSUME NEW L \in Nat \ {0}, NEW c \in Int
  PROVE  c % L \in 0..(L - 1) /\ c \div L \in Int /\ c = L * (c \div L) + (c % L)
OBVIOUS

(* In any L consecutive counter values every slot comes once... *)
LEMMA EverySlotComes ==
  ASSUME NEW L \in Nat \ {0}, NEW x \in Nat, NEW r \in 0..(L - 1)
  PROVE  \E c \in x..(x + L - 1) : c % L = r
<1> DEFINE q == x \div L
           m == x % L
<1>1. q \in Int /\ x = L * q + m
  BY Remainder
<1>2. m \in 0..(L - 1)
  BY Remainder
<1> HIDE DEF q, m
<1>3. CASE m <= r
  <2>1. L * q + r \in x..(x + L - 1)
    BY <1>1, <1>2, <1>3
  <2>2. (L * q + r) % L = r
    BY <1>1, RemainderUnique
  <2> QED BY <2>1, <2>2
<1>4. CASE ~(m <= r)
  <2>1. L * (q + 1) = L * q + L
    BY <1>1
  <2>2. L * (q + 1) + r \in x..(x + L - 1)
    BY <1>1, <1>2, <1>4, <2>1
  <2>3. (L * (q + 1) + r) % L = r
    <3>1. q + 1 \in Int
      BY <1>1
    <3> QED BY <3>1, RemainderUnique
  <2> QED BY <2>2, <2>3
<1> QED BY <1>3, <1>4

(* ...and not again. *)
LEMMA NoSlotTwice ==
  ASSUME NEW L \in Nat \ {0}, NEW x \in Nat,
         NEW c \in x..(x + L - 1), NEW d \in x..(x + L - 1), c % L = d % L
  PROVE  c = d
<1> DEFINE p == c \div L
           q == d \div L
           r == c % L
<1>1. p \in Int /\ c = L * p + r
  BY Remainder
<1>2. q \in Int /\ d = L * q + r
  BY Remainder
<1>3. r \in Int
  BY Remainder
<1> HIDE DEF p, q, r
<1>4. c - d = L * (p - q) /\ c - d < L /\ d - c < L
  BY <1>1, <1>2, <1>3
<1>5. \A k \in Int : (k >= 1 => L * k >= L) /\ (k <= -1 => L * k <= -L)
  OBVIOUS
<1>6. p - q = 0
  <2> DEFINE k == p - q
  <2>1. k \in Int /\ L * k < L /\ L * k > -L
    BY <1>1, <1>2, <1>4
  <2> HIDE DEF k
  <2>2. k = 0
    BY <1>5, <2>1
  <2> QED BY <2>2 DEF k
<1> QED BY <1>4, <1>6

(* A full turn picks each upstream once for each of its copies. *)
LEMMA FullTurn ==
  ASSUME NEW S \in NonEmpty, NEW x \in Nat, NEW u \in S
  PROVE  Cardinality({c \in x..(x + Shares(S) - 1) : WrrPicks(u, S, c)}) = Share(u)
<1> DEFINE L == Shares(S)
           a == Shares(Before(S, u))
           C == {c \in x..(x + L - 1) : WrrPicks(u, S, c)}
           P == a..(a + Share(u) - 1)
           f == [c \in C |-> c % L]
<1>1. S \in SUBSET Upstreams /\ L \in Nat \ {0}
  BY OnePick DEF NonEmpty
<1>2. a \in Nat /\ Share(u) \in Nat \ {0} /\ a + Share(u) <= L
  BY <1>1, ShareType, VirtualListType, Placed DEF Before
<1>3. \A c \in x..(x + L - 1) : c \in C <=> a <= c % L /\ c % L < a + Share(u)
  BY DEF WrrPicks, Before
<1> HIDE DEF L, a
<1>4. \A c \in x..(x + L - 1) : c \in Nat /\ c % L \in 0..(L - 1)
  BY <1>1
<1>5. f \in [C -> P]
  <2>1. \A c \in C : c % L \in P
    BY <1>1, <1>2, <1>3, <1>4
  <2> QED BY <2>1
<1>6. \A c, d \in C : f[c] = f[d] => c = d
  BY <1>1, NoSlotTwice
<1>7. ASSUME NEW r \in P PROVE \E c \in C : f[c] = r
  <2>1. r \in 0..(L - 1)
    BY <1>1, <1>2
  <2>2. PICK c \in x..(x + L - 1) : c % L = r
    BY <1>1, <2>1, EverySlotComes
  <2>3. c \in C
    BY <1>2, <1>3, <2>2
  <2> QED BY <2>2, <2>3
<1> HIDE DEF C, f
<1>8. f \in Bijection(C, P)
  BY <1>5, <1>6, <1>7, Fun_IsBij, Zenon
<1>9. IsFiniteSet(C)
  <2>1. IsFiniteSet(x..(x + L - 1))
    BY <1>1, FS_Interval
  <2> QED BY <2>1, FS_Subset DEF C
<1>10. Cardinality(P) = Cardinality(C)
  BY <1>8, <1>9, FS_Bijection DEF ExistsBijection
<1>11. Cardinality(P) = Share(u)
  BY <1>2, FS_Interval
<1> QED BY <1>10, <1>11 DEF C, L

-----------------------------------------------------------------------------
(***************************************************************************)
(* The inductive invariant: unless the counter has wrapped in this turn,   *)
(* each upstream has been served by exactly those of the latest counter    *)
(* values that pick it.                                                    *)
(***************************************************************************)
Drawn(u) == {c \in (counter - picks)..(counter - 1) : WrrPicks(u, healthy, c)}

TurnOK == picks <= counter => \A u \in Upstreams : served[u] = Cardinality(Drawn(u))

RInv == TypeOK /\ TurnOK

(* With no pick in the turn, nobody has been served. *)
LEMMA NothingDrawn ==
  ASSUME counter \in Nat, picks = 0, NEW u
  PROVE  Cardinality(Drawn(u)) = 0
<1>1. (counter - picks)..(counter - 1) = {}
  OBVIOUS
<1>2. Drawn(u) = {}
  BY <1>1 DEF Drawn
<1> QED BY <1>2, FS_EmptySet

LEMMA InitRInv == Init => RInv
<1> SUFFICES ASSUME Init PROVE RInv
  OBVIOUS
<1>1. Shares(healthy) \in Nat
  BY VirtualListType DEF Init, NonEmpty
<1>2. TypeOK
  BY <1>1, ModulusAssumption DEF Init, TypeOK
<1>3. TurnOK
  BY NothingDrawn DEF Init, TurnOK
<1> QED BY <1>2, <1>3 DEF RInv

(* The available upstreams change: the history starts again. *)
LEMMA ChangeStep == RInv /\ ChangeHealthy => RInv'
<1> SUFFICES ASSUME RInv, ChangeHealthy PROVE RInv'
  OBVIOUS
<1>1. healthy' \in NonEmpty /\ Shares(healthy') \in Nat
  BY VirtualListType DEF ChangeHealthy, NonEmpty
<1>2. TypeOK'
  BY <1>1 DEF RInv, TypeOK, ChangeHealthy, Shares
<1>3. counter' \in Nat /\ picks' = 0 /\ served' = [u \in Upstreams |-> 0]
  BY ModulusAssumption DEF RInv, TypeOK, ChangeHealthy
<1>4. \A u \in Upstreams : Cardinality(Drawn(u)') = 0
  <2> SUFFICES ASSUME NEW u \in Upstreams PROVE Cardinality(Drawn(u)') = 0
    OBVIOUS
  <2>1. (counter' - picks')..(counter' - 1) = {}
    <3>1. \A n \in Nat, k \in {0} : (n - k)..(n - 1) = {}
      OBVIOUS
    <3>2. picks' \in {0}
      BY <1>3
    <3> QED BY <1>3, <3>1, <3>2, Zenon
  <2>2. Drawn(u)' = {}
    BY <2>1 DEF Drawn
  <2> QED BY <2>2, FS_EmptySet
<1>5. TurnOK'
  BY <1>3, <1>4 DEF TurnOK
<1> QED BY <1>2, <1>5 DEF RInv

(* A selection: the counter value joins those drawn in this turn. *)
LEMMA SelectStep ==
  ASSUME RInv, NEW u \in Upstreams, Select(u)
  PROVE  RInv'
<1>1. /\ healthy \in NonEmpty /\ counter \in Nat /\ counter < CounterModulus
      /\ CounterModulus \in Nat \ {0} /\ picks \in 0..Shares(healthy)
      /\ Shares(healthy) \in Nat \ {0} /\ served \in [Upstreams -> Nat]
  BY ModulusAssumption, OnePick DEF RInv, TypeOK
<1>2. TypeOK'
  <2>1. counter' \in 0..(CounterModulus - 1)
    BY <1>1 DEF Select, Bump
  <2>2. served' \in [Upstreams -> Nat]
    BY <1>1 DEF Select
  <2>3. picks' \in 0..Shares(healthy)
    BY <1>1 DEF Select, TurnIsOver
  <2>4. healthy' = healthy
    BY DEF Select
  <2> QED BY <1>1, <2>1, <2>2, <2>3, <2>4 DEF TypeOK, Shares
<1>3. \A v \in Upstreams : WrrPicks(v, healthy, counter) <=> v = u
  BY <1>1, OnePick DEF Select
<1>4. TurnOK'
  <2> SUFFICES ASSUME picks' <= counter', NEW v \in Upstreams
               PROVE  served'[v] = Cardinality(Drawn(v)')
    BY DEF TurnOK
  <2>1. counter' = counter + 1
    <3>1. picks' >= 1
      BY <1>1 DEF Select
    <3>2. counter' = (counter + 1) % CounterModulus
      BY DEF Select, Bump
    <3>3. CASE counter + 1 = CounterModulus
      <4>1. counter' = 0
        BY <1>1, <3>2, <3>3
      <4>2. picks' \in Nat
        BY <1>1 DEF Select
      <4> QED BY <3>1, <4>1, <4>2
    <3>4. CASE counter + 1 < CounterModulus
      BY <1>1, <3>2, <3>4
    <3> QED BY <1>1, <3>3, <3>4
  <2>2. CASE TurnIsOver
    <3>1. picks' = 1 /\ served'[v] = IF v = u THEN 1 ELSE 0
      BY <2>2 DEF Select
    <3>2. (counter' - picks')..(counter' - 1) = {counter}
      BY <1>1, <2>1, <3>1
    <3>3. Drawn(v)' = IF v = u THEN {counter} ELSE {}
      <4>1. Drawn(v)' = {c \in {counter} : WrrPicks(v, healthy', c)}
        BY <3>2 DEF Drawn
      <4>2. healthy' = healthy
        BY DEF Select
      <4> QED BY <1>3, <4>1, <4>2
    <3> QED BY <3>1, <3>3, FS_EmptySet, FS_Singleton
  <2>3. CASE ~TurnIsOver
    <3>1. picks' = picks + 1 /\ served'[v] = IF v = u THEN served[v] + 1 ELSE served[v]
      BY <1>1, <2>3 DEF Select
    <3>2. picks <= counter /\ served[v] = Cardinality(Drawn(v))
      BY <1>1, <2>1, <3>1 DEF RInv, TurnOK
    <3>3. /\ (counter' - picks')..(counter' - 1) = ((counter - picks)..(counter - 1)) \cup {counter}
          /\ counter \notin (counter - picks)..(counter - 1)
      BY <1>1, <2>1, <3>1
    <3>4. /\ Drawn(v)' = IF v = u THEN Drawn(v) \cup {counter} ELSE Drawn(v)
          /\ counter \notin Drawn(v)
      <4>1. healthy' = healthy
        BY DEF Select
      <4>2. Drawn(v)' = {c \in ((counter - picks)..(counter - 1)) \cup {counter} :
                           WrrPicks(v, healthy, c)}
        BY <3>3, <4>1 DEF Drawn
      <4> QED BY <1>3, <3>3, <4>2 DEF Drawn
    <3>5. IsFiniteSet(Drawn(v))
      <4>1. IsFiniteSet((counter - picks)..(counter - 1))
        BY <1>1, FS_Interval
      <4>2. Drawn(v) \subseteq (counter - picks)..(counter - 1)
        BY DEF Drawn
      <4> QED BY <4>1, <4>2, FS_Subset
    <3>6. Cardinality(Drawn(v) \cup {counter}) = Cardinality(Drawn(v)) + 1
      BY <3>4, <3>5, FS_AddElement
    <3> QED BY <3>1, <3>2, <3>4, <3>6
  <2> QED BY <2>2, <2>3
<1> QED BY <1>2, <1>4 DEF RInv

LEMMA RInvHolds == Spec => []RInv
<1>1. RInv /\ UNCHANGED vars => RInv'
  BY DEF vars, RInv, TypeOK, TurnOK, Drawn, Shares
<1>2. RInv /\ [Next]_vars => RInv'
  BY <1>1, ChangeStep, SelectStep DEF Next
<1> QED BY InitRInv, <1>2, PTL DEF Spec

(***************************************************************************)
(* weighted_round_robin finds exactly one upstream, whatever the counter   *)
(* has reached and whichever upstreams are available: the ranges of the    *)
(* virtual list leave no gap and do not overlap.                           *)
(***************************************************************************)
THEOREM AlwaysOnePick == Spec => []PicksExactlyOne
<1>1. RInv => PicksExactlyOne
  <2> SUFFICES ASSUME RInv PROVE PicksExactlyOne
    OBVIOUS
  <2> DEFINE w == VirtualList[healthy][(counter % Shares(healthy)) + 1]
  <2>1. healthy \in NonEmpty /\ healthy \subseteq Upstreams /\ counter \in Nat
    BY ModulusAssumption DEF RInv, TypeOK, NonEmpty
  <2>2. w \in Upstreams /\ \A u \in Upstreams : WrrPicks(u, healthy, counter) <=> u = w
    BY <2>1, OnePick
  <2> HIDE DEF w
  <2>3. {u \in Upstreams : WrrPicks(u, healthy, counter)} = {w}
    BY <2>2
  <2> QED BY <2>3, FS_Singleton DEF PicksExactlyOne
<1> QED BY <1>1, RInvHolds, PTL

(***************************************************************************)
(* Service is proportional to weight in every full turn in which the       *)
(* counter does not wrap, from whatever value it started.                  *)
(***************************************************************************)
THEOREM ServiceIsProportional == Spec => []ProportionalService
<1>1. RInv => ProportionalService
  <2> SUFFICES ASSUME RInv, TurnIsOver, counter >= Shares(healthy), NEW u \in Upstreams
               PROVE  served[u] = IF u \in healthy THEN Share(u) ELSE 0
    BY DEF ProportionalService
  <2>1. /\ healthy \in NonEmpty /\ counter \in Nat /\ picks = Shares(healthy)
        /\ picks \in Nat /\ picks <= counter
    BY ModulusAssumption, OnePick DEF RInv, TypeOK, TurnIsOver
  <2>2. served[u] = Cardinality(Drawn(u))
    BY <2>1 DEF RInv, TurnOK
  <2>3. CASE u \in healthy
    <3> DEFINE x == counter - picks
    <3>1. x \in Nat /\ x + Shares(healthy) - 1 = counter - 1
      BY <2>1
    <3>2. Cardinality({c \in x..(x + Shares(healthy) - 1) : WrrPicks(u, healthy, c)})
            = Share(u)
      <4> HIDE DEF x
      <4> QED BY <2>1, <2>3, <3>1, FullTurn
    <3>3. Drawn(u) = {c \in x..(x + Shares(healthy) - 1) : WrrPicks(u, healthy, c)}
      BY <3>1 DEF Drawn
    <3> QED BY <2>2, <2>3, <3>2, <3>3
  <2>4. CASE u \notin healthy
    <3>1. Drawn(u) = {}
      BY <2>4 DEF Drawn, WrrPicks
    <3> QED BY <2>2, <2>4, <3>1, FS_EmptySet
  <2> QED BY <2>3, <2>4
<1> QED BY <1>1, RInvHolds, PTL

=============================================================================
