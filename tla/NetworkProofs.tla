---------------------------- MODULE NetworkProofs ---------------------------
(***************************************************************************)
(* Proofs about addresses and networks, for every address width, pool and  *)
(* set of nodes, peers, subnets, requests at once and failing calls.       *)
(*                                                                         *)
(* Addresses: a prefix is an interval of addresses (Containment is         *)
(* arithmetic on powers of two), so two networks overlap exactly when one  *)
(* holds the other's base; the scan for a free address is characterised by *)
(* where it first stops, which the least element of a set of naturals      *)
(* gives; and an entry of AllowedIPs lies within the tunnel network when   *)
(* its address does and its prefix is as long.                             *)
(*                                                                         *)
(* Nodes: unless two requests ran into each other or one broke off         *)
(* (`blurred'), the lone request knows which keys, owners and addresses    *)
(* are half done.  Subnets: what is not in doubt (`unsure') is the         *)
(* business of one request at most, which says how far its rule, its       *)
(* settings and its row have come.                                         *)
(***************************************************************************)
EXTENDS AddressCheck, Nodes, Subnets, FiniteSetTheorems, FunctionTheorems, WellFoundedInduction, TLAPS

-----------------------------------------------------------------------------
(* Numbers *)

\* A set of naturals that is not empty has a least element.  The prover has no
\* induction; this is what takes its place.
LEMMA LeastNat == ASSUME NEW S \in SUBSET Nat, S # {} PROVE \E m \in S : \A n \in S : m <= n
<1>1. IsWellFoundedOn(OpToRel(<, Nat), Nat)
  BY NatLessThanWellFounded, Zenon
<1>2. PICK m \in S : \A n \in S : ~(<<n, m>> \in OpToRel(<, Nat))
  BY <1>1, WFMin, Zenon
<1>3. \A n \in S : ~(n < m)
  BY <1>2 DEF OpToRel
<1> QED
  BY <1>3

\* A power of two is the number of subsets of a set of that size.
LEMMA PowerNat == ASSUME NEW n \in Nat PROVE 2^n \in Nat /\ 2^n > 0
<1>1. IsFiniteSet(1..n) /\ Cardinality(1..n) = n
  BY FS_Interval
<1>2. IsFiniteSet(SUBSET (1..n)) /\ Cardinality(SUBSET (1..n)) = 2^n
  BY <1>1, FS_SUBSET
<1>3. SUBSET (1..n) # {}
  OBVIOUS
<1> QED
  BY <1>2, <1>3, FS_EmptySet, FS_CardinalityType

\* Powers of two multiply: a subset of the union of two disjoint sets is a subset
\* of each.
LEMMA PowerSum == ASSUME NEW a \in Nat, NEW b \in Nat PROVE 2^(a + b) = 2^a * 2^b
<1> DEFINE A == 1..a
           B == (a + 1)..(a + b)
           f == [T \in SUBSET (A \cup B) |-> <<T \cap A, T \cap B>>]
<1>1. /\ IsFiniteSet(A) /\ Cardinality(A) = a /\ IsFiniteSet(B) /\ Cardinality(B) = b
      /\ A \cup B = 1..(a + b) /\ A \cap B = {}
  <2>1. a \in Int /\ b \in Int /\ a + 1 \in Int /\ a + b \in Int /\ 1 \in Int
    OBVIOUS
  <2>2. IsFiniteSet(A) /\ Cardinality(A) = IF 1 > a THEN 0 ELSE a - 1 + 1
    BY <2>1, FS_Interval
  <2>3. IsFiniteSet(B) /\ Cardinality(B) = IF a + 1 > a + b THEN 0 ELSE a + b - (a + 1) + 1
    BY <2>1, FS_Interval
  <2> QED
    BY <2>2, <2>3
<1>2. IsFiniteSet(1..(a + b)) /\ Cardinality(1..(a + b)) = a + b
  <2>1. a + b \in Int /\ 1 \in Int
    OBVIOUS
  <2>2. IsFiniteSet(1..(a + b)) /\ Cardinality(1..(a + b)) = IF 1 > a + b THEN 0 ELSE a + b - 1 + 1
    BY <2>1, FS_Interval
  <2> QED
    BY <2>2
<1> HIDE DEF A, B
<1>3. /\ IsFiniteSet(SUBSET (A \cup B)) /\ Cardinality(SUBSET (A \cup B)) = 2^(a + b)
      /\ IsFiniteSet(SUBSET A) /\ Cardinality(SUBSET A) = 2^a
      /\ IsFiniteSet(SUBSET B) /\ Cardinality(SUBSET B) = 2^b
  BY <1>1, <1>2, FS_SUBSET
<1>4. f \in Bijection(SUBSET (A \cup B), (SUBSET A) \X (SUBSET B))
  <2>1. f \in [SUBSET (A \cup B) -> (SUBSET A) \X (SUBSET B)]
    OBVIOUS
  <2>2. ASSUME NEW S \in SUBSET (A \cup B), NEW T \in SUBSET (A \cup B), f[S] = f[T] PROVE S = T
    <3>1. S \cap A = T \cap A /\ S \cap B = T \cap B
      BY <2>2
    <3> QED
      BY <3>1
  <2>3. ASSUME NEW t \in (SUBSET A) \X (SUBSET B) PROVE \E S \in SUBSET (A \cup B) : f[S] = t
    <3>1. PICK U \in SUBSET A, V \in SUBSET B : t = <<U, V>>
      OBVIOUS
    <3>2. (U \cup V) \cap A = U /\ (U \cup V) \cap B = V
      BY <1>1
    <3> QED
      BY <3>1, <3>2
  <2> QED
    BY <2>1, <2>2, <2>3, Fun_IsBij
<1>5. ExistsBijection(SUBSET (A \cup B), (SUBSET A) \X (SUBSET B))
  BY <1>4 DEF ExistsBijection
<1>6. Cardinality((SUBSET A) \X (SUBSET B)) = 2^a * 2^b
  BY <1>3, FS_Product
<1> QED
  BY <1>3, <1>5, <1>6, FS_Bijection

\* Division, as bounds.
LEMMA DivBounds ==
  ASSUME NEW a \in Nat, NEW m \in Nat, m > 0
  PROVE  /\ a \div m \in Nat /\ (a \div m) * m <= a /\ a < (a \div m + 1) * m
         /\ \A q \in Nat : q * m <= a /\ a < (q + 1) * m => a \div m = q
  OBVIOUS

-----------------------------------------------------------------------------
(* Networks *)

\* A network as net.ParseCIDR returns it.
Net == [ip : AddrSpace, len : 0..Width]
SizeOf(c) == 2^(Width - c.len)
Prefix(c) == c.ip \div SizeOf(c)

\* A network is the interval of SizeOf(c) addresses from its base on.
LEMMA NetInterval ==
  ASSUME NEW c \in Net
  PROVE  /\ SizeOf(c) \in Nat /\ SizeOf(c) > 0 /\ Prefix(c) \in Nat
         /\ NetworkAt(c) = Prefix(c) * SizeOf(c) /\ NetworkAt(c) \in Nat /\ NetworkAt(c) <= c.ip
         /\ \A a \in Nat : ContainsIP(c, a) <=> NetworkAt(c) <= a /\ a < NetworkAt(c) + SizeOf(c)
<1>1. Width - c.len \in Nat /\ c.ip \in Nat
  BY AddrAssumption, PowerNat DEF Net, AddrSpace
<1>2. SizeOf(c) \in Nat /\ SizeOf(c) > 0
  BY <1>1, PowerNat DEF SizeOf
<1> DEFINE m == SizeOf(c)
           q == Prefix(c)
<1>3. q \in Nat /\ q * m <= c.ip /\ NetworkAt(c) = q * m
  BY <1>1, <1>2, DivBounds DEF Prefix, NetworkAt, SizeOf
<1>4. ASSUME NEW a \in Nat PROVE ContainsIP(c, a) <=> (q * m <= a /\ a < q * m + m)
  <2>1. ContainsIP(c, a) <=> a \div m = q
    BY DEF ContainsIP, Prefix, SizeOf
  <2>2. (q + 1) * m = q * m + m
    BY <1>2, <1>3
  <2>3. /\ (a \div m) * m <= a /\ a < (a \div m + 1) * m
        /\ (q * m <= a /\ a < (q + 1) * m => a \div m = q)
    BY <1>2, <1>3, DivBounds
  <2> HIDE DEF m, q
  <2> QED
    BY <2>1, <2>2, <2>3
<1>5. q * m \in Nat
  BY <1>2, <1>3
<1> QED
  BY <1>2, <1>3, <1>4, <1>5

\* The base of a network is an address of it.
LEMMA BaseInside == ASSUME NEW c \in Net PROVE ContainsIP(c, NetworkAt(c)) /\ NetworkAt(c) \in AddrSpace
<1>1. NetworkAt(c) <= c.ip /\ NetworkAt(c) \in Nat
  BY NetInterval
<1>2. 2^Width \in Nat /\ c.ip \in AddrSpace
  BY AddrAssumption, PowerNat DEF Net
<1> QED
  BY <1>1, <1>2, NetInterval DEF AddrSpace

\* The larger of two networks that have an address in common contains the base of
\* the other one, and the whole of it.
LEMMA LargerContains ==
  ASSUME NEW c \in Net, NEW d \in Net, c.len <= d.len, NEW x \in Nat,
         ContainsIP(c, x), ContainsIP(d, x)
  PROVE  /\ ContainsIP(c, NetworkAt(d)) /\ NetworkAt(c) <= NetworkAt(d)
         /\ NetworkAt(d) + SizeOf(d) <= NetworkAt(c) + SizeOf(c)
<1> DEFINE m == SizeOf(c)
           n == SizeOf(d)
           q == Prefix(c)
           r == Prefix(d)
           e == 2^(d.len - c.len)
<1>1. /\ Width - d.len \in Nat /\ d.len - c.len \in Nat
      /\ Width - c.len = (d.len - c.len) + (Width - d.len)
  BY AddrAssumption DEF Net
<1>2. m = e * n /\ e \in Nat /\ e > 0
  BY <1>1, PowerSum, PowerNat DEF SizeOf
<1>3. /\ m \in Nat /\ n \in Nat /\ n > 0 /\ q \in Nat /\ r \in Nat
      /\ NetworkAt(c) = q * m /\ NetworkAt(d) = r * n
      /\ q * m <= x /\ x < q * m + m /\ r * n <= x /\ x < r * n + n
  BY NetInterval
<1> HIDE DEF m, n, q, r, e
\* r * n is the last multiple of n up to x, and q * m is one.
<1>4. q * m = (q * e) * n /\ q * e \in Nat
  BY <1>2, <1>3
<1>5. q * e <= r
  <2> DEFINE t == q * e
  <2>1. t \in Nat /\ t * n < (r + 1) * n
    BY <1>3, <1>4
  <2> HIDE DEF t
  <2>2. ~(t >= r + 1)
    BY <1>3, <2>1
  <2> QED
    BY <1>3, <2>1, <2>2 DEF t
<1>6. q * m <= r * n
  <2> DEFINE t == q * e
  <2>1. t \in Nat /\ t <= r
    BY <1>4, <1>5
  <2> HIDE DEF t
  <2>2. t * n <= r * n
    BY <1>3, <2>1
  <2> QED
    BY <1>4, <2>2 DEF t
<1>7. r * n \in Nat /\ r * n < q * m + m
  BY <1>3
\* (q + 1) * m is a multiple of n beyond x.
<1>8. r * n + n <= q * m + m
  <2> DEFINE t == q * e + e
  <2>1. t \in Nat /\ t * n = q * m + m
    BY <1>2, <1>3, <1>4
  <2> HIDE DEF t
  <2>2. r < t
    BY <1>3, <1>7, <2>1
  <2>3. (r + 1) * n <= t * n
    BY <1>3, <2>1, <2>2
  <2> QED
    BY <1>3, <2>1, <2>3
<1> QED
  BY <1>3, <1>6, <1>7, <1>8, NetInterval DEF m, n, q, r

\* CIDROverlap compares two base addresses; that is enough to find every address in
\* common.
LEMMA OverlapExact ==
  ASSUME NEW c \in Net, NEW d \in Net
  PROVE  CIDROverlap(c, d) <=> \E x \in AddrSpace : ContainsIP(c, x) /\ ContainsIP(d, x)
<1>1. ASSUME NEW x \in AddrSpace, ContainsIP(c, x), ContainsIP(d, x) PROVE CIDROverlap(c, d)
  <2>1. x \in Nat
    BY DEF AddrSpace
  <2>2. c.len <= d.len \/ d.len <= c.len
    BY DEF Net
  <2> QED
    BY <1>1, <2>1, <2>2, LargerContains DEF CIDROverlap
<1> QED
  BY <1>1, BaseInside DEF CIDROverlap

-----------------------------------------------------------------------------
(* The next free address *)

\* Where the scan stops when it begins at cur, and what it answers there.
Stops(c, last, used, cur) ==
  {s \in cur..2^Width : ScanEnds(c, last, s) \/ ~Taken(c, used, s)}
LeastOf(S) == CHOOSE m \in S : \A n \in S : m <= n
FirstStop(c, last, used, cur) == LeastOf(Stops(c, last, used, cur))
Found(c, last, s) == IF ScanEnds(c, last, s) THEN NoAddr ELSE s

\* The scan stops, and nothing it passed was free.
LEMMA FirstStopIs ==
  ASSUME NEW c, NEW last, NEW used, NEW cur \in 0..2^Width
  PROVE  LET s == FirstStop(c, last, used, cur)
         IN  s \in Stops(c, last, used, cur) /\ \A n \in Stops(c, last, used, cur) : s <= n
<1>1. 2^Width \in Nat
  BY AddrAssumption, PowerNat
<1>2. Stops(c, last, used, cur) \in SUBSET Nat /\ 2^Width \in Stops(c, last, used, cur)
  BY <1>1 DEF Stops, ScanEnds
<1>3. \E m \in Stops(c, last, used, cur) : \A n \in Stops(c, last, used, cur) : m <= n
  BY <1>2, LeastNat
<1> QED
  BY <1>3 DEF FirstStop, LeastOf

\* A step of the scan.
LEMMA FirstStopStep ==
  ASSUME NEW c, NEW last, NEW used, NEW cur \in 0..2^Width
  PROVE  /\ ScanEnds(c, last, cur) \/ ~Taken(c, used, cur) => FirstStop(c, last, used, cur) = cur
         /\ ~ScanEnds(c, last, cur) /\ Taken(c, used, cur) =>
              cur + 1 \in 0..2^Width /\ FirstStop(c, last, used, cur) = FirstStop(c, last, used, cur + 1)
<1>1. 2^Width \in Nat
  BY AddrAssumption, PowerNat
<1> DEFINE s == FirstStop(c, last, used, cur)
<1>2. s \in Stops(c, last, used, cur) /\ \A n \in Stops(c, last, used, cur) : s <= n
  BY FirstStopIs
<1>3. ASSUME ScanEnds(c, last, cur) \/ ~Taken(c, used, cur) PROVE s = cur
  <2>1. cur \in Stops(c, last, used, cur)
    BY <1>1, <1>3 DEF Stops
  <2>2. s \in Int /\ cur <= s
    BY <1>1, <1>2 DEF Stops
  <2> QED
    BY <1>2, <2>1, <2>2
<1>4. ASSUME ~ScanEnds(c, last, cur), Taken(c, used, cur)
      PROVE  cur + 1 \in 0..2^Width /\ s = FirstStop(c, last, used, cur + 1)
  <2>1. cur # 2^Width
    BY <1>4 DEF ScanEnds
  <2>2. cur + 1 \in 0..2^Width
    BY <1>1, <2>1
  <2>3. Stops(c, last, used, cur) = Stops(c, last, used, cur + 1)
    BY <1>1, <1>4, <2>2 DEF Stops
  <2> QED
    BY <2>2, <2>3 DEF FirstStop
<1> QED
  BY <1>3, <1>4

\* The recursion has a solution, so that the function it defines is one.
LEMMA ScanEquation ==
  ASSUME NEW c, NEW last, NEW used
  PROVE  FreeFrom(c, last, used) =
           [cur \in 0..2^Width |-> IF ScanEnds(c, last, cur) THEN NoAddr
                                   ELSE IF Taken(c, used, cur) THEN FreeFrom(c, last, used)[cur + 1]
                                   ELSE cur]
<1> DEFINE Fix(h) == h = [cur \in 0..2^Width |-> IF ScanEnds(c, last, cur) THEN NoAddr
                                   ELSE IF Taken(c, used, cur) THEN h[cur + 1] ELSE cur]
           g == [cur \in 0..2^Width |-> Found(c, last, FirstStop(c, last, used, cur))]
<1>1. FreeFrom(c, last, used) = CHOOSE h : Fix(h)
  BY DEF FreeFrom
<1>2. Fix(g)
  <2>1. ASSUME NEW cur \in 0..2^Width
        PROVE  g[cur] = IF ScanEnds(c, last, cur) THEN NoAddr
                        ELSE IF Taken(c, used, cur) THEN g[cur + 1] ELSE cur
    BY FirstStopStep DEF Found
  <2> HIDE DEF g
  <2>2. g = [cur \in 0..2^Width |-> g[cur]]
    BY DEF g
  <2> QED
    BY <2>1, <2>2
<1> HIDE DEF g, Fix
<1>3. Fix(CHOOSE h : Fix(h))
  BY <1>2
<1> QED
  BY <1>1, <1>3 DEF Fix

\* The scan finds where it first stops.
LEMMA ScanFinds ==
  ASSUME NEW c, NEW last, NEW used, NEW start \in 0..2^Width
  PROVE  FreeFrom(c, last, used)[start] = Found(c, last, FirstStop(c, last, used, start))
<1>1. 2^Width \in Nat
  BY AddrAssumption, PowerNat
<1> DEFINE f == FreeFrom(c, last, used)
           Right(cur) == f[cur] = Found(c, last, FirstStop(c, last, used, cur))
           Wrong == {n \in 0..2^Width : ~Right(2^Width - n)}
<1>2. ASSUME NEW cur \in 0..2^Width
      PROVE  /\ ScanEnds(c, last, cur) \/ ~Taken(c, used, cur) => Right(cur)
             /\ ~ScanEnds(c, last, cur) /\ Taken(c, used, cur) =>
                  cur + 1 \in 0..2^Width /\ (Right(cur + 1) => Right(cur))
  <2>1. f[cur] = IF ScanEnds(c, last, cur) THEN NoAddr
                 ELSE IF Taken(c, used, cur) THEN f[cur + 1] ELSE cur
    <3>1. f = [x \in 0..2^Width |-> IF ScanEnds(c, last, x) THEN NoAddr
                                    ELSE IF Taken(c, used, x) THEN f[x + 1] ELSE x]
      BY ScanEquation
    <3> HIDE DEF f
    <3> QED
      BY <3>1
  <2> QED
    BY <2>1, FirstStopStep DEF Found
<1> HIDE DEF f, Right
<1>3. Wrong = {}
  <2> SUFFICES ASSUME Wrong # {} PROVE FALSE
    OBVIOUS
  <2>1. Wrong \in SUBSET Nat
    BY <1>1
  <2>2. PICK m \in Wrong : \A n \in Wrong : m <= n
    BY <2>1, LeastNat
  <2> DEFINE cur == 2^Width - m
  <2>3. cur \in 0..2^Width /\ ~Right(cur)
    BY <1>1, <2>2
  <2>4. cur + 1 \in 0..2^Width /\ ~Right(cur + 1)
    BY <1>2, <2>3
  <2>5. m - 1 \in 0..2^Width /\ 2^Width - (m - 1) = cur + 1
    BY <1>1, <2>2, <2>4
  <2>6. m - 1 \in Wrong
    BY <2>4, <2>5
  <2> QED
    BY <2>1, <2>2, <2>6
<1>4. 2^Width - start \in 0..2^Width /\ 2^Width - (2^Width - start) = start
  BY <1>1
<1>5. Right(start)
  BY <1>3, <1>4
<1> QED
  BY <1>5 DEF Right, f

\* What a request for an address may name.
FreeInput == [kind : {"free"}, net : Net, first : AddrSpace \cup {NoAddr},
              last : AddrSpace \cup {NoAddr}, used : SUBSET AddrSpace]

\* NextFreeIPInRange, for addresses of every width, every pool, both bounds and
\* every set of addresses in use: the answer is the least free address of the range
\* other than the network's own, and there is none only if no address is free.
THEOREM NextFreeIsLeast ==
  ASSUME \A i \in AddrInputs : i.kind = "free" => i \in FreeInput
  PROVE  AddrInit => NextFreeExact
<1> SUFFICES ASSUME AddrInit, input.kind = "free" PROVE NextFreeExact
  BY DEF NextFreeExact
<1> DEFINE c == input.net
           first == input.first
           last == input.last
           used == input.used
           start == IF first = NoAddr THEN NetworkAt(c) ELSE first
           pool == {a \in AddrSpace \ used :
                      /\ ContainsIP(c, a) /\ a # NetworkAt(c)
                      /\ first # NoAddr => a >= first
                      /\ last # NoAddr => a <= last}
           s == FirstStop(c, last, used, start)
           got == NextFreeIPInRange(c, first, last, used)
<1>1. /\ c \in Net /\ first \in AddrSpace \cup {NoAddr} /\ last \in AddrSpace \cup {NoAddr}
      /\ used \in SUBSET AddrSpace
  BY DEF AddrInit, FreeInput
<1>2. 2^Width \in Nat
  BY AddrAssumption, PowerNat
<1>3. NetworkAt(c) \in AddrSpace /\ ContainsIP(c, NetworkAt(c))
  BY <1>1, BaseInside
<1>4. start \in AddrSpace /\ start \in 0..2^Width
  BY <1>1, <1>2, <1>3, AddrAssumption DEF AddrSpace
<1> HIDE DEF s
<1>5. /\ s \in start..2^Width /\ (ScanEnds(c, last, s) \/ ~Taken(c, used, s))
      /\ \A n \in Stops(c, last, used, start) : s <= n
  <2>1. s \in Stops(c, last, used, start) /\ \A n \in Stops(c, last, used, start) : s <= n
    BY <1>4, FirstStopIs DEF s
  <2> QED
    BY <2>1 DEF Stops
<1> HIDE DEF start
<1>6. CASE OutOfRange(c, first) \/ OutOfRange(c, last)
  BY <1>6 DEF NextFreeIPInRange, NextFreeExact, OutOfRange
<1>7. CASE ~OutOfRange(c, first) /\ ~OutOfRange(c, last)
  <2>1. got = IF ScanEnds(c, last, s) THEN NoAddr ELSE s
    BY <1>4, <1>7, ScanFinds DEF NextFreeIPInRange, Found, s, start
  <2>2. ContainsIP(c, start) /\ (first # NoAddr => start = first) /\ (first = NoAddr => start = NetworkAt(c))
    BY <1>3, <1>7 DEF start, OutOfRange
  <2>3. ASSUME NEW a \in pool PROVE s <= a /\ ~ScanEnds(c, last, s)
    <3>1. a \in AddrSpace /\ a \notin used /\ ContainsIP(c, a) /\ a # NetworkAt(c) /\ a \in Nat
          /\ (first # NoAddr => a >= first) /\ (last # NoAddr => a <= last)
      BY <1>2 DEF AddrSpace
    <3>2. start <= a
      BY <1>1, <2>2, <3>1, NetInterval
    <3>3. a \in Stops(c, last, used, start)
      BY <1>2, <1>4, <3>1, <3>2 DEF Stops, Taken, AddrSpace
    <3>4. s <= a /\ s \in Nat /\ start <= s
      BY <1>2, <1>4, <1>5, <3>3 DEF AddrSpace
    <3>5. ContainsIP(c, s)
      BY <1>1, <1>4, <2>2, <3>1, <3>4, NetInterval DEF AddrSpace
    <3>6. s # 2^Width /\ ~(last # NoAddr /\ s > last)
      BY <1>1, <1>2, <3>1, <3>4 DEF AddrSpace
    <3> QED
      BY <3>4, <3>5, <3>6 DEF ScanEnds
  <2>4. ASSUME ~ScanEnds(c, last, s) PROVE s \in pool
    <3>1. s # 2^Width /\ ContainsIP(c, s) /\ ~(last # NoAddr /\ s > last)
          /\ s # NetworkAt(c) /\ s \notin used
      BY <1>5, <2>4 DEF ScanEnds, Taken
    <3>2. s \in AddrSpace /\ start <= s /\ s \in Nat
      BY <1>2, <1>4, <1>5, <3>1 DEF AddrSpace
    <3>3. (first # NoAddr => s >= first) /\ (last # NoAddr => s <= last)
      BY <1>1, <2>2, <3>1, <3>2 DEF AddrSpace
    <3> QED
      BY <3>1, <3>2, <3>3
  <2>5. \A a \in {first, last} : a = NoAddr \/ ContainsIP(c, a)
    BY <1>7 DEF OutOfRange
  <2>6. IF pool # {} THEN got \in pool /\ \A a \in pool : got <= a ELSE got = NoAddr
    <3> HIDE DEF pool, got
    <3> QED
      BY <2>1, <2>3, <2>4
  <2> QED
    BY <2>5, <2>6 DEF NextFreeExact
<1> QED
  BY <1>6, <1>7

-----------------------------------------------------------------------------
(* AllowedIPs *)

\* Twice as many addresses for every bit, at least two for one.
LEMMA PowerGrows == ASSUME NEW n \in Nat, n > 0 PROVE 2^n >= 2
<1>1. IsFiniteSet(SUBSET (1..n)) /\ Cardinality(SUBSET (1..n)) = 2^n /\ 2^n \in Nat
  <2>1. IsFiniteSet(1..n) /\ Cardinality(1..n) = n
    BY FS_Interval
  <2> QED
    BY <2>1, FS_SUBSET, PowerNat
<1>2. {{}, {1}} \subseteq SUBSET (1..n)
  OBVIOUS
<1>3. Cardinality({{}, {1}}) = 2
  <2> DEFINE S == {{}}
             x == {1}
  <2>1. IsFiniteSet(S) /\ Cardinality(S) = 1
    BY FS_Singleton
  <2>2. x \notin S /\ {{}, {1}} = S \cup {x}
    OBVIOUS
  <2> HIDE DEF S, x
  <2>3. Cardinality(S \cup {x}) = Cardinality(S) + 1
    BY <2>1, <2>2, FS_AddElement
  <2> QED
    BY <2>1, <2>2, <2>3
<1>4. Cardinality({{}, {1}}) <= Cardinality(SUBSET (1..n))
  BY <1>1, <1>2, FS_Subset
<1> QED
  BY <1>1, <1>3, <1>4

\* A longer prefix has fewer addresses.
LEMMA SizeOrder == ASSUME NEW c \in Net, NEW d \in Net, c.len < d.len PROVE SizeOf(c) > SizeOf(d)
<1> DEFINE e == 2^(d.len - c.len)
<1>1. /\ Width - d.len \in Nat /\ d.len - c.len \in Nat /\ d.len - c.len > 0
      /\ Width - c.len = (d.len - c.len) + (Width - d.len)
  BY AddrAssumption DEF Net
<1>2. SizeOf(c) = e * SizeOf(d) /\ e \in Nat /\ e >= 2
  BY <1>1, PowerSum, PowerNat, PowerGrows DEF SizeOf
<1>3. SizeOf(d) \in Nat /\ SizeOf(d) > 0
  BY NetInterval
<1> HIDE DEF e
<1> QED
  BY <1>2, <1>3

\* A network ends within the address space.
LEMMA NetEnds == ASSUME NEW c \in Net PROVE NetworkAt(c) + SizeOf(c) <= 2^Width
<1> DEFINE n == SizeOf(c)
           r == Prefix(c)
           e == 2^c.len
<1>1. Width - c.len \in Nat /\ c.len \in Nat /\ Width = c.len + (Width - c.len)
  BY AddrAssumption DEF Net
<1>2. 2^Width = e * n /\ e \in Nat /\ c.ip \in Nat /\ c.ip < 2^Width
  BY <1>1, AddrAssumption, PowerSum, PowerNat DEF SizeOf, Net, AddrSpace
<1>3. n \in Nat /\ n > 0 /\ r \in Nat /\ NetworkAt(c) = r * n /\ r * n <= c.ip
  BY NetInterval
<1> HIDE DEF n, r, e
<1>4. r * n < e * n
  BY <1>2, <1>3
<1>5. r < e
  BY <1>2, <1>3, <1>4
<1>6. (r + 1) * n <= e * n
  BY <1>2, <1>3, <1>5
<1> QED
  BY <1>2, <1>3, <1>6 DEF n

\* What ClassifyPeerRoutes asks of an entry, its address and the length of its
\* prefix, is whether all its addresses are in the tunnel network.
LEMMA InsideExact ==
  ASSUME NEW t \in Net, NEW e \in Net
  PROVE  Inside(t, e) <=> \A x \in AddrSpace : ContainsIP(e, x) => ContainsIP(t, x)
<1>1. e.ip \in AddrSpace /\ e.ip \in Nat /\ ContainsIP(e, e.ip) /\ t.len \in Int /\ e.len \in Int
  BY AddrAssumption, PowerNat DEF ContainsIP, Net, AddrSpace
<1>2. /\ SizeOf(t) \in Nat /\ SizeOf(e) \in Nat /\ SizeOf(e) > 0
      /\ NetworkAt(t) \in Nat /\ NetworkAt(e) \in Nat
  BY NetInterval
<1>3. ASSUME Inside(t, e), NEW x \in AddrSpace, ContainsIP(e, x) PROVE ContainsIP(t, x)
  <2>1. x \in Nat
    BY DEF AddrSpace
  <2>2. ContainsIP(t, e.ip) /\ t.len <= e.len
    BY <1>1, <1>3 DEF Inside
  <2>3. NetworkAt(t) <= NetworkAt(e) /\ NetworkAt(e) + SizeOf(e) <= NetworkAt(t) + SizeOf(t)
    BY <1>1, <2>2, LargerContains
  <2>4. NetworkAt(e) <= x /\ x < NetworkAt(e) + SizeOf(e)
    BY <1>3, <2>1, NetInterval
  <2>5. NetworkAt(t) <= x /\ x < NetworkAt(t) + SizeOf(t)
    BY <1>2, <2>1, <2>3, <2>4
  <2> QED
    BY <2>1, <2>5, NetInterval
<1>4. ASSUME \A x \in AddrSpace : ContainsIP(e, x) => ContainsIP(t, x) PROVE Inside(t, e)
  <2> DEFINE z == NetworkAt(e) + SizeOf(e) - 1
  <2>1. z \in AddrSpace /\ z \in Nat /\ ContainsIP(e, z)
    <3>1. z \in Nat /\ z < 2^Width /\ 2^Width \in Nat
      BY <1>2, NetEnds, AddrAssumption, PowerNat
    <3>2. NetworkAt(e) <= z /\ z < NetworkAt(e) + SizeOf(e)
      BY <1>2
    <3> QED
      BY <3>1, <3>2, NetInterval DEF AddrSpace
  <2>2. NetworkAt(e) \in AddrSpace /\ ContainsIP(e, NetworkAt(e))
    BY BaseInside
  <2>3. ContainsIP(t, z) /\ ContainsIP(t, NetworkAt(e)) /\ ContainsIP(t, e.ip)
    BY <1>1, <1>4, <2>1, <2>2
  <2>4. NetworkAt(t) <= NetworkAt(e) /\ z < NetworkAt(t) + SizeOf(t)
    BY <1>2, <2>1, <2>3, NetInterval
  <2>5. SizeOf(e) <= SizeOf(t)
    BY <1>2, <2>4
  <2>6. ~(e.len < t.len)
    BY <1>2, <2>5, SizeOrder
  <2> QED
    BY <1>1, <2>3, <2>6 DEF Inside
<1> QED
  BY <1>3, <1>4

\* A host is a network of one address.
LEMMA HostExact ==
  ASSUME NEW e \in Net
  PROVE  e.len = Width <=> \E a \in AddrSpace : {x \in AddrSpace : ContainsIP(e, x)} = {a}
<1> DEFINE b == NetworkAt(e)
           S == {x \in AddrSpace : ContainsIP(e, x)}
<1>1. /\ SizeOf(e) \in Nat /\ SizeOf(e) > 0 /\ b \in Nat /\ b \in S /\ b \in AddrSpace
      /\ \A a \in Nat : ContainsIP(e, a) <=> b <= a /\ a < b + SizeOf(e)
  BY NetInterval, BaseInside
<1>2. e.len \in Nat /\ e.len <= Width /\ Width \in Nat /\ AddrSpace \subseteq Nat
  BY AddrAssumption DEF Net, AddrSpace
<1>3. CASE e.len = Width
  <2>1. SizeOf(e) = 1
    <3>1. SizeOf(e) = 2^0
      BY <1>2, <1>3 DEF SizeOf
    <3>2. 2^0 = 2^0 * 2^0 /\ 2^0 \in Nat /\ 2^0 > 0
      <4>1. 2^(0 + 0) = 2^0 * 2^0
        BY PowerSum
      <4> QED
        BY <4>1, PowerNat
    <3> DEFINE u == 2^0
    <3>3. u = u * u /\ u \in Nat /\ u > 0
      BY <3>2
    <3> HIDE DEF u
    <3>4. u = 1
      BY <3>3
    <3> QED
      BY <3>1, <3>4 DEF u
  <2> HIDE DEF b
  <2>2. ASSUME NEW x \in S PROVE x = b
    <3>1. x \in Nat /\ ContainsIP(e, x)
      BY <1>2
    <3>2. b <= x /\ x < b + 1
      BY <1>1, <2>1, <3>1
    <3> QED
      BY <1>1, <3>1, <3>2
  <2>3. S = {b}
    BY <1>1, <2>2
  <2> QED
    BY <1>1, <1>3, <2>3
<1>4. CASE e.len # Width
  <2>1. SizeOf(e) >= 2
    BY <1>2, <1>4, PowerGrows DEF SizeOf
  <2>2. b + 1 \in S
    <3>1. b + SizeOf(e) <= 2^Width /\ 2^Width \in Nat
      BY <1>2, NetEnds, PowerNat
    <3>2. b + 1 \in AddrSpace
      BY <1>1, <2>1, <3>1 DEF AddrSpace
    <3> HIDE DEF b
    <3> QED
      BY <1>1, <2>1, <3>2
  <2> HIDE DEF b
  <2>3. b # b + 1
    BY <1>1
  <2> QED
    BY <1>1, <1>4, <2>2, <2>3
<1> QED
  BY <1>3, <1>4

\* What a peer's conf may list.
RouteInput == [kind : {"routes"}, net : Net, entries : Seq(Net), named : BOOLEAN, handled : BOOLEAN]

\* ClassifyPeerRoutes and detectNetworkStructure, for addresses of every width,
\* every tunnel network and every list of AllowedIPs, in any order: the entries that
\* reach out of the tunnel are the site subnets, one host in it is the peer's own
\* address, the rest are anomalies, and a site that is not handled is brought up.
THEOREM RoutesAreSplit ==
  ASSUME \A i \in AddrInputs : i.kind = "routes" => i \in RouteInput
  PROVE  AddrInit => RoutesSplit
<1> SUFFICES ASSUME AddrInit, input.kind = "routes" PROVE RoutesSplit
  BY DEF RoutesSplit
<1> DEFINE t == input.net
           es == input.entries
           real == {n \in DOMAIN es : ~FullTunnel(es[n])}
           within == {n \in real : \A x \in AddrSpace : ContainsIP(es[n], x) => ContainsIP(t, x)}
           hosts == {n \in within : \E a \in AddrSpace : {x \in AddrSpace : ContainsIP(es[n], x)} = {a}}
           own == {n \in hosts : \A m \in hosts : n <= m}
           c == ClassifyPeerRoutes(t, es)
<1>1. t \in Net /\ es \in Seq(Net) /\ input.named \in BOOLEAN
  BY DEF AddrInit, RouteInput
<1>2. \A n \in DOMAIN es : es[n] \in Net /\ n \in Nat
  BY <1>1
<1>3. within = {n \in real : Inside(t, es[n])}
  BY <1>1, <1>2, InsideExact
<1>4. hosts = {n \in within : es[n].len = Width}
  BY <1>2, HostExact
<1>5. c = [own |-> own, sites |-> real \ within, full |-> real # DOMAIN es, anomalies |-> within \ own]
  BY <1>3, <1>4 DEF ClassifyPeerRoutes
<1>6. hosts \in SUBSET Nat /\ hosts \subseteq within /\ within \subseteq real
  BY <1>2
<1> HIDE DEF real, within, hosts, c
<1>7. \A m, n \in own : m = n
  BY <1>6
<1>8. hosts # {} => own # {}
  BY <1>6, LeastNat
<1>9. c.sites # {} /\ ~input.handled
         => SuggestedAction(c, input.named, FALSE) = IF input.named THEN "create_node" ELSE "anomaly"
  BY <1>1, <1>5 DEF SuggestedAction
<1>10. /\ c.sites = real \ within /\ c.own = own /\ c.anomalies = within \ own /\ own \subseteq hosts
  BY <1>5
<1> QED
  BY <1>6, <1>7, <1>8, <1>9, <1>10 DEF RoutesSplit, real, within, hosts, c

-----------------------------------------------------------------------------
(* Nodes *)

NodeReq == [at : {"idle", "remove", "clear", "list", "add", "own", "portal", "user", "create",
                  "rules", "store", "rows"},
            op : {"none", "delete", "revoke", "grant", "restrict", "free"},
            n : Node \cup {NoNode}, keys : SUBSET PeerKey, key : PeerKey \cup {"none"},
            addr : AddrSpace \cup {NoAddr}]

NodeTypes ==
  /\ node \in [Node -> NodeRole \cup {"none", "gone"}]
  /\ nodePeer \in [PeerKey -> Node \cup {NoNode}] /\ gift \in [PeerKey -> Node \cup {NoNode}]
  /\ peerAddr \in [PeerKey -> AddrSpace \cup {NoAddr}]
  /\ disabled \in [PeerKey -> AddrSpace \cup {NoAddr}]
  /\ known \subseteq PeerKey /\ stored \subseteq known /\ reapply \subseteq known /\ forced \subseteq known
  /\ adrift \subseteq PeerKey /\ clipped \subseteq PeerKey
  /\ \A k \in PeerKey : Home(k) # NoAddr => k \in known
  /\ blurred \in BOOLEAN /\ wiped \in BOOLEAN

\* What a request carries at each of its steps.
Carries(r) ==
  /\ r.at \in {"own", "portal", "create", "rules", "store"} => \E k \in known : r.keys = {k}
  /\ r.at \in {"remove", "clear", "list", "add", "own", "portal", "create"} => r.n \in Node
  /\ r.at = "clear" => r.key \in PeerKey
  /\ r.at = "add" => r.addr # NoAddr
  /\ r.at \in {"list", "add"} => r.op = "grant"
  /\ r.at \in {"rules", "store"} => r.op \in {"restrict", "free"} /\ r.keys = {r.key}

\* What it knows, as long as nothing has overlapped or failed.
Informed(r) ==
  /\ r.at = "add" => \A k \in PeerKey : peerAddr[k] # r.addr
  /\ r.at \in {"list", "add", "own"} => LiveNode(r.n)
  /\ r.at = "portal" => LiveNode(r.n)
  /\ r.at \in {"remove", "clear"} /\ r.op = "delete" => OwnedKeys(r.n) \subseteq r.keys
  /\ r.at = "clear" => ~OnHost(r.key)
  /\ r.at \in {"rules", "store"} => OnHost(r.key) /\ r.addr = peerAddr[r.key]
  /\ r.at = "store" /\ r.op = "restrict" /\ ~wiped /\ r.key \notin adrift \cup clipped => r.addr \in enforced

\* A peer made for a node is owned, or about to be.
Owned(r) ==
  \A k \in PeerKey \ moved : gift[k] # NoNode /\ OnHost(k) =>
    nodePeer[k] # NoNode \/ (r.at = "own" /\ r.op = "grant" /\ k \in r.keys)

\* A restriction is in force, or about to be lifted; a disabled peer's stays.
Held(r) ==
  ~wiped => \A k \in stored \ (reapply \cup adrift \cup clipped) :
    Home(k) # NoAddr => Home(k) \in enforced \/ (r.at = "store" /\ r.op = "free" /\ k \in r.keys)

Distinct == \A j, k \in PeerKey \ forced : j # k /\ OnHost(j) => peerAddr[j] # peerAddr[k]

\* The request r is the only one.
Alone(r) == Informed(r) /\ Owned(r) /\ Held(r) /\ Distinct

NodeInv ==
  /\ NodeTypes /\ nreq \in [NodeProc -> NodeReq]
  /\ \A p \in NodeProc : Carries(nreq[p])
  /\ ~blurred => /\ \A p, q \in NodeProc : p # q => nreq[p].at = "idle" \/ nreq[q].at = "idle"
                 /\ \A p \in NodeProc : nreq[p].at # "idle" => Alone(nreq[p])
                 /\ ~Busy => Alone(NoNodeReq)

\* A request that runs alone knows what it knows.
LEMMA NodeSolo ==
  ASSUME NodeInv, ~blurred, NEW p \in NodeProc, nreq[p].at # "idle"
  PROVE  Alone(nreq[p]) /\ \A q \in NodeProc : q # p => nreq[q].at = "idle"
  BY DEF NodeInv

\* A request that starts and leaves nothing on record starts alone.
LEMMA NodeStarts ==
  ASSUME NodeInv, NEW p \in NodeProc, Starts(p)
  PROVE  /\ blurred' \in BOOLEAN /\ nreq[p].at = "idle"
         /\ ~blurred' => /\ ~blurred /\ Alone(NoNodeReq) /\ reapply = {}
                         /\ \A q \in NodeProc : nreq[q].at = "idle"
<1>1. blurred' = (blurred \/ Busy \/ reapply # {}) /\ nreq[p].at = "idle"
  BY DEF Starts, Arrives
<1>2. blurred' \in BOOLEAN
  BY <1>1, Zenon
<1>3. ASSUME ~blurred' PROVE ~blurred /\ ~Busy /\ reapply = {}
  BY <1>1, <1>3, Zenon
<1> QED
  BY <1>1, <1>2, <1>3 DEF NodeInv, Busy

\* A step of one request keeps the invariant when its own part is kept.
LEMMA NodeStep ==
  ASSUME NodeInv, NEW p \in NodeProc, NEW r \in NodeReq, nreq' = [nreq EXCEPT ![p] = r],
         NodeTypes', known \subseteq known', Carries(r)',
         ~blurred' => Alone(r)' /\ \A q \in NodeProc : q # p => nreq[q].at = "idle"
  PROVE  NodeInv'
<1>1. nreq' \in [NodeProc -> NodeReq] /\ nreq'[p] = r /\ \A q \in NodeProc : q # p => nreq'[q] = nreq[q]
  BY DEF NodeInv
<1>2. ASSUME NEW q \in NodeProc PROVE Carries(nreq[q])'
  <2>1. CASE q = p
    BY <1>1, <2>1 DEF Carries
  <2>2. CASE q # p
    <3>1. Carries(nreq[q]) /\ nreq'[q] = nreq[q]
      BY <1>1, <2>2 DEF NodeInv
    <3> QED
      BY <3>1 DEF Carries
  <2> QED
    BY <2>1, <2>2
<1>3. ASSUME ~blurred', NEW q \in NodeProc, nreq'[q].at # "idle" PROVE Alone(nreq[q])'
  <2>1. q = p
    BY <1>1, <1>3
  <2>2. nreq'[q] = r
    BY <1>1, <2>1
  <2> QED
    BY <1>3, <2>2 DEF Alone, Informed, Owned, Held, Home, Distinct
<1>4. ASSUME ~blurred', ~Busy' PROVE Alone(NoNodeReq)'
  <2>1. r.at = "idle"
    BY <1>1, <1>4 DEF Busy
  <2>2. Alone(r)'
    BY <1>4
  <2> QED
    BY <2>1, <2>2 DEF Alone, Informed, Owned, Held, Home, NoNodeReq, Distinct
<1>5. ~blurred' => \A a, b \in NodeProc : a # b => nreq'[a].at = "idle" \/ nreq'[b].at = "idle"
  BY <1>1
<1> QED
  BY <1>1, <1>2, <1>3, <1>4, <1>5 DEF NodeInv

\* Requests that are one statement: the tables change, the request stays idle.
LEMMA NodeAtOnce ==
  ASSUME NodeInv, NEW p \in NodeProc, Starts(p), UNCHANGED <<hostState, stored, rest, nreq>>,
         node' \in [Node -> NodeRole \cup {"none", "gone"}],
         nodePeer' \in [PeerKey -> Node \cup {NoNode}], gift' \in [PeerKey -> Node \cup {NoNode}],
         moved' = moved,
         \A k \in PeerKey : gift'[k] # NoNode =>
           gift[k] # NoNode /\ (nodePeer[k] # NoNode => nodePeer'[k] # NoNode)
  PROVE  NodeInv'
<1>1. PICK r \in NodeReq : r = nreq[p]
  BY DEF NodeInv
<1>2. nreq' = [nreq EXCEPT ![p] = r]
  BY <1>1 DEF NodeInv
<1>3. NodeTypes'
  BY NodeStarts DEF NodeInv, NodeTypes, hostState, peerState, ruleState, rest, OnHost, Home
<1>4. Carries(r)'
  BY <1>1, NodeStarts DEF NodeInv, Carries, hostState, peerState, ruleState
<1>5. ASSUME ~blurred' PROVE Alone(r)' /\ \A q \in NodeProc : q # p => nreq[q].at = "idle"
  <2>1. Alone(NoNodeReq) /\ r.at = "idle" /\ \A q \in NodeProc : nreq[q].at = "idle"
    BY <1>1, <1>5, NodeStarts
  <2> QED
    BY <2>1 DEF Alone, Informed, Owned, Held, Home, Distinct, NoNodeReq, OnHost, hostState, peerState, ruleState, rest
<1> QED
  BY <1>2, <1>3, <1>4, <1>5, NodeStep DEF hostState, peerState, ruleState

\* A node is added or its role changed: the grants are not touched.
LEMMA NodeTablesStep ==
  ASSUME NodeInv, NEW p \in NodeProc, NEW n \in Node, NEW role \in NodeRole,
         apiNodesCreate(p, n, role) \/ apiNodesUpdate(p, n, role)
  PROVE  NodeInv'
<1>1. NodeTypes
  BY DEF NodeInv
<1>2. CASE apiNodesCreate(p, n, role)
  BY <1>1, <1>2, NodeAtOnce DEF apiNodesCreate, CreateNode, NodeTypes, owners
<1>3. CASE apiNodesUpdate(p, n, role)
  BY <1>1, <1>3, NodeAtOnce DEF apiNodesUpdate, NodeTypes, owners
<1> QED
  BY <1>2, <1>3

\* An owner is taken off a peer, which is what the handlers that clear one do.
LEMMA NodeOwnerCleared ==
  ASSUME NodeInv, NEW p \in NodeProc, NEW k \in PeerKey, ClearNodeOwner(p, k) \/ ClearPeerOwner(p, k)
  PROVE  NodeInv'
<1>1. NodeTypes
  BY DEF NodeInv
<1>2. CASE ClearNodeOwner(p, k)
  <2>1. /\ Starts(p) /\ UNCHANGED <<node, moved, hostState, stored, rest, nreq>>
        /\ nodePeer' = [nodePeer EXCEPT ![k] = NoNode] /\ gift' = [gift EXCEPT ![k] = NoNode]
    BY <1>2 DEF ClearNodeOwner, ClearNodePeer
  <2> QED
    BY <1>1, <2>1, NodeAtOnce DEF NodeTypes
<1>3. CASE ClearPeerOwner(p, k)
  BY <1>1, <1>3, NodeAtOnce DEF ClearPeerOwner, NodeTypes
<1> QED
  BY <1>2, <1>3

\* Requests that begin with a list or a check, and change nothing yet.
LEMMA NodeBegins ==
  ASSUME NodeInv, NEW p \in NodeProc, Starts(p), NEW r \in NodeReq, nreq' = [nreq EXCEPT ![p] = r],
         UNCHANGED <<nodePeer, gift, moved, hostState, stored, rest>>,
         node' \in [Node -> NodeRole \cup {"none", "gone"}],
         Carries(r)', Informed(r)'
  PROVE  NodeInv'
<1>1. NodeTypes'
  BY NodeStarts DEF NodeInv, NodeTypes, hostState, peerState, ruleState, rest, OnHost, Home
<1>2. ASSUME ~blurred' PROVE Alone(r)' /\ \A q \in NodeProc : q # p => nreq[q].at = "idle"
  <2>1. Alone(NoNodeReq) /\ \A q \in NodeProc : nreq[q].at = "idle"
    BY <1>2, NodeStarts
  <2> QED
    BY <2>1 DEF Alone, Owned, Held, Home, Distinct, NoNodeReq, OnHost, hostState, peerState, ruleState, rest
<1> QED
  BY <1>1, <1>2, NodeStep DEF hostState, peerState, ruleState

\* A deletion or a revocation lists the keys of its node, or access is to be given.
LEMMA NodeListStep ==
  ASSUME NodeInv, NEW p \in NodeProc, NEW n \in Node, NEW op \in {"delete", "revoke"},
         ListOwned(p, n, op) \/ apiNodeAccessSet(p, n)
  PROVE  NodeInv'
<1>1. NodeTypes
  BY DEF NodeInv
<1>2. CASE ListOwned(p, n, op)
  <2>1. PICK r : r = [NoNodeReq EXCEPT !.at = "remove", !.op = op, !.n = n, !.keys = OwnedKeys(n)]
    OBVIOUS
  <2>2. r \in NodeReq /\ r.at = "remove" /\ r.n = n /\ r.keys = OwnedKeys(n)
    BY <2>1 DEF NodeReq, NoNodeReq, OwnedKeys
  <2>3. nreq' = [nreq EXCEPT ![p] = r] /\ Starts(p) /\ UNCHANGED <<nodeTables, hostState, stored, rest>>
    BY <1>2, <2>1 DEF ListOwned, Answer
  <2> QED
    BY <1>1, <2>2, <2>3, NodeBegins DEF NodeTypes, Carries, Informed, OwnedKeys, nodeTables, owners, hostState, peerState, ruleState
<1>3. CASE apiNodeAccessSet(p, n)
  <2>1. PICK r : r = [NoNodeReq EXCEPT !.at = "list", !.op = "grant", !.n = n]
    OBVIOUS
  <2>2. r \in NodeReq /\ r.at = "list" /\ r.n = n /\ r.keys = {} /\ r.op = "grant"
    BY <2>1, AddrAssumption DEF NodeReq, NoNodeReq
  <2>3. /\ nreq' = [nreq EXCEPT ![p] = r] /\ Starts(p) /\ UNCHANGED <<nodeTables, hostState, stored, rest>>
        /\ LiveNode(n)
    BY <1>3, <2>1 DEF apiNodeAccessSet, Answer
  <2> QED
    BY <1>1, <2>2, <2>3, NodeBegins DEF NodeTypes, Carries, Informed, LiveNode, nodeTables, owners, hostState, peerState, ruleState
<1> QED
  BY <1>2, <1>3

\* A handler that gives a peer an owner begins: by hand or by detection.
LEMMA NodeOwnerStarts ==
  ASSUME NodeInv, NEW p \in NodeProc, NEW k \in PeerKey,
         \/ \E n \in Node : apiPeerSetNodeOwner(p, k, n) \/ applyNetworkDetection(p, k, n)
         \/ apiPeerSetOwner(p, k)
  PROVE  NodeInv'
<1>1. NodeTypes
  BY DEF NodeInv
<1>2. ASSUME NEW n \in Node, apiPeerSetNodeOwner(p, k, n) PROVE NodeInv'
  <2>1. PICK r : r = [NoNodeReq EXCEPT !.at = "portal", !.n = n, !.keys = {k}]
    OBVIOUS
  <2>2. r \in NodeReq /\ r.at = "portal" /\ r.n = n /\ r.keys = {k}
    BY <2>1 DEF NodeReq, NoNodeReq
  <2>3. /\ nreq' = [nreq EXCEPT ![p] = r] /\ Starts(p) /\ k \in known
        /\ UNCHANGED <<nodePeer, gift, moved, hostState, stored, rest>>
        /\ node' \in [Node -> NodeRole \cup {"none", "gone"}] /\ LiveNode(n)'
    BY <1>1, <1>2, <2>1 DEF apiPeerSetNodeOwner, Answer, CreateNode, LiveNode, NodeTypes, NodeRole, owners
  <2> QED
    BY <2>2, <2>3, NodeBegins DEF Carries, Informed, LiveNode, hostState, peerState, ruleState
<1>3. ASSUME NEW n \in Node, applyNetworkDetection(p, k, n) PROVE NodeInv'
  <2>1. PICK r : r = [NoNodeReq EXCEPT !.at = "create", !.n = n, !.keys = {k}]
    OBVIOUS
  <2>2. r \in NodeReq /\ r.at = "create" /\ r.n = n /\ r.keys = {k}
    BY <2>1 DEF NodeReq, NoNodeReq
  <2>3. /\ nreq' = [nreq EXCEPT ![p] = r] /\ Starts(p) /\ k \in known
        /\ UNCHANGED <<nodeTables, hostState, stored, rest>>
    BY <1>1, <1>3, <2>1 DEF applyNetworkDetection, Answer, NodeTypes, Home, OnHost, Home
  <2> QED
    BY <1>1, <2>2, <2>3, NodeBegins DEF Carries, Informed, NodeTypes, nodeTables, owners, hostState, peerState, ruleState
<1>4. CASE apiPeerSetOwner(p, k)
  <2>1. PICK r : r = [NoNodeReq EXCEPT !.at = "user", !.keys = {k}]
    OBVIOUS
  <2>2. r \in NodeReq /\ r.at = "user" /\ r.keys = {k}
    BY <2>1 DEF NodeReq, NoNodeReq
  <2>3. /\ nreq' = [nreq EXCEPT ![p] = r] /\ Starts(p) /\ k \in known
        /\ UNCHANGED <<nodeTables, hostState, stored, rest>>
    BY <1>4, <2>1 DEF apiPeerSetOwner, Answer
  <2> QED
    BY <1>1, <2>2, <2>3, NodeBegins DEF Carries, Informed, NodeTypes, nodeTables, owners, hostState, peerState, ruleState
<1> QED
  BY <1>2, <1>3, <1>4

\* A list of destinations is to be set or lifted, for the address the peer has.
LEMMA NodeRulesStart ==
  ASSUME NodeInv, NEW p \in NodeProc, NEW k \in PeerKey, NEW on \in BOOLEAN,
         apiPeerForwardRulesPut(p, k, on)
  PROVE  NodeInv'
<1>1. NodeTypes
  BY DEF NodeInv
<1>2. PICK r : r = [NoNodeReq EXCEPT !.at = "rules", !.op = IF on THEN "restrict" ELSE "free",
                                     !.keys = {k}, !.key = k, !.addr = peerAddr[k]]
  OBVIOUS
<1>3. /\ r \in NodeReq /\ r.at = "rules" /\ r.keys = {k} /\ r.key = k /\ r.addr = peerAddr[k]
      /\ r.op \in {"restrict", "free"}
  BY <1>1, <1>2 DEF NodeReq, NoNodeReq, NodeTypes
<1>4. /\ nreq' = [nreq EXCEPT ![p] = r] /\ Starts(p) /\ OnHost(k) /\ k \in known
      /\ UNCHANGED <<nodeTables, hostState, stored, rest>>
  BY <1>1, <1>2 DEF apiPeerForwardRulesPut, Answer, NodeTypes, Home, OnHost
<1> QED
  BY <1>1, <1>3, <1>4, NodeBegins DEF Carries, Informed, NodeTypes, nodeTables, owners, hostState, peerState, ruleState, OnHost, Home

\* A step of a request under way.
LEMMA NodeGoesOn ==
  ASSUME NodeInv, NEW p \in NodeProc, nreq[p].at # "idle", NEW r \in NodeReq,
         nreq' = [nreq EXCEPT ![p] = r], NodeTypes', known \subseteq known', Carries(r)',
         ~blurred' => ~blurred, ~blurred' /\ Alone(nreq[p]) => Alone(r)'
  PROVE  NodeInv'
  BY NodeSolo, NodeStep

\* One that changes nothing but itself.
LEMMA NodeMoves ==
  ASSUME NodeInv, NEW p \in NodeProc, nreq[p].at # "idle", NEW r \in NodeReq,
         nreq' = [nreq EXCEPT ![p] = r], Carries(r),
         UNCHANGED <<node, nodePeer, gift, moved, hostState, stored, reapply, wiped>>,
         blurred' \in BOOLEAN, ~blurred' => ~blurred,
         ~blurred' /\ Alone(nreq[p]) => Informed(r) /\ Owned(r) /\ Held(r)
  PROVE  NodeInv'
<1>1. NodeTypes'
  BY DEF NodeInv, NodeTypes, hostState, peerState, ruleState, OnHost, Home
<1>2. Carries(r)'
  BY DEF Carries, hostState, peerState, ruleState
<1>3. ASSUME ~blurred', Alone(nreq[p]) PROVE Alone(r)'
  <2>1. Informed(r) /\ Owned(r) /\ Held(r) /\ Distinct
    BY <1>3 DEF Alone
  <2> QED
    BY <2>1 DEF Alone, Informed, Owned, Held, Home, Distinct, OnHost, LiveNode, OwnedKeys, hostState, peerState, ruleState
<1> QED
  BY <1>1, <1>2, <1>3, NodeGoesOn DEF hostState, peerState, ruleState

\* A call that fails leaves tables and host in doubt.
LEMMA NodeFails == ASSUME FailsNow PROVE blurred' = TRUE /\ blurred' \in BOOLEAN
  BY DEF FailsNow

\* A call that returns does not.
LEMMA NodeContinues == ASSUME NodeInv, Continues PROVE blurred' = blurred /\ blurred' \in BOOLEAN
  BY DEF Continues, NodeInv, NodeTypes

\* What a finished request carries.
LEMMA NoNodeReqIs ==
  /\ NoNodeReq \in NodeReq /\ NoNodeReq.at = "idle" /\ Carries(NoNodeReq) /\ Informed(NoNodeReq)
  BY DEF NodeReq, NoNodeReq, Carries, Informed

\* The keys could not be listed: a deletion goes on with none, a revocation ends.
LEMMA NodeListFails ==
  ASSUME NodeInv, NEW p \in NodeProc, ListOwnedFails(p)
  PROVE  NodeInv'
<1>1. PICK r : r = IF nreq[p].op = "delete" THEN [nreq[p] EXCEPT !.keys = {}] ELSE NoNodeReq
  OBVIOUS
<1>2. nreq[p] \in NodeReq /\ Carries(nreq[p]) /\ nreq[p].at = "remove"
  BY DEF NodeInv, ListOwnedFails
<1>3. r \in NodeReq /\ Carries(r)
  BY <1>1, <1>2, NoNodeReqIs DEF NodeReq, Carries
<1>4. nreq' = [nreq EXCEPT ![p] = r] /\ UNCHANGED <<node, nodePeer, gift, moved, hostState, stored, reapply, wiped>>
  BY <1>1 DEF ListOwnedFails, Answer, nodeTables, owners
<1>5. blurred' = TRUE /\ blurred' \in BOOLEAN
  BY NodeFails DEF ListOwnedFails
<1> QED
  BY <1>2, <1>3, <1>4, <1>5, NodeMoves

\* The last key of a revocation is gone.
LEMMA NodeRevoke ==
  ASSUME NodeInv, NEW p \in NodeProc, revokeNodeProviderAccess(p)
  PROVE  NodeInv'
<1>1. /\ nreq[p].at = "remove" /\ nreq' = [nreq EXCEPT ![p] = NoNodeReq]
      /\ UNCHANGED <<node, nodePeer, gift, moved, hostState, stored, reapply, wiped>>
      /\ blurred' = blurred /\ blurred' \in BOOLEAN
  BY NodeContinues DEF revokeNodeProviderAccess, Answer, nodeTables, owners, rest
<1>2. Alone(nreq[p]) => Informed(NoNodeReq) /\ Owned(NoNodeReq) /\ Held(NoNodeReq)
  BY <1>1, NoNodeReqIs DEF Alone, Owned, Held, Home
<1> QED
  BY <1>1, <1>2, NodeMoves, NoNodeReqIs

\* The owner of the peer is looked up before a node is made its owner.
LEMMA NodePortal ==
  ASSUME NodeInv, NEW p \in NodeProc, GetPeerOwnerUserID(p)
  PROVE  NodeInv'
<1>1. PICK r : r = IF nreq[p].keys \subseteq portalPeer THEN NoNodeReq ELSE [nreq[p] EXCEPT !.at = "own"]
  OBVIOUS
<1>2. nreq[p] \in NodeReq /\ Carries(nreq[p]) /\ nreq[p].at = "portal"
  BY DEF NodeInv, GetPeerOwnerUserID
<1>3. r \in NodeReq /\ Carries(r)
  BY <1>1, <1>2, NoNodeReqIs DEF NodeReq, Carries
<1>4. /\ nreq' = [nreq EXCEPT ![p] = r] /\ UNCHANGED <<node, nodePeer, gift, moved, hostState, stored, reapply, wiped>>
      /\ blurred' = blurred /\ blurred' \in BOOLEAN
  BY <1>1, NodeContinues DEF GetPeerOwnerUserID, Answer, nodeTables, owners, rest
<1>5. ASSUME Alone(nreq[p]) PROVE Informed(r) /\ Owned(r) /\ Held(r)
  <2>1. Owned(r) /\ Held(r)
    BY <1>1, <1>2, <1>5, NoNodeReqIs DEF Alone, Owned, Held, Home, NodeReq
  <2>2. Informed(r)
    BY <1>1, <1>2, <1>5, NoNodeReqIs DEF Alone, Informed, NodeReq
  <2> QED
    BY <2>1, <2>2
<1> QED
  BY <1>2, <1>3, <1>4, <1>5, NodeMoves

\* The address the pool gives is one, and nobody has it.
LEMMA PoolGives ==
  ASSUME NEW used \in SUBSET AddrSpace
  PROVE  LET a == NextFreeIPInRange(Pool, NoAddr, NoAddr, used)
         IN  a \in AddrSpace \cup {NoAddr} /\ a \notin used
<1> DEFINE base == NetworkAt(Pool)
           s == FirstStop(Pool, NoAddr, used, base)
<1>1. 2^Width \in Nat
  BY AddrAssumption, PowerNat
<1>2. Pool \in Net /\ base \in AddrSpace /\ base \in 0..2^Width
  BY <1>1, NodeAssumption, BaseInside DEF Net, AddrSpace
<1>3. NextFreeIPInRange(Pool, NoAddr, NoAddr, used) = IF ScanEnds(Pool, NoAddr, s) THEN NoAddr ELSE s
  BY <1>2, ScanFinds DEF NextFreeIPInRange, OutOfRange, Found
<1>4. s \in base..2^Width /\ (ScanEnds(Pool, NoAddr, s) \/ ~Taken(Pool, used, s))
  <2>1. s \in Stops(Pool, NoAddr, used, base)
    BY <1>2, FirstStopIs
  <2> QED
    BY <2>1 DEF Stops
<1>5. ~ScanEnds(Pool, NoAddr, s) => s # 2^Width /\ s \notin used
  BY <1>4 DEF ScanEnds, Taken
<1>6. ~ScanEnds(Pool, NoAddr, s) => s \in AddrSpace
  BY <1>1, <1>2, <1>4, <1>5 DEF AddrSpace
<1> QED
  BY <1>3, <1>5, <1>6, AddrAssumption

\* A provisioning picks an address: none that a peer or the host has.
LEMMA NodePick ==
  ASSUME NodeInv, NEW p \in NodeProc, PickAddress(p)
  PROVE  NodeInv'
<1> DEFINE used == {peerAddr[k] : k \in {x \in PeerKey : OnHost(x)}} \cup {HostIP}
           free == NextFreeIPInRange(Pool, NoAddr, NoAddr, used)
<1>1. PICK r : r = IF free = NoAddr THEN NoNodeReq ELSE [nreq[p] EXCEPT !.at = "add", !.addr = free]
  OBVIOUS
<1>2. nreq[p] \in NodeReq /\ Carries(nreq[p]) /\ nreq[p].at = "list"
  BY DEF NodeInv, PickAddress
<1>3. /\ nreq' = [nreq EXCEPT ![p] = r] /\ UNCHANGED <<node, nodePeer, gift, moved, hostState, stored, reapply, wiped>>
      /\ blurred' = blurred /\ blurred' \in BOOLEAN
  BY <1>1, NodeContinues DEF PickAddress, Answer, nodeTables, owners, rest
<1>4. used \in SUBSET AddrSpace
  BY NodeAssumption DEF NodeInv, NodeTypes, OnHost, Home
<1>5. free \in AddrSpace \cup {NoAddr} /\ free \notin used
  <2> HIDE DEF used
  <2> QED
    BY <1>4, PoolGives
<1>6. ASSUME free # NoAddr, NEW k \in PeerKey PROVE peerAddr[k] # free
  <2>1. CASE OnHost(k)
    <3>1. peerAddr[k] \in used
      BY <2>1
    <3> HIDE DEF used, free
    <3> QED
      BY <1>5, <3>1
  <2>2. CASE ~OnHost(k)
    BY <1>6, <2>2 DEF OnHost
  <2> QED
    BY <2>1, <2>2
<1> HIDE DEF used, free
<1>7. r \in NodeReq /\ Carries(r)
  <2>1. CASE free = NoAddr
    BY <1>1, <2>1, NoNodeReqIs
  <2>2. CASE free # NoAddr
    <3>1. r = [nreq[p] EXCEPT !.at = "add", !.addr = free]
      BY <1>1, <2>2
    <3>2. r \in NodeReq /\ r.at = "add" /\ r.addr = free /\ r.n = nreq[p].n /\ r.op = nreq[p].op
      BY <1>2, <1>5, <3>1 DEF NodeReq
    <3> QED
      BY <1>2, <2>2, <3>2 DEF Carries
  <2> QED
    BY <2>1, <2>2
<1>8. ASSUME Alone(nreq[p]) PROVE Informed(r) /\ Owned(r) /\ Held(r)
  <2>1. CASE free = NoAddr
    BY <1>1, <1>2, <1>8, <2>1, NoNodeReqIs DEF Alone, Owned, Held, Home
  <2>2. CASE free # NoAddr
    <3>1. r = [nreq[p] EXCEPT !.at = "add", !.addr = free]
      BY <1>1, <2>2
    <3>2. r.at = "add" /\ r.addr = free /\ r.n = nreq[p].n
      BY <1>2, <3>1 DEF NodeReq
    <3>3. Informed(r)
      BY <1>2, <1>6, <1>8, <2>2, <3>2 DEF Alone, Informed
    <3> QED
      BY <1>2, <1>8, <3>2, <3>3 DEF Alone, Owned, Held, Home
  <2> QED
    BY <2>1, <2>2
<1> QED
  BY <1>2, <1>3, <1>7, <1>8, NodeMoves

\* An owned peer leaves the host: first there, then in the table.
LEMMA NodeRemove ==
  ASSUME NodeInv, NEW p \in NodeProc, NEW k \in PeerKey, RemoveOwned(p, k)
  PROVE  NodeInv'
<1>1. PICK r : r = [nreq[p] EXCEPT !.at = "clear", !.key = k]
  OBVIOUS
<1>2. nreq[p] \in NodeReq /\ Carries(nreq[p]) /\ nreq[p].at = "remove" /\ NodeTypes
  BY DEF NodeInv, RemoveOwned
<1>3. /\ r \in NodeReq /\ r.at = "clear" /\ r.key = k /\ r.n = nreq[p].n /\ r.keys = nreq[p].keys
      /\ r.op = nreq[p].op
  BY <1>1, <1>2 DEF NodeReq
<1>4. Carries(r)
  BY <1>2, <1>3 DEF Carries
<1>5. /\ nreq' = [nreq EXCEPT ![p] = r] /\ adrift' = adrift \cup ({k} \cap stored)
      /\ UNCHANGED <<node, nodePeer, gift, moved, disabled, known, forced, enforced, clipped, stored, reapply, wiped>>
  BY <1>1 DEF RemoveOwned, LeavesRules, Answer, nodeTables, owners
<1>6. CASE peerAddr' = [peerAddr EXCEPT ![k] = NoAddr] /\ Continues
  <2>1. blurred' = blurred /\ blurred' \in BOOLEAN
    BY <1>6, NodeContinues
  <2>2. NodeTypes'
    BY <1>2, <1>5, <1>6, <2>1 DEF NodeTypes, OnHost, Home
  <2>3. ASSUME Alone(nreq[p]) PROVE Alone(r)'
    <3>1. Informed(r)'
      BY <1>2, <1>3, <1>5, <1>6, <2>3 DEF Alone, Informed, OnHost, OwnedKeys, NodeTypes
    <3>2. Owned(r)' /\ Distinct'
      BY <1>2, <1>3, <1>5, <1>6, <2>3 DEF Alone, Owned, Distinct, OnHost, NodeTypes
    <3>3. Held(r)'
      BY <1>2, <1>3, <1>5, <1>6, <2>3 DEF Alone, Held, Home, OnHost, NodeTypes
    <3> QED
      BY <3>1, <3>2, <3>3 DEF Alone
  <2> QED
    BY <1>2, <1>3, <1>4, <1>5, <2>1, <2>2, <2>3, NodeGoesOn DEF Carries
<1>7. CASE FailsNow /\ UNCHANGED peerAddr
  <2>1. blurred' = TRUE /\ blurred' \in BOOLEAN
    BY <1>7, NodeFails
  <2>2. NodeTypes'
    BY <1>2, <1>5, <1>7, <2>1 DEF NodeTypes, OnHost, Home
  <2> QED
    BY <1>2, <1>3, <1>4, <1>5, <1>7, <2>1, <2>2, NodeGoesOn DEF Carries
<1> QED
  BY <1>6, <1>7 DEF RemoveOwned

\* The owner row of a key goes after its peer.
LEMMA NodeClear ==
  ASSUME NodeInv, NEW p \in NodeProc, ClearOwned(p)
  PROVE  NodeInv'
<1>1. PICK k : k = nreq[p].key
  OBVIOUS
<1>2. PICK r : r = [nreq[p] EXCEPT !.at = "remove", !.keys = @ \ {k}, !.key = "none"]
  OBVIOUS
<1>3. nreq[p] \in NodeReq /\ Carries(nreq[p]) /\ nreq[p].at = "clear" /\ NodeTypes /\ k \in PeerKey
  BY <1>1 DEF NodeInv, ClearOwned, Carries
<1>4. /\ r \in NodeReq /\ r.at = "remove" /\ r.n = nreq[p].n /\ r.keys = nreq[p].keys \ {k}
      /\ r.op = nreq[p].op
  BY <1>2, <1>3 DEF NodeReq
<1>5. Carries(r)
  BY <1>3, <1>4 DEF Carries
<1>6. /\ nreq' = [nreq EXCEPT ![p] = r] /\ UNCHANGED <<node, gift, moved, hostState, stored, reapply, wiped>>
      /\ nodePeer' = [nodePeer EXCEPT ![k] = NoNode] /\ blurred' = blurred /\ blurred' \in BOOLEAN
  BY <1>1, <1>2, NodeContinues DEF ClearOwned, ClearNodePeer, Answer, owners, rest
<1>7. NodeTypes'
  BY <1>3, <1>6 DEF NodeTypes, OnHost, Home, hostState, peerState, ruleState
<1>8. ASSUME Alone(nreq[p]) PROVE Alone(r)'
  <2>1. ~OnHost(k)
    BY <1>1, <1>3, <1>8 DEF Alone, Informed
  <2>2. Informed(r)'
    <3>1. r.n \in Node
      BY <1>3, <1>4 DEF Carries
    <3> QED
      BY <1>3, <1>4, <1>6, <1>8, <3>1, NodeAssumption DEF Alone, Informed, OwnedKeys, NodeTypes
  <2>3. Owned(r)' /\ Held(r)' /\ Distinct'
    BY <1>3, <1>4, <1>6, <1>8, <2>1 DEF Alone, Owned, Held, Home, Distinct, OnHost, NodeTypes, hostState, peerState, ruleState
  <2> QED
    BY <2>2, <2>3 DEF Alone
<1> QED
  BY <1>3, <1>4, <1>5, <1>6, <1>7, <1>8, NodeGoesOn DEF Carries, hostState, peerState, ruleState

\* The row of the node goes after its keys.
LEMMA NodeDelete ==
  ASSUME NodeInv, NEW p \in NodeProc, apiNodesDelete(p)
  PROVE  NodeInv'
<1>1. PICK n : n = nreq[p].n
  OBVIOUS
<1>2. /\ Carries(nreq[p]) /\ nreq[p].at = "remove" /\ nreq[p].op = "delete" /\ nreq[p].keys = {}
      /\ NodeTypes /\ n \in Node
  BY <1>1 DEF NodeInv, apiNodesDelete, Carries
<1>3. /\ nreq' = [nreq EXCEPT ![p] = NoNodeReq] /\ UNCHANGED <<gift, moved, hostState, stored, reapply, wiped>>
      /\ node' = [node EXCEPT ![n] = "gone"]
      /\ nodePeer' = [k \in PeerKey |-> IF nodePeer[k] = n THEN NoNode ELSE nodePeer[k]]
      /\ blurred' = blurred /\ blurred' \in BOOLEAN
  BY <1>1, NodeContinues DEF apiNodesDelete, DeleteNode, Answer, owners, rest
<1>4. NodeTypes'
  BY <1>2, <1>3 DEF NodeTypes, OnHost, Home, hostState, peerState, ruleState
<1>5. ASSUME Alone(nreq[p]) PROVE Alone(NoNodeReq)'
  <2>1. \A k \in PeerKey : nodePeer[k] # n
    BY <1>1, <1>2, <1>5 DEF Alone, Informed, OwnedKeys
  <2>2. \A k \in PeerKey : nodePeer'[k] = nodePeer[k]
    BY <1>3, <2>1
  <2> QED
    BY <1>2, <1>3, <1>5, <2>2 DEF Alone, Informed, Owned, Held, Home, Distinct, OnHost, NodeTypes, hostState, peerState, ruleState, NoNodeReq
<1> QED
  BY <1>2, <1>3, <1>4, <1>5, NodeGoesOn, NoNodeReqIs DEF Carries, hostState, peerState, ruleState, NoNodeReq

\* The switch adds a peer at the address it has picked.
LEMMA NodeProvision ==
  ASSUME NodeInv, NEW p \in NodeProc, autoProvisionPeer(p)
  PROVE  NodeInv'
<1>1. nreq[p] \in NodeReq /\ Carries(nreq[p]) /\ nreq[p].at = "add" /\ nreq[p].op = "grant" /\ NodeTypes
  BY DEF NodeInv, autoProvisionPeer, Carries
<1>2. UNCHANGED <<node, nodePeer, moved, disabled, forced, enforced, adrift, clipped, stored, reapply, wiped>>
  BY DEF autoProvisionPeer, ruleState
<1>3. CASE /\ nreq' = [nreq EXCEPT ![p] = NoNodeReq] /\ FailsNow /\ UNCHANGED <<known, gift, peerAddr>>
  <2>1. blurred' = TRUE /\ blurred' \in BOOLEAN
    BY <1>3, NodeFails
  <2> QED
    BY <1>1, <1>2, <1>3, <2>1, NodeMoves, NoNodeReqIs DEF hostState, peerState, ruleState
<1>4. ASSUME NEW k \in FreshKey,
             known' = known \cup {k}, gift' = [gift EXCEPT ![k] = nreq[p].n],
             peerAddr' = [peerAddr EXCEPT ![k] = nreq[p].addr],
             nreq' = [nreq EXCEPT ![p] = [nreq[p] EXCEPT !.at = "own", !.keys = {k}, !.addr = NoAddr]],
             Continues
      PROVE  NodeInv'
  <2>1. PICK r : r = [nreq[p] EXCEPT !.at = "own", !.keys = {k}, !.addr = NoAddr]
    OBVIOUS
  <2>2. PICK a : a = nreq[p].addr
    OBVIOUS
  <2>3. k \in PeerKey /\ k \notin known
    <3>1. known # PeerKey /\ k = CHOOSE j \in PeerKey : j \notin known
      BY <1>4 DEF FreshKey
    <3>2. \E j \in PeerKey : j \notin known
      BY <1>1, <3>1 DEF NodeTypes
    <3> QED
      BY <3>1, <3>2
  <2>4. r \in NodeReq /\ r.at = "own" /\ r.op = "grant" /\ r.keys = {k} /\ r.n = nreq[p].n
    BY <1>1, <2>1, <2>3 DEF NodeReq
  <2>5. a \in AddrSpace \cup {NoAddr} /\ r.n \in Node /\ blurred' = blurred /\ blurred' \in BOOLEAN
    BY <1>1, <1>4, <2>2, <2>4, NodeContinues DEF NodeReq, Carries
  <2>6. NodeTypes'
    BY <1>1, <1>2, <1>4, <2>2, <2>3, <2>4, <2>5 DEF NodeTypes, OnHost, Home
  <2>7. Carries(r)'
    BY <1>4, <2>4, <2>5 DEF Carries
  <2>8. ASSUME Alone(nreq[p]) PROVE Alone(r)'
    <3>1. LiveNode(r.n) /\ \A j \in PeerKey : peerAddr[j] # a
      BY <1>1, <2>2, <2>4, <2>8 DEF Alone, Informed
    <3>2. Informed(r)'
      BY <1>2, <2>4, <3>1 DEF Informed, LiveNode
    <3>3. Owned(r)'
      BY <1>1, <1>2, <1>4, <2>2, <2>3, <2>4, <2>8 DEF Alone, Owned, OnHost, NodeTypes
    <3>4. Held(r)'
      BY <1>1, <1>2, <1>4, <2>2, <2>3, <2>4, <2>8 DEF Alone, Held, Home, OnHost, NodeTypes
    <3>5. Distinct'
      BY <1>1, <1>2, <1>4, <2>2, <2>3, <2>8, <3>1 DEF Alone, Distinct, OnHost, NodeTypes
    <3> QED
      BY <3>2, <3>3, <3>4, <3>5 DEF Alone
  <2> QED
    BY <1>1, <1>4, <2>1, <2>4, <2>5, <2>6, <2>7, <2>8, NodeGoesOn
<1> QED
  BY <1>3, <1>4 DEF autoProvisionPeer, Answer

\* The owner of the peer is set; a node that is gone by then is an error.
LEMMA NodeAssign ==
  ASSUME NodeInv, NEW p \in NodeProc, AssignNode(p)
  PROVE  NodeInv'
<1>1. nreq[p] \in NodeReq /\ Carries(nreq[p]) /\ nreq[p].at = "own" /\ NodeTypes
  BY DEF NodeInv, AssignNode
<1>2. PICK n : n = nreq[p].n
  OBVIOUS
<1>3. n \in Node /\ (Alone(nreq[p]) => LiveNode(n))
  BY <1>1, <1>2 DEF Carries, Alone, Informed
<1>4. nreq' = [nreq EXCEPT ![p] = NoNodeReq] /\ UNCHANGED <<node, hostState, stored, reapply, wiped>>
  BY DEF AssignNode, Answer
<1>5. PICK k \in nreq[p].keys :
         \/ /\ LiveNode(n) /\ SetNodePeer(k, n) /\ Continues /\ moved' = moved \ {k}
            /\ gift' = [gift EXCEPT ![k] = IF @ = NoNode THEN @ ELSE n]
         \/ ~LiveNode(n) /\ Continues /\ UNCHANGED <<nodePeer, gift, moved>>
         \/ FailsNow /\ UNCHANGED <<nodePeer, gift, moved>>
  BY <1>2 DEF AssignNode
<1>6. k \in PeerKey /\ nreq[p].keys = {k}
  BY <1>1, <1>5 DEF Carries, NodeTypes
<1>7. CASE /\ LiveNode(n) /\ SetNodePeer(k, n) /\ Continues /\ moved' = moved \ {k}
           /\ gift' = [gift EXCEPT ![k] = IF @ = NoNode THEN @ ELSE n]
  <2>1. nodePeer' = [nodePeer EXCEPT ![k] = n] /\ blurred' = blurred /\ blurred' \in BOOLEAN
    BY <1>7, NodeContinues DEF SetNodePeer
  <2>2. NodeTypes'
    BY <1>1, <1>3, <1>4, <1>6, <1>7, <2>1 DEF NodeTypes, OnHost, Home, hostState, peerState, ruleState
  <2>3. ASSUME Alone(nreq[p]) PROVE Alone(NoNodeReq)'
    <3>1. Informed(NoNodeReq)'
      BY DEF Informed, NoNodeReq
    <3>2. Owned(NoNodeReq)'
      BY <1>1, <1>3, <1>4, <1>6, <1>7, <2>1, <2>3, NodeAssumption
         DEF Alone, Owned, OnHost, NodeTypes, hostState, peerState, ruleState, NoNodeReq
    <3>3. Held(NoNodeReq)' /\ Distinct'
      BY <1>1, <1>4, <2>3 DEF Alone, Held, Home, Distinct, OnHost, hostState, peerState, ruleState, NoNodeReq
    <3> QED
      BY <3>1, <3>2, <3>3 DEF Alone
  <2> QED
    BY <1>1, <1>4, <2>1, <2>2, <2>3, NodeGoesOn, NoNodeReqIs DEF Carries, NoNodeReq, hostState, peerState, ruleState
<1>8. CASE ~LiveNode(n) /\ Continues /\ UNCHANGED <<nodePeer, gift, moved>>
  <2>1. blurred' = blurred /\ blurred' \in BOOLEAN /\ ~Alone(nreq[p])
    BY <1>3, <1>8, NodeContinues
  <2> QED
    BY <1>1, <1>4, <1>8, <2>1, NodeMoves, NoNodeReqIs
<1>9. CASE FailsNow /\ UNCHANGED <<nodePeer, gift, moved>>
  <2>1. blurred' = TRUE /\ blurred' \in BOOLEAN
    BY <1>9, NodeFails
  <2> QED
    BY <1>1, <1>4, <1>9, <2>1, NodeMoves, NoNodeReqIs
<1> QED
  BY <1>5, <1>7, <1>8, <1>9

\* A user is made the owner of the peer.
LEMMA NodeUser ==
  ASSUME NodeInv, NEW p \in NodeProc, SetPeerOwner(p)
  PROVE  NodeInv'
<1>1. /\ nreq[p].at = "user" /\ nreq' = [nreq EXCEPT ![p] = NoNodeReq]
      /\ UNCHANGED <<node, nodePeer, gift, moved, hostState, stored, reapply, wiped>>
      /\ blurred' = blurred /\ blurred' \in BOOLEAN
  BY NodeContinues DEF SetPeerOwner, Answer, rest
<1>2. Alone(nreq[p]) => Informed(NoNodeReq) /\ Owned(NoNodeReq) /\ Held(NoNodeReq)
  BY <1>1, NoNodeReqIs DEF Alone, Owned, Held, Home
<1> QED
  BY <1>1, <1>2, NodeMoves, NoNodeReqIs

\* A node is made for a detected router.
LEMMA NodeDetected ==
  ASSUME NodeInv, NEW p \in NodeProc, CreateDetected(p)
  PROVE  NodeInv'
<1>1. nreq[p] \in NodeReq /\ Carries(nreq[p]) /\ nreq[p].at = "create" /\ NodeTypes
  BY DEF NodeInv, CreateDetected
<1>2. PICK r : r = [nreq[p] EXCEPT !.at = "own"]
  OBVIOUS
<1>3. r \in NodeReq /\ r.at = "own" /\ r.n = nreq[p].n /\ r.n \in Node /\ r.keys = nreq[p].keys /\ r.op = nreq[p].op
  BY <1>1, <1>2 DEF NodeReq, Carries
<1>4. /\ nreq' = [nreq EXCEPT ![p] = r] /\ UNCHANGED <<nodePeer, gift, moved, hostState, stored, reapply, wiped>>
      /\ node' = [node EXCEPT ![r.n] = "network_node"]
  BY <1>2, <1>3 DEF CreateDetected, CreateNode, Answer, owners, rest
<1>5. blurred' = (blurred \/ nreq[p].keys \cap portalPeer # {})
  BY DEF CreateDetected
<1>6. blurred' \in BOOLEAN /\ (~blurred' => ~blurred)
  BY <1>5, Zenon
<1>7. NodeTypes'
  BY <1>1, <1>3, <1>4, <1>6 DEF NodeTypes, OnHost, Home, hostState, peerState, ruleState, NodeRole
<1>8. Carries(r)'
  BY <1>1, <1>3, <1>4 DEF Carries, hostState, peerState, ruleState
<1>9. ASSUME Alone(nreq[p]) PROVE Alone(r)'
  <2>1. Informed(r)'
    BY <1>1, <1>3, <1>4 DEF Informed, LiveNode, NodeTypes, NodeRole
  <2>2. Owned(r)' /\ Held(r)' /\ Distinct'
    BY <1>1, <1>3, <1>4, <1>9 DEF Alone, Owned, Held, Home, Distinct, OnHost, hostState, peerState, ruleState
  <2> QED
    BY <2>1, <2>2 DEF Alone
<1> QED
  BY <1>1, <1>3, <1>4, <1>6, <1>7, <1>8, <1>9, NodeGoesOn DEF hostState, peerState, ruleState

\* What a synchronisation does not name it leaves in force.
LEMMA SyncSpares ==
  ASSUME NEW a, NEW k \in PeerKey, NEW on \in BOOLEAN,
         Sync(k, a, on) \/ SyncFails(k, a, on) \/ SyncHalfDone(k, a, on),
         adrift \subseteq PeerKey, clipped \subseteq PeerKey, stored \subseteq PeerKey,
         NEW j \in stored \ (adrift' \cup clipped'), j # k, Home(j) \in AddrSpace, Home(j) \in enforced
  PROVE  j \notin adrift \cup clipped /\ Home(j) \in enforced'
<1>1. Home(j) \notin Tagged(a) \ {a} /\ j \notin adrift \cup clipped /\ j \in PeerKey
  BY DEF Sync, SyncFails, SyncHalfDone
<1>2. CASE Home(j) = a
  BY <1>1, <1>2 DEF Sync, SyncFails, SyncHalfDone
<1>3. CASE Home(j) # a
  BY <1>1, <1>3 DEF Sync, SyncFails, SyncHalfDone
<1> QED
  BY <1>2, <1>3

\* It keeps the sets of peers it names sets of peers.
LEMMA SyncTypes ==
  ASSUME NEW a, NEW k, NEW on \in BOOLEAN, adrift \subseteq PeerKey, clipped \subseteq PeerKey,
         stored \subseteq PeerKey, Sync(k, a, on) \/ SyncFails(k, a, on) \/ SyncHalfDone(k, a, on)
  PROVE  adrift' \subseteq PeerKey /\ clipped' \subseteq PeerKey
  BY DEF Sync, SyncFails, SyncHalfDone

\* Whoever has been restored or restricted is so, and whose call failed is named.
LEMMA SyncOwn ==
  ASSUME NEW k \in PeerKey, NEW on \in BOOLEAN, OnHost(k)
  PROVE  /\ Sync(k, peerAddr[k], TRUE) => peerAddr[k] \in enforced'
         /\ SyncFails(k, peerAddr[k], on) /\ k \in stored => k \in adrift'
         /\ SyncHalfDone(k, peerAddr[k], on) => k \in adrift'
  BY DEF Sync, SyncFails, SyncHalfDone, Home

\* The host's rules change ahead of the rows.
LEMMA NodeRules ==
  ASSUME NodeInv, NEW p \in NodeProc, SetHostForwardRules(p)
  PROVE  NodeInv'
<1>1. nreq[p] \in NodeReq /\ Carries(nreq[p]) /\ nreq[p].at = "rules" /\ NodeTypes
  BY DEF NodeInv, SetHostForwardRules
<1>2. PICK k \in PeerKey : k = nreq[p].key /\ nreq[p].keys = {k}
  BY <1>1 DEF Carries, NodeTypes
<1> DEFINE on == nreq[p].op = "restrict"
<1>3. PICK a : a = nreq[p].addr
  OBVIOUS
<1>12. /\ on \in BOOLEAN /\ (on = TRUE \/ on = FALSE)
       /\ on = TRUE <=> nreq[p].op = "restrict"
       /\ on = FALSE <=> nreq[p].op # "restrict"
       /\ on => on = TRUE
  BY Zenon
<1>13. \/ Sync(k, a, on) /\ nreq' = [nreq EXCEPT ![p] = [nreq[p] EXCEPT !.at = "store"]]
       \/ SyncFails(k, a, on) /\ nreq' = [nreq EXCEPT ![p] = NoNodeReq]
       \/ SyncHalfDone(k, a, on) /\ on /\ nreq' = [nreq EXCEPT ![p] = [nreq[p] EXCEPT !.at = "store"]]
  BY <1>2, <1>3, Zenon DEF SetHostForwardRules, Answer
<1> HIDE DEF on
<1>4. /\ UNCHANGED <<node, nodePeer, gift, moved, peerAddr, disabled, known, forced, stored, reapply, wiped>>
      /\ Continues
  BY DEF SetHostForwardRules, nodeTables, owners, peerState
<1>5. PICK r : /\ r = NoNodeReq \/ r = [nreq[p] EXCEPT !.at = "store"]
               /\ nreq' = [nreq EXCEPT ![p] = r]
               /\ \/ Sync(k, a, on) /\ r = [nreq[p] EXCEPT !.at = "store"]
                  \/ SyncFails(k, a, on) /\ r = NoNodeReq
                  \/ SyncHalfDone(k, a, on) /\ on /\ r = [nreq[p] EXCEPT !.at = "store"]
  BY <1>13
<1>6. blurred' = blurred /\ blurred' \in BOOLEAN
  BY <1>4, NodeContinues
<1>7. /\ r \in NodeReq /\ r.at \in {"idle", "store"}
      /\ r.at = "store" => r.keys = {k} /\ r.key = k /\ r.op = nreq[p].op /\ r.addr = a
  BY <1>1, <1>2, <1>3, <1>5, NoNodeReqIs DEF NodeReq
<1>8. adrift' \subseteq PeerKey /\ clipped' \subseteq PeerKey
  BY <1>1, <1>5, <1>12, SyncTypes DEF NodeTypes
<1>9. NodeTypes'
  BY <1>1, <1>4, <1>6, <1>8 DEF NodeTypes, OnHost, Home
<1>10. Carries(r)'
  BY <1>1, <1>2, <1>4, <1>7 DEF Carries
<1>11. ASSUME Alone(nreq[p]) PROVE Alone(r)'
  <2>1. OnHost(k) /\ a = peerAddr[k] /\ Home(k) = a
    BY <1>1, <1>2, <1>3, <1>11 DEF Alone, Informed, Home
  <2>2. Owned(r)' /\ Distinct'
    BY <1>1, <1>4, <1>7, <1>11 DEF Alone, Owned, Distinct, OnHost
  <2>3. Informed(r)'
    <3>1. r.at = "store" /\ r.op = "restrict" /\ r.key \notin adrift' => a \in enforced'
      BY <1>12, <1>5, <1>7, <2>1, NoNodeReqIs, SyncOwn
    <3> QED
      BY <1>4, <1>7, <2>1, <3>1 DEF Informed, OnHost
  <2>4. Held(r)'
    <3> SUFFICES ASSUME ~wiped, NEW j \in stored \ (reapply \cup adrift' \cup clipped'), Home(j) # NoAddr
                 PROVE  Home(j) \in enforced' \/ (r.at = "store" /\ r.op = "free" /\ j \in r.keys)
      BY <1>4 DEF Held, Home, OnHost
    <3>1. j \in PeerKey /\ Home(j) \in AddrSpace
      BY <1>1 DEF NodeTypes, Home
    <3>2. CASE j = k
      <4>1. ~SyncFails(k, a, on) /\ ~SyncHalfDone(k, a, on)
        BY <1>12, <2>1, <3>2, SyncOwn
      <4>2. Sync(k, a, on) /\ r.at = "store" /\ r.keys = {k} /\ r.op = nreq[p].op
        BY <1>1, <1>5, <1>7, <4>1, NoNodeReqIs DEF NodeReq
      <4>3. CASE on = TRUE
        BY <2>1, <3>2, <4>2, <4>3, SyncOwn
      <4>4. CASE on = FALSE
        BY <1>1, <1>12, <3>2, <4>2, <4>4 DEF Carries
      <4> QED
        BY <1>12, <4>3, <4>4
    <3>3. CASE j # k
      <4>1. j \notin adrift \cup clipped
        BY <1>5, <3>1, <3>3 DEF Sync, SyncFails, SyncHalfDone
      <4>2. Home(j) \in enforced
        BY <1>1, <1>11, <3>1, <4>1 DEF Alone, Held
      <4>3. on \in BOOLEAN /\ (Sync(k, a, on) \/ SyncFails(k, a, on) \/ SyncHalfDone(k, a, on))
        BY <1>5, <1>12
      <4>4. /\ adrift \subseteq PeerKey /\ clipped \subseteq PeerKey /\ stored \subseteq PeerKey
            /\ j \in stored \ (adrift' \cup clipped')
        BY <1>1 DEF NodeTypes
      <4> QED
        BY <3>1, <3>3, <4>2, <4>3, <4>4, SyncSpares, Zenon
    <3> QED
      BY <3>2, <3>3
  <2> QED
    BY <2>2, <2>3, <2>4 DEF Alone
<1> QED
  BY <1>1, <1>4, <1>5, <1>6, <1>7, <1>9, <1>10, <1>11, NodeGoesOn

\* The rows of a restriction, in one transaction.
LEMMA NodeRows ==
  ASSUME NodeInv, NEW p \in NodeProc, SetPeerForwardRules(p) \/ DeletePeerForwardRules(p)
  PROVE  NodeInv'
<1>1. /\ nreq[p] \in NodeReq /\ Carries(nreq[p]) /\ nreq[p].at \in {"store", "rows"} /\ NodeTypes
      /\ nreq' = [nreq EXCEPT ![p] = NoNodeReq] /\ Continues
      /\ UNCHANGED <<node, nodePeer, gift, moved, peerState, enforced, clipped, reapply, wiped>>
  BY DEF NodeInv, SetPeerForwardRules, DeletePeerForwardRules, Answer, nodeTables, owners, hostState, ruleState
<1>2. blurred' = blurred /\ blurred' \in BOOLEAN
  BY <1>1, NodeContinues
<1>3. nreq[p].at = "store" => nreq[p].keys = {nreq[p].key} /\ nreq[p].key \in known /\ nreq[p].op \in {"restrict", "free"}
  BY <1>1 DEF Carries
<1>4. \/ nreq[p].at = "store" /\ adrift' = adrift \cup nreq[p].keys /\ stored' = stored
      \/ nreq[p].at = "store" /\ nreq[p].op = "free" /\ adrift' = adrift /\ stored' = stored \ nreq[p].keys
      \/ nreq[p].at = "store" /\ nreq[p].op = "restrict" /\ adrift' = adrift /\ stored' = stored \cup nreq[p].keys
      \/ nreq[p].at = "rows" /\ adrift' = adrift /\ stored' \subseteq stored
  BY <1>1, <1>3 DEF SetPeerForwardRules, DeletePeerForwardRules, hostState, ruleState
<1>5. NodeTypes'
  <2>1. adrift' \subseteq PeerKey /\ stored' \subseteq known
    BY <1>1, <1>3, <1>4 DEF NodeTypes
  <2> QED
    BY <1>1, <1>2, <2>1 DEF NodeTypes, OnHost, Home, peerState
<1>6. ASSUME Alone(nreq[p]) PROVE Alone(NoNodeReq)'
  <2>1. Informed(NoNodeReq)'
    BY DEF Informed, NoNodeReq
  <2>2. Owned(NoNodeReq)' /\ Distinct'
    BY <1>1, <1>6 DEF Alone, Owned, Distinct, OnHost, peerState, NoNodeReq
  <2>3. Held(NoNodeReq)'
    <3> SUFFICES ASSUME ~wiped, NEW j \in stored' \ (reapply \cup adrift' \cup clipped), Home(j) # NoAddr
                 PROVE  Home(j) \in enforced
      BY <1>1 DEF Held, Home, OnHost, peerState
    <3>1. CASE j \in stored
      BY <1>1, <1>3, <1>4, <1>6, <3>1 DEF Alone, Held
    <3>2. CASE j \notin stored
      <4>1. nreq[p].at = "store" /\ nreq[p].op = "restrict" /\ j = nreq[p].key /\ adrift' = adrift
        BY <1>3, <1>4, <3>2
      <4>2. OnHost(j) /\ nreq[p].addr = peerAddr[j] /\ nreq[p].addr \in enforced
        BY <1>6, <4>1 DEF Alone, Informed
      <4> QED
        BY <4>2 DEF Home
    <3> QED
      BY <3>1, <3>2
  <2> QED
    BY <2>1, <2>2, <2>3 DEF Alone
<1> QED
  BY <1>1, <1>2, <1>5, <1>6, NodeGoesOn, NoNodeReqIs DEF Carries, NoNodeReq, peerState

\* A peer is deleted: its rows are next.
LEMMA NodePeerDeleted ==
  ASSUME NodeInv, NEW p \in NodeProc, NEW k \in PeerKey, apiDeletePeer(p, k)
  PROVE  NodeInv'
<1>1. PICK r : r = [NoNodeReq EXCEPT !.at = "rows", !.keys = {k}]
  OBVIOUS
<1>2. r \in NodeReq /\ r.at = "rows" /\ NodeTypes
  BY <1>1 DEF NodeReq, NoNodeReq, NodeInv
<1>3. /\ nreq' = [nreq EXCEPT ![p] = r] /\ Starts(p) /\ peerAddr' = [peerAddr EXCEPT ![k] = NoAddr]
      /\ adrift' = adrift \cup ({k} \cap stored)
      /\ UNCHANGED <<node, nodePeer, gift, moved, disabled, known, forced, enforced, clipped, stored, reapply, wiped>>
  BY <1>1 DEF apiDeletePeer, LeavesRules, Answer, nodeTables, owners, rest
<1>4. NodeTypes'
  BY <1>2, <1>3, NodeStarts DEF NodeTypes, OnHost, Home
<1>5. ASSUME ~blurred' PROVE Alone(r)' /\ \A q \in NodeProc : nreq[q].at = "idle"
  <2>1. Alone(NoNodeReq) /\ \A q \in NodeProc : nreq[q].at = "idle"
    BY <1>3, <1>5, NodeStarts
  <2>2. Informed(r)' /\ Owned(r)' /\ Distinct'
    BY <1>2, <1>3, <2>1 DEF Alone, Informed, Owned, Distinct, NoNodeReq, OnHost, NodeTypes
  <2>3. Held(r)'
    BY <1>2, <1>3, <2>1 DEF Alone, Held, Home, NoNodeReq, OnHost, NodeTypes
  <2> QED
    BY <2>1, <2>2, <2>3 DEF Alone
<1> QED
  BY <1>2, <1>3, <1>4, <1>5, NodeStep DEF Carries

\* A request about one peer that is one step.
LEMMA NodePeerStep ==
  ASSUME NodeInv, NEW p \in NodeProc, NodeTypes', known \subseteq known', nreq' = nreq,
         \/ Starts(p) /\ (Alone(NoNodeReq) => Owned(NoNodeReq)' /\ Held(NoNodeReq)' /\ Distinct')
         \/ StartsAndFails(p)
  PROVE  NodeInv'
<1>1. nreq[p] \in NodeReq /\ nreq[p].at = "idle"
  BY DEF NodeInv, Starts, StartsAndFails, Arrives
<1>2. PICK r \in NodeReq : r = nreq[p]
  BY <1>1
<1>3. nreq' = [nreq EXCEPT ![p] = r] /\ Carries(r)'
  BY <1>1, <1>2 DEF NodeInv, Carries
<1>4. ASSUME ~blurred' PROVE Alone(r)' /\ \A q \in NodeProc : nreq[q].at = "idle"
  <2>1. Starts(p) /\ Owned(NoNodeReq)' /\ Held(NoNodeReq)' /\ Distinct' /\ \A q \in NodeProc : nreq[q].at = "idle"
    BY <1>4, NodeStarts DEF StartsAndFails
  <2> QED
    BY <1>1, <1>2, <2>1 DEF Alone, Informed, Owned, Held, NoNodeReq
<1> QED
  BY <1>2, <1>3, <1>4, NodeStep

\* A peer is put on an address, by creation, change or enabling: nobody else has
\* the address, or the peer is on record.
LEMMA PlaceDistinct ==
  ASSUME NodeTypes, NEW k \in PeerKey, NEW a \in AddrSpace, Place(k, a), Distinct
  PROVE  Distinct'
  BY DEF NodeTypes, Place, Distinct, OnHost

\* A fresh key is one nobody has.
LEMMA FreshIs == ASSUME NodeTypes, NEW k \in FreshKey PROVE k \in PeerKey /\ k \notin known
<1>1. known # PeerKey /\ k = CHOOSE j \in PeerKey : j \notin known
  BY DEF FreshKey
<1>2. \E j \in PeerKey : j \notin known
  BY <1>1 DEF NodeTypes
<1> QED
  BY <1>1, <1>2

\* The requests of the peers page that put a peer somewhere.
LEMMA NodePlaced ==
  ASSUME NodeInv, NEW p \in NodeProc, NEW k \in PeerKey, NEW a \in TypedIP,
         apiCreatePeer(p, k, a) \/ apiUpdatePeer(p, k, a)
  PROVE  NodeInv'
<1>1. NodeTypes /\ a \in AddrSpace
  BY NodeAssumption DEF NodeInv
<1>2. /\ Starts(p) /\ Place(k, a) /\ adrift' = adrift \cup ({k} \cap stored)
      /\ UNCHANGED <<node, nodePeer, moved, disabled, enforced, clipped, stored, reapply, wiped, nreq>>
      /\ known' = known \cup {k}
      /\ gift' \in [PeerKey -> Node \cup {NoNode}] /\ \A j \in PeerKey : gift'[j] # NoNode => gift'[j] = gift[j]
      /\ gift' = gift \/ gift'[k] = NoNode
      /\ gift' = gift => OnHost(k) \/ gift[k] = NoNode
  <2>1. CASE apiCreatePeer(p, k, a)
    <3>1. gift' = [gift EXCEPT ![k] = NoNode] /\ gift'[k] = NoNode
      BY <1>1, <2>1 DEF apiCreatePeer, NodeTypes
    <3> QED
      BY <1>1, <2>1, <3>1 DEF apiCreatePeer, LeavesRules, NodeTypes, rest
  <2>2. CASE apiUpdatePeer(p, k, a)
    <3>1. k \in known /\ known' = known /\ gift' = gift /\ OnHost(k)
      BY <1>1, <2>2 DEF apiUpdatePeer, nodeTables, owners, NodeTypes, Home, OnHost
    <3> QED
      BY <1>1, <2>2, <3>1 DEF apiUpdatePeer, LeavesRules, nodeTables, owners, NodeTypes, rest
  <2> QED
    BY <2>1, <2>2
<1>3. /\ peerAddr' = [peerAddr EXCEPT ![k] = a] /\ forced' \subseteq known \cup {k}
  BY <1>1, <1>2 DEF Place, NodeTypes
<1>4. blurred' \in BOOLEAN
  BY <1>2, NodeStarts
<1>5. NodeTypes'
  BY <1>1, <1>2, <1>3, <1>4 DEF NodeTypes, Home, OnHost
<1>6. ASSUME Alone(NoNodeReq) PROVE Owned(NoNodeReq)' /\ Held(NoNodeReq)' /\ Distinct'
  <2>1. Owned(NoNodeReq)'
    BY <1>1, <1>2, <1>3, <1>6 DEF Alone, Owned, OnHost, NodeTypes, NoNodeReq
  <2>2. Held(NoNodeReq)'
    BY <1>1, <1>2, <1>3, <1>6 DEF Alone, Held, Home, OnHost, NodeTypes, NoNodeReq
  <2>3. Distinct'
    BY <1>1, <1>2, <1>6, PlaceDistinct DEF Alone
  <2> QED
    BY <2>1, <2>2, <2>3
<1> QED
  BY <1>2, <1>5, <1>6, NodePeerStep

\* A key is rotated.
LEMMA NodeRotated ==
  ASSUME NodeInv, NEW p \in NodeProc, NEW k \in PeerKey, apiRotatePeer(p, k)
  PROVE  NodeInv'
<1>1. NodeTypes /\ OnHost(k) /\ k \in known
  BY DEF NodeInv, apiRotatePeer, NodeTypes, Home, OnHost
<1>2. PICK new \in FreshKey :
         /\ known' = known \cup {new}
         /\ \/ /\ Starts(p)
               /\ peerAddr' = [peerAddr EXCEPT ![k] = NoAddr, ![new] = peerAddr[k]]
               /\ gift' = [gift EXCEPT ![new] = gift[k]] /\ moved' = moved \cup {new}
               /\ forced' = IF k \in forced THEN forced \cup {new} ELSE forced
            \/ /\ StartsAndFails(p)
               /\ peerAddr' = [peerAddr EXCEPT ![k] = NoAddr] /\ UNCHANGED <<gift, moved, forced>>
  BY DEF apiRotatePeer
<1>3. new \in PeerKey /\ new \notin known /\ new # k
  BY <1>1, <1>2, FreshIs
<1>4. /\ adrift' = adrift \cup ({k} \cap stored)
      /\ UNCHANGED <<node, nodePeer, disabled, enforced, clipped, stored, reapply, wiped, nreq>>
  BY DEF apiRotatePeer, LeavesRules
<1>5. CASE /\ Starts(p)
           /\ peerAddr' = [peerAddr EXCEPT ![k] = NoAddr, ![new] = peerAddr[k]]
           /\ gift' = [gift EXCEPT ![new] = gift[k]] /\ moved' = moved \cup {new}
           /\ forced' = IF k \in forced THEN forced \cup {new} ELSE forced
  <2>1. blurred' \in BOOLEAN
    BY <1>5, NodeStarts
  <2>2. ~OnHost(new) /\ new \notin forced /\ new \notin stored
    BY <1>1, <1>3 DEF NodeTypes, Home, OnHost
  <2>3. /\ peerAddr' \in [PeerKey -> AddrSpace \cup {NoAddr}] /\ peerAddr'[k] = NoAddr
        /\ peerAddr'[new] = peerAddr[k]
        /\ \A j \in PeerKey : j # k /\ j # new => peerAddr'[j] = peerAddr[j]
    BY <1>1, <1>3, <1>5 DEF NodeTypes
  <2>4. gift' \in [PeerKey -> Node \cup {NoNode}] /\ \A j \in PeerKey : j # new => gift'[j] = gift[j]
    BY <1>1, <1>3, <1>5 DEF NodeTypes
  <2>5. forced' \subseteq known'
    BY <1>1, <1>2, <1>5 DEF NodeTypes
  <2>6. NodeTypes'
    BY <1>1, <1>2, <1>3, <1>4, <2>1, <2>3, <2>4, <2>5 DEF NodeTypes, Home, OnHost
  <2>7. ASSUME Alone(NoNodeReq) PROVE Owned(NoNodeReq)' /\ Held(NoNodeReq)' /\ Distinct'
    <3>1. Owned(NoNodeReq)'
      BY <1>4, <1>5, <2>3, <2>4, <2>7 DEF Alone, Owned, OnHost, NoNodeReq
    <3>2. Held(NoNodeReq)'
      <4> SUFFICES ASSUME ~wiped, NEW j \in stored \ (reapply \cup adrift' \cup clipped), Home(j)' # NoAddr
                   PROVE  Home(j)' \in enforced
        BY <1>4 DEF Held, NoNodeReq
      <4>1. j # k /\ j # new /\ j \notin adrift /\ j \in PeerKey
        BY <1>1, <1>4, <2>2 DEF NodeTypes
      <4>2. Home(j)' = Home(j)
        BY <1>4, <2>3, <4>1 DEF Home, OnHost
      <4> QED
        BY <1>4, <2>7, <4>1, <4>2 DEF Alone, Held, NoNodeReq
    <3>3. Distinct'
      <4> SUFFICES ASSUME NEW i \in PeerKey \ forced', NEW j \in PeerKey \ forced', i # j, OnHost(i)'
                   PROVE  peerAddr'[i] # peerAddr'[j]
        BY DEF Distinct
      <4>1. \A x, y \in PeerKey \ forced : x # y /\ OnHost(x) => peerAddr[x] # peerAddr[y]
        BY <2>7 DEF Alone, Distinct
      <4>2. forced \subseteq forced' /\ (k \in forced => new \in forced')
        BY <1>5
      <4>3. i # k
        BY <2>3 DEF OnHost
      <4>4. CASE j = k
        BY <2>3, <4>4 DEF OnHost
      <4>5. CASE j # k /\ i # new /\ j # new
        BY <2>3, <4>1, <4>2, <4>3, <4>5 DEF OnHost
      <4>6. CASE j # k /\ i = new
        BY <1>1, <2>3, <4>1, <4>2, <4>6 DEF OnHost
      <4>7. CASE j = new
        BY <1>1, <2>3, <4>1, <4>2, <4>3, <4>7 DEF OnHost
      <4> QED
        BY <4>4, <4>5, <4>6, <4>7
    <3> QED
      BY <3>1, <3>2, <3>3
  <2> QED
    BY <1>2, <1>4, <1>5, <2>6, <2>7, NodePeerStep
<1>6. CASE /\ StartsAndFails(p)
           /\ peerAddr' = [peerAddr EXCEPT ![k] = NoAddr] /\ UNCHANGED <<gift, moved, forced>>
  <2>1. blurred' \in BOOLEAN
    BY <1>6 DEF StartsAndFails
  <2>2. NodeTypes'
    BY <1>1, <1>2, <1>3, <1>4, <1>6, <2>1 DEF NodeTypes, Home, OnHost
  <2> QED
    BY <1>2, <1>4, <1>6, <2>2, NodePeerStep
<1> QED
  BY <1>2, <1>5, <1>6

\* A peer is disabled, and its restriction waits for it.
LEMMA NodeDisabled ==
  ASSUME NodeInv, NEW p \in NodeProc, NEW k \in PeerKey, apiDisablePeer(p, k)
  PROVE  NodeInv'
<1>1. NodeTypes /\ OnHost(k) /\ k \in known
  BY DEF NodeInv, apiDisablePeer, NodeTypes, Home, OnHost
<1>2. /\ disabled' = [disabled EXCEPT ![k] = peerAddr[k]]
      /\ UNCHANGED <<node, nodePeer, gift, moved, known, forced, enforced, adrift, clipped, stored, reapply, wiped, nreq>>
  BY DEF apiDisablePeer, nodeTables, owners, ruleState
<1>3. peerAddr' = [peerAddr EXCEPT ![k] = NoAddr] \/ peerAddr' = peerAddr
  BY DEF apiDisablePeer
<1>4. blurred' \in BOOLEAN
  BY NodeStarts DEF apiDisablePeer, StartsAndFails
<1>5. \A j \in PeerKey : Home(j)' = Home(j)
  BY <1>1, <1>2, <1>3 DEF NodeTypes, Home, OnHost
<1>6. NodeTypes'
  BY <1>1, <1>2, <1>3, <1>4, <1>5 DEF NodeTypes
<1>7. ASSUME Alone(NoNodeReq) PROVE Owned(NoNodeReq)' /\ Held(NoNodeReq)' /\ Distinct'
  <2>1. Owned(NoNodeReq)' /\ Distinct'
    BY <1>1, <1>2, <1>3, <1>7 DEF Alone, Owned, Distinct, OnHost, NodeTypes, NoNodeReq
  <2>2. Held(NoNodeReq)'
    BY <1>1, <1>2, <1>5, <1>7 DEF Alone, Held, NodeTypes, NoNodeReq
  <2> QED
    BY <2>1, <2>2
<1> QED
  BY <1>2, <1>6, <1>7, NodePeerStep DEF apiDisablePeer

\* It comes back to the address it had.
LEMMA NodeEnabled ==
  ASSUME NodeInv, NEW p \in NodeProc, NEW k \in PeerKey, apiEnablePeer(p, k)
  PROVE  NodeInv'
<1>1. NodeTypes /\ ~OnHost(k) /\ disabled[k] # NoAddr /\ Home(k) = disabled[k]
  BY DEF NodeInv, apiEnablePeer, Home
<1>2. PICK a \in AddrSpace : a = disabled[k] /\ k \in known
  BY <1>1 DEF NodeTypes
<1>3. /\ Place(k, a)
      /\ \/ disabled' = [disabled EXCEPT ![k] = NoAddr]
         \/ disabled' = disabled
      /\ moved' = IF nodePeer[k] = NoNode THEN moved \cup {k} ELSE moved
      /\ UNCHANGED <<node, nodePeer, gift, known, enforced, adrift, clipped, stored, reapply, wiped, nreq>>
  BY <1>2 DEF apiEnablePeer, ruleState
<1>4. /\ peerAddr' = [peerAddr EXCEPT ![k] = a] /\ forced' \subseteq known
  BY <1>1, <1>2, <1>3 DEF Place, NodeTypes
<1>5. blurred' \in BOOLEAN
  BY NodeStarts DEF apiEnablePeer, StartsAndFails
<1>6. \A j \in PeerKey : Home(j)' = Home(j)
  BY <1>1, <1>2, <1>3, <1>4 DEF NodeTypes, Home, OnHost
<1>7. NodeTypes'
  BY <1>1, <1>2, <1>3, <1>4, <1>5, <1>6 DEF NodeTypes
<1>8. ASSUME Alone(NoNodeReq) PROVE Owned(NoNodeReq)' /\ Held(NoNodeReq)' /\ Distinct'
  <2>1. Owned(NoNodeReq)'
    BY <1>1, <1>3, <1>4, <1>8 DEF Alone, Owned, OnHost, NodeTypes, NoNodeReq
  <2>2. Held(NoNodeReq)'
    BY <1>1, <1>3, <1>6, <1>8 DEF Alone, Held, NodeTypes, NoNodeReq
  <2>3. Distinct'
    BY <1>1, <1>3, <1>8, PlaceDistinct DEF Alone
  <2> QED
    BY <2>1, <2>2, <2>3
<1> QED
  BY <1>3, <1>7, <1>8, NodePeerStep DEF apiEnablePeer

\* The chain is lost; the panel restarts and restores the rules.
LEMMA NodeHostLosesChain ==
  ASSUME NodeInv, HostLosesChain
  PROVE  NodeInv'
<1>1. /\ wiped' = TRUE
      /\ UNCHANGED <<node, nodePeer, gift, moved, peerAddr, disabled, known, forced, adrift, clipped, stored, reapply, nreq, blurred>>
  BY DEF HostLosesChain, nodeTables, owners, peerState
<1>2. NodeTypes'
  BY <1>1 DEF NodeInv, NodeTypes, OnHost, Home
<1>3. \A p \in NodeProc : Carries(nreq[p])'
  BY <1>1 DEF NodeInv, Carries
<1>4. ASSUME ~blurred, NEW p \in NodeProc, nreq[p].at # "idle" PROVE Alone(nreq[p])'
  <2>1. Alone(nreq[p])
    BY <1>4, NodeSolo
  <2> QED
    BY <1>1, <2>1 DEF Alone, Informed, Owned, Held, Distinct, OnHost, LiveNode, OwnedKeys
<1>5. Busy' <=> Busy
  BY <1>1 DEF Busy
<1>6. Alone(NoNodeReq) => Alone(NoNodeReq)'
  BY <1>1 DEF Alone, Informed, Owned, Held, Distinct, OnHost, NoNodeReq
<1> QED
  BY <1>1, <1>2, <1>3, <1>4, <1>5, <1>6 DEF NodeInv

\* The panel restarts: what was under way is in doubt, the saved rules are to come,
\* or all of them are given up.
LEMMA NodePanelRestart ==
  ASSUME NodeInv, NodesRestart
  PROVE  NodeInv'
<1>1. /\ nreq' = [p \in NodeProc |-> NoNodeReq] /\ wiped' = FALSE
      /\ UNCHANGED <<node, nodePeer, gift, moved, peerAddr, disabled, known, forced, clipped, stored>>
      /\ \/ reapply' = stored /\ adrift' = adrift
         \/ reapply' = {} /\ adrift' = adrift \cup stored
      /\ blurred' = (blurred \/ Busy)
  BY DEF NodesRestart, nodeTables, owners, peerState
<1>2. blurred' \in BOOLEAN /\ (~blurred' => ~blurred /\ ~Busy)
  BY <1>1, Zenon
<1>3. NodeTypes'
  BY <1>1, <1>2 DEF NodeInv, NodeTypes, OnHost, Home
<1>4. \A p \in NodeProc : Carries(nreq[p])' /\ nreq'[p].at = "idle"
  BY <1>1 DEF Carries, NoNodeReq
<1>5. ~blurred' => Alone(NoNodeReq)'
  BY <1>1, <1>2 DEF NodeInv, Alone, Informed, Owned, Held, Distinct, OnHost, NoNodeReq
<1>6. nreq' \in [NodeProc -> NodeReq]
  BY <1>1, NoNodeReqIs
<1> QED
  BY <1>2, <1>3, <1>4, <1>5, <1>6 DEF NodeInv

\* One of the saved restrictions is put back after the start, or skipped.
LEMMA NodeReapply ==
  ASSUME NodeInv, ReapplyPeerForwardRules
  PROVE  NodeInv'
<1>1. PICK k \in reapply :
        /\ reapply' = reapply \ {k}
        /\ \/ OnHost(k) /\ Sync(k, peerAddr[k], TRUE)
           \/ OnHost(k) /\ SyncFails(k, peerAddr[k], TRUE)
           \/ adrift' = adrift \cup {k} /\ UNCHANGED <<enforced, clipped>>
        /\ blurred' = (blurred \/ Busy)
        /\ UNCHANGED <<nodeTables, peerState, stored, nreq, wiped>>
  BY DEF ReapplyPeerForwardRules
<1>2. blurred' \in BOOLEAN /\ (~blurred' => ~blurred /\ ~Busy)
  BY <1>1, Zenon
<1>3. UNCHANGED <<node, nodePeer, gift, moved, peerAddr, disabled, known, forced, stored, nreq, wiped>>
  BY <1>1 DEF nodeTables, owners, peerState
<1>4. NodeTypes /\ k \in PeerKey
  BY <1>1 DEF NodeInv, NodeTypes
<1>5. adrift' \subseteq PeerKey /\ clipped' \subseteq PeerKey
  BY <1>1, <1>4, SyncTypes DEF NodeTypes
<1>6. NodeTypes'
  BY <1>1, <1>2, <1>3, <1>4, <1>5 DEF NodeTypes, OnHost, Home
<1>7. \A p \in NodeProc : Carries(nreq[p])'
  BY <1>3 DEF NodeInv, Carries
<1>8. ASSUME ~blurred' PROVE Alone(NoNodeReq)' /\ \A p \in NodeProc : nreq'[p].at = "idle"
  <2>1. Alone(NoNodeReq) /\ \A p \in NodeProc : nreq'[p].at = "idle"
    BY <1>2, <1>3, <1>8 DEF NodeInv, Busy
  <2>2. Informed(NoNodeReq)' /\ Owned(NoNodeReq)' /\ Distinct'
    BY <1>3, <2>1 DEF Alone, Informed, Owned, Distinct, OnHost, NoNodeReq
  <2>3. Held(NoNodeReq)'
    <3> SUFFICES ASSUME ~wiped, NEW j \in stored \ (reapply' \cup adrift' \cup clipped'), Home(j) # NoAddr
                 PROVE  Home(j) \in enforced'
      BY <1>3 DEF Held, Home, OnHost
    <3>1. j \in PeerKey /\ Home(j) \in AddrSpace
      BY <1>4 DEF NodeTypes, Home
    <3>2. CASE j = k
      BY <1>1, <1>4, <3>2, SyncOwn DEF Home
    <3>3. CASE j # k
      <4>1. j \notin reapply \cup adrift \cup clipped
        BY <1>1, <3>1, <3>3 DEF Sync, SyncFails
      <4>2. Home(j) \in enforced
        BY <2>1, <3>1, <4>1 DEF Alone, Held, NoNodeReq
      <4> QED
        BY <1>1, <1>4, <3>1, <3>3, <4>2, SyncSpares DEF NodeTypes
    <3> QED
      BY <3>2, <3>3
  <2> QED
    BY <2>1, <2>2, <2>3 DEF Alone
<1>9. nreq' \in [NodeProc -> NodeReq]
  BY <1>3 DEF NodeInv
<1> QED
  BY <1>2, <1>6, <1>7, <1>8, <1>9 DEF NodeInv

\* The invariant holds at the start.
LEMMA NodeInvInit == NodesInit => NodeInv
<1> SUFFICES ASSUME NodesInit PROVE NodeInv
  OBVIOUS
<1>1. PICK made : made = CHOOSE k \in PeerKey : TRUE
  OBVIOUS
<1>2. made \in PeerKey
  BY <1>1, NodeAssumption
<1>3. /\ known = {made} /\ peerAddr = [k \in PeerKey |-> IF k = made THEN HostIP + 1 ELSE NoAddr]
      /\ nodePeer = [k \in PeerKey |-> NoNode] /\ stored = {} /\ reapply = {}
      /\ gift = [k \in PeerKey |-> NoNode] /\ disabled = [k \in PeerKey |-> NoAddr]
      /\ moved = {} /\ forced = {} /\ adrift = {} /\ clipped = {}
      /\ nreq = [p \in NodeProc |-> NoNodeReq] /\ blurred = FALSE /\ wiped = FALSE
  BY <1>1 DEF NodesInit
<1>4. node \in [Node -> NodeRole \cup {"none", "gone"}]
  BY DEF NodesInit, NodeRole
<1>5. HostIP + 1 \in AddrSpace
  BY NodeAssumption
<1>6. NodeTypes
  BY <1>2, <1>3, <1>4, <1>5 DEF NodeTypes, OnHost, Home
<1>7. Alone(NoNodeReq)
  BY <1>2, <1>3, <1>5, AddrAssumption DEF Alone, Informed, Owned, Held, Home, Distinct, OnHost, NoNodeReq
<1>8. nreq \in [NodeProc -> NodeReq] /\ \A p \in NodeProc : Carries(nreq[p]) /\ nreq[p].at = "idle"
  BY <1>3, NoNodeReqIs
<1> QED
  BY <1>6, <1>7, <1>8 DEF NodeInv

\* Every step keeps the invariant: one case per action.
LEMMA NodeInvNext == NodeInv /\ [NodesNext]_nodeVars => NodeInv'
<1> SUFFICES ASSUME NodeInv, [NodesNext]_nodeVars PROVE NodeInv'
  OBVIOUS
<1>1. CASE UNCHANGED nodeVars
  <2>1. ASSUME NEW p \in NodeProc, Carries(nreq[p]) PROVE Carries(nreq[p])'
    BY <1>1, <2>1 DEF nodeVars, Carries
  <2>2. ASSUME NEW p \in NodeProc, Alone(nreq[p]) PROVE Alone(nreq[p])'
    BY <1>1, <2>2 DEF nodeVars, Alone, Informed, Owned, Held, Home, Distinct, OnHost, LiveNode, OwnedKeys
  <2>3. Alone(NoNodeReq) => Alone(NoNodeReq)'
    BY <1>1 DEF nodeVars, Alone, Informed, Owned, Held, Home, Distinct, OnHost, NoNodeReq
  <2>4. NodeTypes' /\ (Busy' <=> Busy)
    BY <1>1 DEF nodeVars, NodeInv, NodeTypes, OnHost, Home, Busy
  <2> QED
    BY <1>1, <2>1, <2>2, <2>3, <2>4 DEF NodeInv, nodeVars
<1>2. ASSUME NEW p \in NodeProc, NEW n \in Node,
             \/ \E role \in NodeRole : apiNodesCreate(p, n, role) \/ apiNodesUpdate(p, n, role)
             \/ \E op \in {"delete", "revoke"} : ListOwned(p, n, op)
             \/ apiNodeAccessSet(p, n)
             \/ \E k \in PeerKey : apiPeerSetNodeOwner(p, k, n) \/ applyNetworkDetection(p, k, n)
      PROVE  NodeInv'
  BY <1>2, NodeTablesStep, NodeListStep, NodeOwnerStarts
<1>3. ASSUME NEW p \in NodeProc, NEW k \in PeerKey,
             \/ RemoveOwned(p, k) \/ ClearNodeOwner(p, k) \/ apiPeerSetOwner(p, k)
             \/ ClearPeerOwner(p, k) \/ apiDeletePeer(p, k) \/ apiRotatePeer(p, k)
             \/ apiDisablePeer(p, k) \/ apiEnablePeer(p, k)
             \/ \E a \in TypedIP : apiCreatePeer(p, k, a) \/ apiUpdatePeer(p, k, a)
             \/ \E on \in BOOLEAN : apiPeerForwardRulesPut(p, k, on)
      PROVE  NodeInv'
  BY <1>3, NodeRemove, NodeOwnerCleared, NodeOwnerStarts, NodePeerDeleted, NodeRulesStart,
     NodeRotated, NodeDisabled, NodeEnabled, NodePlaced
<1>4. ASSUME NEW p \in NodeProc,
             \/ ListOwnedFails(p) \/ ClearOwned(p) \/ apiNodesDelete(p) \/ revokeNodeProviderAccess(p)
             \/ PickAddress(p) \/ autoProvisionPeer(p) \/ AssignNode(p) \/ GetPeerOwnerUserID(p)
             \/ SetPeerOwner(p) \/ CreateDetected(p)
             \/ SetHostForwardRules(p) \/ SetPeerForwardRules(p) \/ DeletePeerForwardRules(p)
      PROVE  NodeInv'
  BY <1>4, NodeListFails, NodeClear, NodeDelete, NodeRevoke, NodePick, NodeProvision, NodeAssign,
     NodePortal, NodeUser, NodeDetected, NodeRules, NodeRows
<1>5. CASE HostLosesChain \/ NodesRestart \/ ReapplyPeerForwardRules
  BY <1>5, NodeHostLosesChain, NodePanelRestart, NodeReapply
<1> QED
  BY <1>1, <1>2, <1>3, <1>4, <1>5 DEF NodesNext

\* The invariant behind the three theorems that follow, from the initial states on.
LEMMA NodeInvariant == NodesSpec => []NodeInv
  BY NodeInvInit, NodeInvNext, PTL DEF NodesSpec

\* However many nodes, peers and requests there are: when access has been revoked or
\* a node deleted, no peer that the access switch made is left on the host without an
\* owner, whatever the peers page did to it short of rotating its key or enabling it
\* afterwards, as long as no request overlapped another and no call failed.
THEOREM NodePeersOwned == NodesSpec => []NoOrphanPeer
<1>1. NodeInv => NoOrphanPeer
  <2> SUFFICES ASSUME NodeInv, Quiet, NEW k \in PeerKey \ moved, gift[k] # NoNode, OnHost(k)
               PROVE  nodePeer[k] # NoNode
    BY DEF NoOrphanPeer
  <2>1. Alone(NoNodeReq)
    BY DEF NodeInv, Quiet
  <2> QED
    BY <2>1 DEF Alone, Owned, NoNodeReq
<1> QED
  BY <1>1, NodeInvariant, PTL

\* For every pool, every width of address and whatever addresses admins type: two
\* peers share one only if an admin put the second there, though the pool is read in
\* one step and the peer added in a later one, unless requests overlapped or a call
\* failed.
THEOREM PeerAddressesDistinct == NodesSpec => []AddressesDistinct
<1>1. NodeInv => AddressesDistinct
  <2> SUFFICES ASSUME NodeInv, ~blurred PROVE Distinct
    BY DEF AddressesDistinct, Distinct
  <2>1. CASE Busy
    BY <2>1, NodeSolo DEF Busy, Alone
  <2>2. CASE ~Busy
    BY <2>2 DEF NodeInv, Alone
  <2> QED
    BY <2>1, <2>2
<1> QED
  BY <1>1, NodeInvariant, PTL

\* A restriction on record is in force, in whichever order peers were restricted,
\* freed, disabled, enabled, deleted and made again, through failed or skipped calls
\* for other peers, restarts of the panel and losses of the chain that a restart has
\* followed: `adrift' and `clipped' name every way in which it may have been lost.
THEOREM RestrictionsHold == NodesSpec => []RestrictionInForce
<1>1. NodeInv => RestrictionInForce
  <2> SUFFICES ASSUME NodeInv, Quiet, ~wiped, NEW k \in stored \ (reapply \cup adrift \cup clipped), OnHost(k)
               PROVE  peerAddr[k] \in enforced
    BY DEF RestrictionInForce
  <2>1. Alone(NoNodeReq)
    BY DEF NodeInv, Quiet
  <2> QED
    BY <2>1 DEF Alone, Held, Home, OnHost, NoNodeReq
<1> QED
  BY <1>1, NodeInvariant, PTL

-----------------------------------------------------------------------------
(* Subnets *)

Setting == [mesh : BOOLEAN, egress : BOOLEAN, group : Nat]
SubReq == [at : {"idle", "insert", "nat", "mode", "natdel", "drop", "save", "group", "networking",
                 "provision", "ensure", "rule", "sysctl", "name", "pair", "side", "pairsave", "forward"},
           op : {"none", "local", "pass", "masq", "settings", "pair"},
           c : SUBSET Cidr, i : SUBSET Inst, side : Inst, on : BOOLEAN, want : Setting, prev : Setting,
           skip : SUBSET (Inst \cup {"rows"})]

SubTypes ==
  /\ subnet \in [Cidr -> {"none", "local", "pass", "masq"}] /\ natRule \subseteq Cidr
  /\ setting \in [Inst -> Setting] /\ groups \in Nat /\ hostNet \in [Inst -> Setting]
  /\ meshRule \in BOOLEAN /\ ipForward \in BOOLEAN /\ unplugged \in BOOLEAN
  /\ sreq \in [SubProc -> SubReq]

\* What a request is about at each of its steps.
Shape(r) ==
  /\ r.at = "idle" => r.c = {} /\ r.i = {}
  /\ r.at = "insert" => r.op \in {"local", "pass"} /\ r.on
  /\ r.at \in {"insert", "name"} => \E c \in Cidr : r.c = {c}
  /\ r.at \in {"nat", "mode", "natdel", "drop"} => r.i = {}
  /\ r.at \in {"nat", "mode"} => r.op \in {"pass", "masq"}
  /\ r.at \in {"save", "group", "networking"} => r.op = "settings" /\ r.i = {r.side}
  /\ r.at = "networking" => r.side = "wg"
  /\ r.at \in {"provision", "ensure", "rule"} => r.side = "cert"
  /\ r.at \in {"provision", "ensure", "rule", "sysctl"} =>
       r.side \in r.i /\ r.op \in {"settings", "pair"} /\ (r.op = "pair" => r.i = Inst /\ r.on)
  /\ r.at \in {"name", "pair"} => r.on
  /\ r.at = "name" => r.op = "pass" /\ r.i = {"wg"}
  /\ r.at \in {"insert", "name"} /\ r.op = "pass" => "rows" \in r.skip
  /\ r.at = "forward" => r.i = {"wg"}
  /\ r.at \in {"side", "pairsave"} => r.op = "pair" /\ r.i = Inst /\ r.on

\* What is not in doubt is one request's, or the worker's, or nobody's.
Exclusive ==
  \A x \in (Cidr \cup Inst) \ unsure :
    /\ \A p, q \in SubProc : p # q => x \notin On(p) \/ x \notin On(q)
    /\ x \in restore => \A p \in SubProc : x \notin On(p)

\* The host's rule for a subnet of mode m: never one too many, and none missing
\* when the workers have put them back.
NatOk(c, m) ==
  /\ c \in natRule => m = "masq"
  /\ ~unplugged /\ c \notin restore /\ m = "masq" => c \in natRule
NatReq(c, r) ==
  /\ r.at = "mode" => NatOk(c, r.op)
  /\ r.at = "drop" => c \notin natRule
  /\ r.at \in {"nat", "mode"} => subnet[c] # "none"
  /\ r.at \notin {"mode", "drop"} => NatOk(c, subnet[c])
NatInv ==
  \A c \in Cidr \ unsure :
    /\ c \in restore => subnet[c] = "masq"
    /\ \A p \in SubProc : c \in sreq[p].c => NatReq(c, sreq[p])
    /\ (\A p \in SubProc : c \notin sreq[p].c) => NatOk(c, subnet[c])

\* The host runs an instance with the settings s.
Agrees(i, s) ==
  IF i = "wg" THEN overruled \/ hostNet["wg"].egress = s.egress
  ELSE /\ hostNet["cert"] = [s EXCEPT !.group = 0]
       /\ meshRule => s.mesh
       /\ ~unplugged /\ "cert" \notin restore /\ s.mesh => meshRule
Needs(s) == s.mesh \/ s.egress
InstOk(i) == Agrees(i, setting[i]) /\ (Needs(setting[i]) => ipForward)
Applying(i, r) ==
  r.side = i /\ r.at \in {"group", "networking", "provision", "ensure", "rule", "sysctl"}
InstReq(i, r) ==
  /\ ~Applying(i, r) => InstOk(i)
  /\ Applying(i, r) => (Needs(setting[i]) => ipForward \/ r.on)
  /\ r.side = i /\ r.at = "save" => r.prev = setting[i] /\ (Needs(r.want) => ipForward \/ r.on)
  /\ r.side = i /\ r.at = "group" =>
       Agrees(i, r.prev) /\ setting[i].mesh = r.want.mesh /\ setting[i].egress = r.want.egress
  /\ r.side = i /\ r.at = "networking" => setting[i].egress = r.want.egress
  /\ r.side = i /\ r.at \in {"ensure", "rule"} => r.prev = setting[i]
  /\ r.side = i /\ r.at = "rule" => hostNet[i] = [setting[i] EXCEPT !.group = 0]
  /\ r.side = i /\ r.at = "sysctl" => Agrees(i, setting[i])
  /\ r.side = i /\ r.at = "pairsave" => r.want.egress = setting[i].egress
MeshInv ==
  \A i \in Inst \ unsure :
    /\ i \in restore => setting[i].mesh
    /\ \A p \in SubProc : i \in sreq[p].i => InstReq(i, sreq[p])
    /\ (\A p \in SubProc : i \notin sreq[p].i) => InstOk(i)

\* A subnet clear of the tunnels it was compared with and of the other subnets of
\* the catalogue.
Sound(c) == c \in Rows \ unsure /\ "rows" \notin unchecked[c]
Clear(c, skip) ==
  /\ \A i \in Inst \ skip : ~CIDROverlap(NetOf[c], TunnelCidr[i])
  /\ \A d \in Cidr : d # c /\ Sound(d) => ~CIDROverlap(NetOf[c], NetOf[d])
DisjInv ==
  /\ \A c \in Cidr : Sound(c) => Clear(c, unchecked[c])
  /\ \A p \in SubProc : sreq[p].at = "insert" /\ sreq[p].op = "local" =>
       \A c \in sreq[p].c \ unsure : Clear(c, sreq[p].skip)

SubBase == SubTypes /\ Exclusive /\ \A p \in SubProc : Shape(sreq[p])
SubInv == SubBase /\ NatInv /\ MeshInv /\ DisjInv

\* What is in the catalogue is a network.
LEMMA SubNets == \A c \in Cidr : NetOf[c] \in Net
  BY SubnetAssumption DEF Net

\* A request about a subnet is about that subnet.
LEMMA AboutSelf ==
  ASSUME NEW cs \in SUBSET Cidr, NEW is
  PROVE  cs \subseteq About(cs, is) /\ is \subseteq About(cs, is)
<1>1. ASSUME NEW c \in cs PROVE CIDROverlap(NetOf[c], NetOf[c])
  BY SubNets, BaseInside DEF CIDROverlap
<1> QED
  BY <1>1 DEF About

\* What the part of one request may change, and must establish.
SubFrame(p) ==
  /\ restore' = restore /\ unplugged' = unplugged /\ unsure \subseteq unsure'
  /\ \A c \in Cidr : c \notin sreq[p].c => subnet'[c] = subnet[c] /\ (c \in natRule' <=> c \in natRule)
  /\ \A i \in Inst : i \notin sreq[p].i \cup sreq'[p].i =>
       /\ setting'[i] = setting[i] /\ hostNet'[i] = hostNet[i]
       /\ i = "cert" => meshRule' = meshRule
       /\ i = "wg" => overruled' = overruled
  /\ ipForward => ipForward'

\* A request that takes on another subnet or instance either has it alone or
\* leaves it in doubt.
LEMMA SubExclusive ==
  ASSUME SubInv, NEW p \in SubProc, NEW r \in SubReq, sreq' = [sreq EXCEPT ![p] = r],
         restore' = restore, unsure \subseteq unsure',
         Shared(p, About(r.c, r.i) \ On(p)) \subseteq unsure'
  PROVE  Exclusive' /\ \A q \in SubProc : q # p => sreq'[q] = sreq[q] /\ On(q)' = On(q)
<1>1. sreq'[p] = r /\ On(p)' = About(r.c, r.i)
  BY DEF SubInv, SubBase, SubTypes, On
<1>2. \A q \in SubProc : q # p => sreq'[q] = sreq[q] /\ On(q)' = On(q)
  BY DEF SubInv, SubBase, SubTypes, On
<1>3. ASSUME NEW x \in (Cidr \cup Inst) \ unsure', x \in On(p)'
      PROVE  x \notin restore /\ \A q \in SubProc : q # p => x \notin On(q)
  <2>1. CASE x \in On(p)
    BY <1>3, <2>1 DEF SubInv, SubBase, Exclusive
  <2>2. CASE x \notin On(p) /\ x \notin Shared(p, About(r.c, r.i) \ On(p))
    BY <1>1, <1>3, <2>2 DEF Shared
  <2> QED
    BY <1>1, <1>3, <2>1, <2>2
<1>4. \A x \in (Cidr \cup Inst) \ unsure' :
        /\ \A a, b \in SubProc : a # b => x \notin On(a) \/ x \notin On(b)
        /\ x \in restore => \A a \in SubProc : x \notin On(a)
  BY DEF SubInv, SubBase, Exclusive
<1> QED
  BY <1>2, <1>3, <1>4 DEF Exclusive

\* A step of one request keeps the invariant when it keeps what is said of the
\* subnets and the instances it is about.
LEMMA SubStep ==
  ASSUME SubInv, NEW p \in SubProc, NEW r \in SubReq, sreq' = [sreq EXCEPT ![p] = r], SubTypes',
         Shape(r), SubFrame(p),
         Shared(p, About(r.c, r.i) \ On(p)) \subseteq unsure',
         \A c \in Cidr \ unsure' :
           /\ c \in r.c => NatReq(c, r)'
           /\ c \in sreq[p].c /\ c \notin r.c => NatOk(c, subnet[c])',
         \A i \in Inst \ unsure' :
           /\ i \in r.i => InstReq(i, r)'
           /\ i \in sreq[p].i /\ i \notin r.i => InstOk(i)',
         DisjInv'
  PROVE  SubInv'
<1>1. sreq'[p] = r /\ r.c \in SUBSET Cidr /\ r.i \in SUBSET Inst /\ sreq[p] \in SubReq
  BY DEF SubInv, SubBase, SubTypes, SubReq
<1>2. Exclusive' /\ \A q \in SubProc : q # p => sreq'[q] = sreq[q] /\ On(q)' = On(q)
  BY SubExclusive DEF SubFrame
<1>3. \A q \in SubProc : Shape(sreq'[q])
  BY <1>1, <1>2 DEF SubInv, SubBase
<1>4. SubBase'
  BY <1>2, <1>3 DEF SubBase
<1>5. \A q \in SubProc : sreq[q].c \subseteq On(q) /\ sreq[q].i \subseteq On(q) /\ sreq'[q].c \subseteq On(q)'
                          /\ sreq'[q].i \subseteq On(q)'
  <2>1. \A q \in SubProc : sreq[q].c \in SUBSET Cidr /\ sreq'[q].c \in SUBSET Cidr
    BY <1>1, <1>2 DEF SubInv, SubBase, SubTypes, SubReq
  <2> QED
    BY <2>1, AboutSelf DEF On
\* The subnets.
<1>6. ASSUME NEW c \in Cidr \ unsure', c \in sreq[p].c \cup r.c
      PROVE  c \notin restore /\ \A q \in SubProc : q # p => c \notin sreq[q].c
  <2>1. CASE c \in r.c
    BY <1>1, <1>2, <1>5, <2>1 DEF Exclusive, SubFrame
  <2>2. CASE c \in sreq[p].c
    <3>1. c \in On(p) /\ c \notin unsure
      BY <1>5, <1>6, <2>2 DEF SubFrame
    <3> QED
      BY <1>5, <3>1 DEF SubInv, SubBase, Exclusive
  <2> QED
    BY <1>6, <2>1, <2>2
<1>7. NatInv'
  <2> SUFFICES ASSUME NEW c \in Cidr \ unsure'
               PROVE  /\ c \in restore' => subnet'[c] = "masq"
                      /\ \A q \in SubProc : c \in sreq'[q].c => NatReq(c, sreq[q])'
                      /\ (\A q \in SubProc : c \notin sreq'[q].c) => NatOk(c, subnet[c])'
    BY DEF NatInv
  <2>1. c \in Cidr \ unsure
    BY DEF SubFrame
  <2>2. c \in restore' => subnet'[c] = "masq"
    BY <1>6, <2>1 DEF SubInv, NatInv, SubFrame
  <2>3. ASSUME NEW q \in SubProc, c \in sreq'[q].c PROVE NatReq(c, sreq[q])'
    <3>1. CASE q = p
      BY <1>1, <2>3, <3>1 DEF NatReq, NatOk
    <3>2. CASE q # p
      <4>1. c \notin sreq[p].c /\ c \in sreq[q].c /\ sreq'[q] = sreq[q]
        BY <1>2, <1>6, <2>3, <3>2
      <4>2. NatReq(c, sreq[q]) /\ subnet'[c] = subnet[c] /\ (c \in natRule' <=> c \in natRule)
        BY <2>1, <4>1 DEF SubInv, NatInv, SubFrame
      <4> QED
        BY <4>1, <4>2 DEF NatReq, NatOk, SubFrame
    <3> QED
      BY <3>1, <3>2
  <2>4. ASSUME \A q \in SubProc : c \notin sreq'[q].c PROVE NatOk(c, subnet[c])'
    <3>1. CASE c \in sreq[p].c
      BY <1>1, <2>4, <3>1
    <3>2. CASE c \notin sreq[p].c
      <4>1. \A q \in SubProc : c \notin sreq[q].c
        BY <1>2, <2>4, <3>2
      <4>2. NatOk(c, subnet[c]) /\ subnet'[c] = subnet[c] /\ (c \in natRule' <=> c \in natRule)
        BY <2>1, <3>2, <4>1 DEF SubInv, NatInv, SubFrame
      <4> QED
        BY <4>2 DEF NatOk, SubFrame
    <3> QED
      BY <3>1, <3>2
  <2> QED
    BY <2>2, <2>3, <2>4
\* The instances.
<1>8. ASSUME NEW i \in Inst \ unsure', i \in sreq[p].i \cup r.i
      PROVE  i \notin restore /\ \A q \in SubProc : q # p => i \notin sreq[q].i
  <2>1. CASE i \in r.i
    BY <1>1, <1>2, <1>5, <2>1 DEF Exclusive, SubFrame
  <2>2. CASE i \in sreq[p].i
    <3>1. i \in On(p) /\ i \notin unsure
      BY <1>5, <1>8, <2>2 DEF SubFrame
    <3> QED
      BY <1>5, <3>1 DEF SubInv, SubBase, Exclusive
  <2> QED
    BY <1>8, <2>1, <2>2
<1>9. MeshInv'
  <2> SUFFICES ASSUME NEW i \in Inst \ unsure'
               PROVE  /\ i \in restore' => setting'[i].mesh
                      /\ \A q \in SubProc : i \in sreq'[q].i => InstReq(i, sreq[q])'
                      /\ (\A q \in SubProc : i \notin sreq'[q].i) => InstOk(i)'
    BY DEF MeshInv
  <2>1. i \in Inst \ unsure
    BY DEF SubFrame
  <2>2. i \in restore' => setting'[i].mesh
    BY <1>1, <1>8, <2>1 DEF SubInv, MeshInv, SubFrame
  <2>3. ASSUME i \notin sreq[p].i \cup r.i
        PROVE  /\ setting'[i] = setting[i] /\ hostNet'[i] = hostNet[i] /\ (i = "cert" => meshRule' = meshRule)
               /\ i = "wg" => overruled' = overruled
               /\ InstOk(i) => InstOk(i)'
    <3>1. /\ setting'[i] = setting[i] /\ hostNet'[i] = hostNet[i]
          /\ (i = "cert" => meshRule' = meshRule) /\ (i = "wg" => overruled' = overruled)
      BY <1>1, <2>3 DEF SubFrame
    <3> QED
      BY <3>1 DEF InstOk, Agrees, Needs, SubFrame, Inst
  <2>4. ASSUME NEW q \in SubProc, i \in sreq'[q].i PROVE InstReq(i, sreq[q])'
    <3>1. CASE q = p
      BY <1>1, <2>4, <3>1 DEF InstReq, InstOk, Agrees, Applying, Needs
    <3>2. CASE q # p
      <4>1. i \notin sreq[p].i \cup r.i /\ i \in sreq[q].i /\ sreq'[q] = sreq[q]
        BY <1>2, <1>8, <2>4, <3>2
      <4>2. InstReq(i, sreq[q])
        BY <2>1, <4>1 DEF SubInv, MeshInv
      <4> QED
        BY <2>3, <4>1, <4>2 DEF InstReq, InstOk, Agrees, Applying, Needs, SubFrame, Inst
    <3> QED
      BY <3>1, <3>2
  <2>5. ASSUME \A q \in SubProc : i \notin sreq'[q].i PROVE InstOk(i)'
    <3>1. CASE i \in sreq[p].i
      BY <1>1, <2>5, <3>1
    <3>2. CASE i \notin sreq[p].i
      <4>1. \A q \in SubProc : i \notin sreq[q].i
        BY <1>2, <2>5, <3>2
      <4> QED
        BY <1>1, <2>1, <2>3, <2>5, <4>1 DEF SubInv, MeshInv
    <3> QED
      BY <3>1, <3>2
  <2> QED
    BY <2>2, <2>4, <2>5
<1> QED
  BY <1>4, <1>7, <1>9 DEF SubInv

\* Rows that do not grow stay apart.
LEMMA DisjSame ==
  ASSUME SubInv, NEW p \in SubProc, NEW r \in SubReq, sreq' = [sreq EXCEPT ![p] = r],
         unsure \subseteq unsure', unchecked' = unchecked, \A c \in Cidr : Sound(c)' => Sound(c),
         r.at = "insert" /\ r.op = "local" => \A c \in r.c \ unsure' : Clear(c, r.skip)
  PROVE  DisjInv'
<1>1. ASSUME NEW c \in Cidr, NEW skip, Clear(c, skip) PROVE Clear(c, skip)'
  BY <1>1 DEF Clear
<1>2. \A q \in SubProc : sreq'[q] = IF q = p THEN r ELSE sreq[q]
  BY DEF SubInv, SubBase, SubTypes
<1>3. \A q \in SubProc : sreq'[q].c \subseteq Cidr
  BY <1>2 DEF SubInv, SubBase, SubTypes, SubReq
<1>4. ASSUME NEW q \in SubProc, sreq'[q].at = "insert", sreq'[q].op = "local", NEW c \in sreq'[q].c \ unsure'
      PROVE  Clear(c, sreq'[q].skip)
  <2>1. CASE q = p
    BY <1>2, <1>4, <2>1
  <2>2. CASE q # p
    <3>1. sreq[q].at = "insert" /\ sreq[q].op = "local" /\ c \in sreq[q].c \ unsure
      BY <1>2, <1>4, <2>2
    <3> QED
      BY <1>2, <2>2, <3>1 DEF SubInv, DisjInv
  <2> QED
    BY <2>1, <2>2
<1>5. \A c \in Cidr : Sound(c)' => Clear(c, unchecked[c])
  BY DEF SubInv, DisjInv
<1> QED
  BY <1>1, <1>3, <1>4, <1>5 DEF DisjInv

\* A request begins.
LEMMA SubOpens ==
  ASSUME SubInv, NEW p \in SubProc, NEW r \in SubReq, Open(p, r), Shape(r),
         \A c \in r.c : NatOk(c, subnet[c]) => NatReq(c, r),
         \A i \in r.i : InstOk(i) => InstReq(i, r),
         r.at = "insert" /\ r.op = "local" => \A c \in r.c : Clear(c, r.skip)
  PROVE  SubInv'
<1>1. /\ sreq[p].at = "idle" /\ sreq' = [sreq EXCEPT ![p] = r]
      /\ unsure' = unsure \cup Shared(p, About(r.c, r.i))
      /\ UNCHANGED <<subnet, setting, groups, unchecked, natRule, hostNet, meshRule, ipForward, overruled, restore, unplugged>>
  BY DEF Open, Send, subTables, subHost, subRest
<1>2. SubTypes' /\ sreq[p].c = {} /\ sreq[p].i = {} /\ r.c \subseteq Cidr /\ r.i \subseteq Inst
  BY <1>1 DEF SubInv, SubBase, SubTypes, Shape, SubReq
<1>3. SubFrame(p)
  BY <1>1 DEF SubFrame
<1>4. ASSUME NEW c \in Cidr \ unsure', c \in r.c PROVE NatReq(c, r)'
  <2>1. c \in About(r.c, r.i)
    BY <1>2, <1>4, AboutSelf
  <2>2. \A q \in SubProc \ {p} : c \notin On(q)
    BY <1>1, <1>4, <2>1 DEF Shared
  <2>3. \A q \in SubProc \ {p} : c \notin sreq[q].c
    <3>1. \A q \in SubProc : sreq[q].c \in SUBSET Cidr
      BY DEF SubInv, SubBase, SubTypes, SubReq
    <3> QED
      BY <2>2, <3>1, AboutSelf DEF On
  <2>4. NatOk(c, subnet[c])
    BY <1>1, <1>2, <1>4, <2>3 DEF SubInv, NatInv
  <2> QED
    BY <1>1, <1>4, <2>4 DEF NatReq, NatOk
<1>5. ASSUME NEW i \in Inst \ unsure', i \in r.i PROVE InstReq(i, r)'
  <2>1. i \in About(r.c, r.i)
    BY <1>2, <1>5, AboutSelf
  <2>2. \A q \in SubProc \ {p} : i \notin On(q)
    BY <1>1, <1>5, <2>1 DEF Shared
  <2>3. \A q \in SubProc \ {p} : i \notin sreq[q].i
    BY <2>2 DEF On, About
  <2>4. InstOk(i)
    BY <1>1, <1>2, <1>5, <2>3 DEF SubInv, MeshInv
  <2> QED
    BY <1>1, <1>5, <2>4 DEF InstReq, InstOk, Agrees, Applying, Needs
<1>6. DisjInv'
  <2>1. \A c \in Cidr : Sound(c)' => Sound(c)
    BY <1>1 DEF Sound, Rows
  <2> QED
    BY <1>1, <2>1, DisjSame
<1>7. Shared(p, About(r.c, r.i) \ On(p)) \subseteq unsure'
  BY <1>1 DEF Shared
<1> QED
  BY <1>1, <1>2, <1>3, <1>4, <1>5, <1>6, <1>7, SubStep

\* A step of the catalogue: the settings do not change.
LEMMA SubCatalogue ==
  ASSUME SubInv, NEW p \in SubProc, NEW r \in SubReq, sreq' = [sreq EXCEPT ![p] = r], Shape(r),
         UNCHANGED <<setting, groups, hostNet, meshRule, ipForward, overruled, restore, unplugged>>,
         unsure \subseteq unsure', r.c \subseteq sreq[p].c, r.i \subseteq sreq[p].i,
         sreq[p].at \in {"insert", "nat", "mode", "natdel", "drop"},
         r.at \in {"idle", "mode", "drop", "pair"},
         subnet' \in [Cidr -> {"none", "local", "pass", "masq"}], natRule' \subseteq Cidr,
         \A c \in Cidr : c \notin sreq[p].c => subnet'[c] = subnet[c] /\ (c \in natRule' <=> c \in natRule),
         \A c \in Cidr \ unsure' : c \in sreq[p].c /\ NatReq(c, sreq[p]) =>
           /\ c \in r.c => NatReq(c, r)'
           /\ c \notin r.c => NatOk(c, subnet[c])',
         DisjInv'
  PROVE  SubInv'
<1>1. SubTypes'
  BY DEF SubInv, SubBase, SubTypes
<1>2. SubFrame(p)
  BY DEF SubFrame
<1>3. Shared(p, About(r.c, r.i) \ On(p)) \subseteq unsure'
  BY DEF About, On, Shared
<1>4. \A c \in Cidr \ unsure' : c \in sreq[p].c => NatReq(c, sreq[p])
  BY DEF SubInv, NatInv
<1>5. \A c \in Cidr \ unsure' :
        /\ c \in r.c => NatReq(c, r)'
        /\ c \in sreq[p].c /\ c \notin r.c => NatOk(c, subnet[c])'
  BY <1>4
<1>6. ASSUME NEW i \in Inst \ unsure', i \in sreq[p].i
      PROVE  InstOk(i)' /\ InstReq(i, r)'
  <2>1. InstReq(i, sreq[p])
    BY <1>6 DEF SubInv, MeshInv
  <2>2. InstOk(i)
    BY <2>1 DEF InstReq, Applying
  <2> QED
    BY <2>2 DEF InstReq, InstOk, Applying, Agrees, Needs
<1> QED
  BY <1>1, <1>2, <1>3, <1>5, <1>6, SubStep

\* A step of the settings: the catalogue does not change.
LEMMA SubSettings ==
  ASSUME SubInv, NEW p \in SubProc, NEW r \in SubReq, sreq' = [sreq EXCEPT ![p] = r], Shape(r),
         UNCHANGED <<subnet, unchecked, natRule, restore, unplugged>>,
         setting' \in [Inst -> Setting], groups' \in Nat, hostNet' \in [Inst -> Setting],
         meshRule' \in BOOLEAN, ipForward' \in BOOLEAN, ipForward => ipForward',
         unsure \subseteq unsure', r.c \subseteq sreq[p].c,
         r.i \subseteq sreq[p].i \/ (r.i = Inst /\ Shared(p, Inst) \subseteq unsure'),
         sreq[p].at \notin {"idle", "mode", "drop"},
         r.at \notin {"nat", "mode", "drop"}, r.at = "insert" => r.op # "local",
         \A i \in Inst : i \notin sreq[p].i \cup r.i =>
           /\ setting'[i] = setting[i] /\ hostNet'[i] = hostNet[i]
           /\ i = "cert" => meshRule' = meshRule
           /\ i = "wg" => overruled' = overruled,
         \A i \in Inst \ unsure' :
           /\ i \in r.i => InstReq(i, r)'
           /\ i \in sreq[p].i /\ i \notin r.i => InstOk(i)'
  PROVE  SubInv'
<1>1. SubTypes' /\ sreq'[p] = r
  BY DEF SubInv, SubBase, SubTypes
<1>2. SubFrame(p)
  BY <1>1 DEF SubFrame
<1>3. ASSUME NEW c \in Cidr \ unsure', c \in sreq[p].c
      PROVE  NatOk(c, subnet[c])' /\ NatReq(c, r)'
  <2>1. NatReq(c, sreq[p])
    BY <1>3 DEF SubInv, NatInv
  <2> QED
    BY <2>1 DEF NatReq, NatOk
<1>4. DisjInv'
  <2>1. \A c \in Cidr : Sound(c)' => Sound(c)
    BY DEF Sound, Rows
  <2> QED
    BY <2>1, DisjSame
<1>5. Shared(p, About(r.c, r.i) \ On(p)) \subseteq unsure'
  <2>1. About(r.c, r.i) \ On(p) \subseteq r.i \ sreq[p].i
    BY DEF About, On
  <2> QED
    BY <2>1 DEF Shared
<1> QED
  BY <1>1, <1>2, <1>3, <1>4, <1>5, SubStep

\* A finished request is about nothing.
LEMMA NoSubReqIs ==
  /\ NoSubReq \in SubReq /\ NoSubReq.at = "idle" /\ NoSubReq.c = {} /\ NoSubReq.i = {} /\ NoSubReq.on
  /\ NoSubReq.side = "wg" /\ Shape(NoSubReq) /\ Off \in Setting
  BY DEF NoSubReq, SubReq, Shape, Off, Setting, Inst

\* A subnet is to be entered.
LEMMA SubCreateStarts ==
  ASSUME SubInv, NEW p \in SubProc, NEW c \in Cidr, apiSubnetsCreate(p, c)
  PROVE  SubInv'
<1>5. PICK seen \in SUBSET Inst :
        /\ CheckNoOverlap(NetOf[c], Networks(Rows, seen))
        /\ Open(p, [NoSubReq EXCEPT !.at = "insert", !.op = "local", !.c = {c}, !.skip = Inst \ seen])
  BY DEF apiSubnetsCreate
<1>1. PICK r : r = [NoSubReq EXCEPT !.at = "insert", !.op = "local", !.c = {c}, !.skip = Inst \ seen]
  OBVIOUS
<1>2. /\ r \in SubReq /\ r.at = "insert" /\ r.op = "local" /\ r.c = {c} /\ r.i = {} /\ r.on
      /\ r.skip = Inst \ seen
  BY <1>1, NoSubReqIs DEF SubReq
<1>3. Open(p, r)
  BY <1>1, <1>5
<1>4. Clear(c, r.skip)
  <2>1. \A e \in Networks(Rows, seen) : ~CIDROverlap(NetOf[c], e)
    BY <1>5 DEF CheckNoOverlap
  <2> QED
    BY <1>2, <2>1 DEF Networks, Clear, Sound
<1> QED
  BY <1>2, <1>3, <1>4, SubOpens DEF Shape, NatReq

\* The NAT mode of a subnet is to be changed.
LEMMA SubNATStarts ==
  ASSUME SubInv, NEW p \in SubProc, NEW c \in Cidr, NEW mode \in {"pass", "masq"},
         apiSubnetsUpdateNAT(p, c, mode)
  PROVE  SubInv'
<1>1. PICK r : r = [NoSubReq EXCEPT !.at = "nat", !.op = mode, !.c = {c}]
  OBVIOUS
<1>2. r \in SubReq /\ r.at = "nat" /\ r.op = mode /\ r.c = {c} /\ r.i = {}
  BY <1>1, NoSubReqIs DEF SubReq
<1>3. Open(p, r) /\ subnet[c] # "none"
  BY <1>1 DEF apiSubnetsUpdateNAT
<1> QED
  BY <1>2, <1>3, SubOpens DEF Shape, NatReq

\* A subnet is to be deleted: with its rule when it has one.
LEMMA SubDeleteStarts ==
  ASSUME SubInv, NEW p \in SubProc, NEW c \in Cidr, apiSubnetsDelete(p, c)
  PROVE  SubInv'
<1>1. PICK r : r = [NoSubReq EXCEPT !.at = IF subnet[c] = "masq" THEN "natdel" ELSE "drop", !.c = {c}]
  OBVIOUS
<1>2. /\ r \in SubReq /\ r.at \in {"natdel", "drop"} /\ r.c = {c} /\ r.i = {}
      /\ r.at = "drop" => subnet[c] # "masq"
  BY <1>1, NoSubReqIs DEF SubReq
<1>3. Open(p, r)
  BY <1>1 DEF apiSubnetsDelete
<1> QED
  BY <1>2, <1>3, SubOpens DEF Shape, NatReq, NatOk

\* A detection begins, of a subnet or of a mesh.
LEMMA SubDetectStarts ==
  ASSUME SubInv, NEW p \in SubProc, (\E c \in Cidr : DetectSubnet(p, c)) \/ DetectMesh(p)
  PROVE  SubInv'
<1>1. ASSUME NEW c \in Cidr, DetectSubnet(p, c) PROVE SubInv'
  <2>1. PICK r : r = [NoSubReq EXCEPT !.at = "name", !.op = "pass", !.c = {c}, !.i = {"wg"},
                                     !.skip = Inst \cup {"rows"}]
    OBVIOUS
  <2>2. /\ r \in SubReq /\ r.at = "name" /\ r.op = "pass" /\ r.c = {c} /\ r.i = {"wg"} /\ r.on
        /\ "rows" \in r.skip
    BY <2>1, NoSubReqIs DEF SubReq, Inst
  <2>3. Open(p, r)
    BY <1>1, <2>1 DEF DetectSubnet
  <2> QED
    BY <2>2, <2>3, SubOpens DEF Shape, NatReq, InstReq, Applying
<1>2. CASE DetectMesh(p)
  <2>1. PICK r : r = [NoSubReq EXCEPT !.at = "pair", !.op = "pair", !.i = Inst]
    OBVIOUS
  <2>2. r \in SubReq /\ r.at = "pair" /\ r.op = "pair" /\ r.c = {} /\ r.i = Inst /\ r.on
    BY <2>1, NoSubReqIs DEF SubReq
  <2>3. Open(p, r)
    BY <1>2, <2>1 DEF DetectMesh
  <2> QED
    BY <2>2, <2>3, SubOpens DEF Shape, NatReq, InstReq, Applying
<1> QED
  BY <1>1, <1>2

\* Whether the host must forward is asked for when something is turned on; what was
\* on before has asked for it already.
LEMMA SubSettingsStart ==
  ASSUME SubInv, NEW p \in SubProc, NEW i \in Inst, NEW want \in Setting, apiMeshSettingsUpdate(p, i, want)
  PROVE  SubInv'
<1>1. PICK s : s = setting[i]
  OBVIOUS
<1>2. s \in Setting
  BY <1>1 DEF SubInv, SubBase, SubTypes
<1> DEFINE on == (want.mesh /\ ~s.mesh) \/ (want.egress /\ ~s.egress)
<1>3. on \in BOOLEAN
  BY Zenon
<1>4. PICK r : r = [NoSubReq EXCEPT !.at = "save", !.op = "settings", !.i = {i}, !.side = i,
                                   !.on = on, !.want = want, !.prev = s]
  OBVIOUS
<1> HIDE DEF on
<1>5. /\ r \in SubReq /\ r.at = "save" /\ r.op = "settings" /\ r.c = {} /\ r.i = {i} /\ r.side = i
      /\ r.on = on /\ r.want = want /\ r.prev = s
  BY <1>2, <1>3, <1>4, NoSubReqIs DEF SubReq
<1>6. Open(p, r)
  BY <1>1, <1>4 DEF apiMeshSettingsUpdate, on
<1>7. Shape(r)
  BY <1>5 DEF Shape
<1>8. ASSUME InstOk(i) PROVE InstReq(i, r)
  <2>1. Needs(want) => ipForward \/ on
    BY <1>1, <1>8 DEF InstOk, Needs, on
  <2> QED
    BY <1>1, <1>5, <1>8, <2>1 DEF InstReq, Applying
<1> QED
  BY <1>5, <1>6, <1>7, <1>8, SubOpens

\* A call that returns leaves no doubt.
LEMMA SubGo ==
  ASSUME NEW p, NEW r, Go(p, r)
  PROVE  sreq' = [sreq EXCEPT ![p] = r] /\ unsure' = unsure /\ restore' = restore /\ unplugged' = unplugged
  BY DEF Go, Send

\* A call that fails leaves in doubt what it was about.
LEMMA SubTrip ==
  ASSUME NEW p, NEW r, NEW things, Trip(p, r, things)
  PROVE  /\ sreq' = [sreq EXCEPT ![p] = r] /\ unsure' = unsure \cup things
         /\ restore' = restore /\ unplugged' = unplugged
  BY DEF Trip, Send

\* The request a step of the catalogue leads to.
LEMMA SubAt ==
  ASSUME SubInv, NEW p \in SubProc, sreq[p].at \in {"nat", "natdel"}, NEW at \in {"mode", "drop"},
         at = "mode" => sreq[p].at = "nat", NEW r, r = At(p, at)
  PROVE  /\ r \in SubReq /\ r.at = at /\ r.op = sreq[p].op /\ r.c = sreq[p].c /\ r.i = {} /\ sreq[p].i = {}
         /\ Shape(r)
<1>1. sreq[p] \in SubReq /\ Shape(sreq[p])
  BY DEF SubInv, SubBase, SubTypes
<1>2. r \in SubReq /\ r.at = at /\ r.op = sreq[p].op /\ r.c = sreq[p].c /\ r.i = sreq[p].i
  BY <1>1 DEF SubReq, At
<1> QED
  BY <1>1, <1>2 DEF Shape

\* The rule on the host, ahead of the row.
LEMMA SubRule ==
  ASSUME SubInv, NEW p \in SubProc, SubnetNAT(p) \/ DeleteNAT(p)
  PROVE  SubInv'
<1>1. /\ sreq[p] \in SubReq /\ Shape(sreq[p]) /\ sreq[p].at \in {"nat", "natdel"} /\ sreq[p].i = {}
      /\ UNCHANGED <<subnet, setting, groups, unchecked, hostNet, meshRule, ipForward, overruled>> /\ SubTypes
  BY DEF SubInv, SubBase, SubTypes, SubnetNAT, DeleteNAT, subTables, Shape
<1>2. PICK cs : cs = sreq[p].c
  OBVIOUS
<1> DEFINE rule == IF sreq[p].op = "masq" /\ sreq[p].at = "nat" THEN natRule \cup cs ELSE natRule \ cs
\* Every outcome of the two: the rule is set and the request goes on, or ...
<1>3. ASSUME NEW s \in SubReq, s.at \in {"idle", "mode", "drop"}, Shape(s), s.c \subseteq cs, s.i = {},
             s.op = sreq[p].op \/ s.at # "mode",
             sreq' = [sreq EXCEPT ![p] = s], restore' = restore, unplugged' = unplugged, unsure \subseteq unsure',
             natRule' \in {natRule, rule},
             cs \subseteq unsure' \/ (natRule' = rule /\ s.c = cs /\ s.at = "mode" /\ sreq[p].at = "nat")
               \/ (natRule' = rule /\ s.c = cs /\ s.at = "drop" /\ sreq[p].at = "natdel")
               \/ (natRule' = natRule /\ s.at = "idle" /\ sreq[p].at = "nat")
      PROVE  SubInv'
  <2>1. natRule' \subseteq Cidr /\ cs \subseteq Cidr
    BY <1>1, <1>2, <1>3 DEF SubTypes, SubReq
  <2>2. \A c \in Cidr : c \notin cs => (c \in natRule' <=> c \in natRule)
    BY <1>3
  <2>3. DisjInv'
    <3>1. \A c \in Cidr : Sound(c)' => Sound(c)
      BY <1>1, <1>3 DEF Sound, Rows
    <3> QED
      BY <1>1, <1>3, <3>1, DisjSame
  <2>4. ASSUME NEW c \in Cidr \ unsure', c \in cs, NatReq(c, sreq[p])
        PROVE  (c \in s.c => NatReq(c, s)') /\ (c \notin s.c => NatOk(c, subnet[c])')
    <3>1. CASE natRule' = rule /\ s.c = cs /\ s.at = "mode" /\ sreq[p].at = "nat"
      <4>1. s.op = sreq[p].op /\ s.op \in {"pass", "masq"} /\ subnet[c] # "none"
        BY <1>1, <1>3, <2>4, <3>1 DEF Shape, NatReq
      <4>2. c \in natRule' <=> s.op = "masq"
        BY <2>4, <3>1, <4>1
      <4> QED
        BY <1>1, <2>4, <3>1, <4>1, <4>2 DEF NatReq, NatOk
    <3>2. CASE natRule' = rule /\ s.c = cs /\ s.at = "drop" /\ sreq[p].at = "natdel"
      <4>1. c \notin natRule'
        BY <2>4, <3>2
      <4> QED
        BY <2>4, <3>2, <4>1 DEF NatReq
    <3>3. CASE natRule' = natRule /\ s.at = "idle" /\ sreq[p].at = "nat"
      <4>1. s.c = {} /\ NatOk(c, subnet[c])
        BY <1>3, <2>4, <3>3 DEF Shape, NatReq
      <4> QED
        BY <1>1, <1>3, <3>3, <4>1 DEF NatOk
    <3> QED
      BY <1>3, <2>4, <3>1, <3>2, <3>3
  <2> HIDE DEF rule
  <2> QED
    BY <1>1, <1>2, <1>3, <2>1, <2>2, <2>3, <2>4, SubCatalogue DEF SubTypes
<1>4. CASE SubnetNAT(p)
  <2>1. PICK s : s = At(p, "mode")
    OBVIOUS
  <2>2. sreq[p].at = "nat" /\ rule = IF sreq[p].op = "masq" THEN natRule \cup sreq[p].c ELSE natRule \ sreq[p].c
    BY <1>2, <1>4 DEF SubnetNAT
  <2>3. s \in SubReq /\ s.at = "mode" /\ s.op = sreq[p].op /\ s.c = cs /\ s.i = {} /\ Shape(s)
    BY <1>2, <2>1, <2>2, SubAt
  <2> HIDE DEF rule
  <2>4. \/ natRule' = rule /\ Go(p, s)
        \/ natRule' = natRule /\ Trip(p, NoSubReq, {})
        \/ natRule' = natRule /\ Trip(p, s, cs)
        \/ natRule' = rule /\ Trip(p, NoSubReq, cs)
    BY <1>2, <1>4, <2>1, <2>2 DEF SubnetNAT
  <2>5. CASE natRule' = rule /\ Go(p, s)
    BY <1>3, <2>2, <2>3, <2>5, SubGo
  <2>6. CASE natRule' = natRule /\ Trip(p, NoSubReq, {})
    BY <1>3, <2>2, <2>6, SubTrip, NoSubReqIs
  <2>7. CASE natRule' = natRule /\ Trip(p, s, cs)
    BY <1>3, <2>2, <2>3, <2>7, SubTrip
  <2>8. CASE natRule' = rule /\ Trip(p, NoSubReq, cs)
    BY <1>3, <2>2, <2>8, SubTrip, NoSubReqIs
  <2> QED
    BY <2>4, <2>5, <2>6, <2>7, <2>8
<1>5. CASE DeleteNAT(p)
  <2>1. PICK s : s = At(p, "drop")
    OBVIOUS
  <2>2. sreq[p].at = "natdel" /\ rule = natRule \ sreq[p].c
    BY <1>2, <1>5 DEF DeleteNAT
  <2>3. s \in SubReq /\ s.at = "drop" /\ s.c = cs /\ s.i = {} /\ Shape(s)
    BY <1>2, <2>1, <2>2, SubAt
  <2> HIDE DEF rule
  <2>4. \/ natRule' = rule /\ Go(p, s)
        \/ natRule' = natRule /\ Trip(p, s, cs)
    BY <1>2, <1>5, <2>1, <2>2 DEF DeleteNAT
  <2>5. CASE natRule' = rule /\ Go(p, s)
    BY <1>3, <2>2, <2>3, <2>5, SubGo
  <2>6. CASE natRule' = natRule /\ Trip(p, s, cs)
    BY <1>3, <2>2, <2>3, <2>6, SubTrip
  <2> QED
    BY <2>4, <2>5, <2>6
<1> QED
  BY <1>4, <1>5

\* The row of a mode, or of a subnet that goes.
LEMMA SubRow ==
  ASSUME SubInv, NEW p \in SubProc, SetSubnetNATMode(p) \/ DeleteSubnet(p)
  PROVE  SubInv'
<1>1. /\ sreq[p] \in SubReq /\ Shape(sreq[p]) /\ sreq[p].at \in {"mode", "drop"} /\ SubTypes
      /\ UNCHANGED <<setting, groups, natRule, hostNet, meshRule, ipForward, overruled>>
  BY DEF SubInv, SubBase, SubTypes, SetSubnetNATMode, DeleteSubnet, subHost
<1>2. PICK cs : cs = sreq[p].c
  OBVIOUS
<1>3. PICK m : m = IF sreq[p].at = "mode" THEN sreq[p].op ELSE "none"
  OBVIOUS
<1>4. cs \subseteq Cidr /\ m \in {"none", "pass", "masq"}
  BY <1>1, <1>2, <1>3 DEF SubReq, Shape
<1>5. /\ sreq' = [sreq EXCEPT ![p] = NoSubReq] /\ restore' = restore /\ unplugged' = unplugged
      /\ unsure \subseteq unsure'
      /\ unchecked' = unchecked
      /\ \/ subnet' = subnet /\ cs \subseteq unsure'
         \/ subnet' = [c \in Cidr |-> IF c \in cs /\ subnet[c] # "none" THEN m ELSE subnet[c]]
  <2>1. CASE SetSubnetNATMode(p)
    <3>1. m = sreq[p].op
      BY <1>3, <2>1 DEF SetSubnetNATMode
    <3> QED
      BY <1>2, <2>1, <3>1, SubGo, SubTrip DEF SetSubnetNATMode
  <2>2. CASE DeleteSubnet(p)
    <3>1. m = "none"
      BY <1>3, <2>2 DEF DeleteSubnet
    <3>2. CASE /\ subnet' = [c \in Cidr |-> IF c \in sreq[p].c THEN "none" ELSE subnet[c]]
               /\ Go(p, NoSubReq)
      BY <1>2, <2>2, <3>1, <3>2, SubGo DEF DeleteSubnet
    <3>3. CASE UNCHANGED subnet /\ Trip(p, NoSubReq, sreq[p].c)
      BY <1>2, <2>2, <3>3, SubTrip DEF DeleteSubnet
    <3> QED
      BY <2>2, <3>2, <3>3 DEF DeleteSubnet
  <2> QED
    BY <2>1, <2>2
<1>6. /\ subnet' \in [Cidr -> {"none", "local", "pass", "masq"}]
      /\ \A c \in Cidr : c \notin cs => subnet'[c] = subnet[c]
  BY <1>1, <1>4, <1>5 DEF SubTypes
<1>7. DisjInv'
  <2>1. \A c \in Cidr : Sound(c)' => Sound(c)
    BY <1>1, <1>4, <1>5 DEF Sound, Rows, SubTypes
  <2> QED
    BY <1>5, <2>1, DisjSame, NoSubReqIs
<1>8. ASSUME NEW c \in Cidr \ unsure', c \in cs, NatReq(c, sreq[p]) PROVE NatOk(c, subnet[c])'
  <2>1. subnet' = [d \in Cidr |-> IF d \in cs /\ subnet[d] # "none" THEN m ELSE subnet[d]]
    BY <1>5, <1>8
  <2>2. CASE sreq[p].at = "mode"
    <3>1. subnet'[c] = m /\ m = sreq[p].op /\ NatOk(c, sreq[p].op)
      BY <1>3, <1>8, <2>1, <2>2 DEF NatReq
    <3> QED
      BY <1>1, <1>5, <3>1 DEF NatOk
  <2>3. CASE sreq[p].at = "drop"
    <3>1. m = "none" /\ c \notin natRule
      BY <1>3, <1>8, <2>3 DEF NatReq
    <3>2. subnet'[c] = "none"
      BY <1>8, <2>1, <3>1
    <3> QED
      BY <1>1, <3>1, <3>2 DEF NatOk
  <2> QED
    BY <1>1, <2>2, <2>3
<1> QED
  BY <1>1, <1>2, <1>5, <1>6, <1>7, <1>8, SubCatalogue, NoSubReqIs DEF SubTypes

\* A subnet enters the catalogue: nothing that is not in doubt was inserted between
\* the check and the insert.
LEMMA SubInsert ==
  ASSUME SubInv, NEW p \in SubProc, CreateSubnet(p)
  PROVE  SubInv'
<1>1. sreq[p] \in SubReq /\ Shape(sreq[p]) /\ sreq[p].at = "insert" /\ SubTypes
  BY DEF SubInv, SubBase, SubTypes, CreateSubnet
<1>2. PICK cs, op, skip : cs = sreq[p].c /\ op = sreq[p].op /\ skip = sreq[p].skip
  OBVIOUS
<1>3. cs \subseteq Cidr /\ op \in {"local", "pass"}
  BY <1>1, <1>2 DEF SubReq, Shape
<1>4. PICK r : r = IF sreq[p].i # {} /\ sreq[p].c \cap Rows = {} THEN At(p, "pair") ELSE NoSubReq
  OBVIOUS
<1>5. r \in SubReq /\ r.at \in {"idle", "pair"} /\ r.c \subseteq cs /\ r.i \subseteq sreq[p].i /\ Shape(r)
  <2>1. CASE r = NoSubReq
    BY <2>1, NoSubReqIs
  <2>2. CASE r = At(p, "pair")
    <3>1. r \in SubReq /\ r.at = "pair" /\ r.c = cs /\ r.i = sreq[p].i /\ r.on = sreq[p].on
      BY <1>1, <1>2, <2>2 DEF SubReq, At
    <3> QED
      BY <1>1, <3>1 DEF Shape
  <2> QED
    BY <1>4, <2>1, <2>2
<1>6. /\ sreq' = [sreq EXCEPT ![p] = r] /\ unsure' = unsure
      /\ UNCHANGED <<setting, groups, natRule, hostNet, meshRule, ipForward, overruled, restore, unplugged>>
      /\ subnet' = [c \in Cidr |-> IF c \in cs /\ subnet[c] = "none" THEN op ELSE subnet[c]]
      /\ unchecked' = [c \in Cidr |-> IF c \in cs \ Rows THEN skip ELSE unchecked[c]]
  BY <1>2, <1>4, SubGo DEF CreateSubnet, subHost
<1>7. subnet' \in [Cidr -> {"none", "local", "pass", "masq"}]
  BY <1>1, <1>3, <1>6 DEF SubTypes
<1>8. \A c \in Cidr : c \notin cs => subnet'[c] = subnet[c]
  BY <1>6
<1>9. ASSUME NEW c \in Cidr \ unsure', c \in cs, NatReq(c, sreq[p]) PROVE NatOk(c, subnet[c])' /\ NatReq(c, r)'
  <2>1. NatOk(c, subnet[c])
    BY <1>1, <1>9 DEF NatReq
  <2>2. subnet[c] = "masq" <=> subnet'[c] = "masq"
    BY <1>3, <1>6, <1>9
  <2>3. NatOk(c, subnet[c])'
    BY <1>6, <2>1, <2>2 DEF NatOk
  <2> QED
    BY <1>5, <2>3 DEF NatReq
\* A row that is new and counts was checked against all that count.
<1>15. op = "pass" => "rows" \in skip
  BY <1>1, <1>2 DEF Shape
<1>10. ASSUME NEW c \in Cidr, Sound(c)'
       PROVE  \/ Sound(c) /\ unchecked'[c] = unchecked[c]
              \/ c \in cs /\ op = "local" /\ c \notin unsure /\ unchecked'[c] = skip
  BY <1>3, <1>6, <1>10, <1>15 DEF Sound, Rows
<1>11. ASSUME NEW c \in Cidr, Sound(c)' PROVE Clear(c, unchecked'[c])
  <2>1. CASE Sound(c) /\ unchecked'[c] = unchecked[c]
    BY <2>1 DEF SubInv, DisjInv
  <2>2. CASE c \in cs /\ op = "local" /\ c \notin unsure /\ unchecked'[c] = skip
    BY <1>1, <1>2, <2>2 DEF SubInv, DisjInv
  <2> QED
    BY <1>10, <1>11, <2>1, <2>2
<1>12. ASSUME NEW c \in Cidr, Sound(c)' PROVE Clear(c, unchecked[c])'
  <2>1. Clear(c, unchecked'[c])
    BY <1>11, <1>12
  <2>2. ASSUME NEW d \in Cidr, d # c, Sound(d)' PROVE ~CIDROverlap(NetOf[c], NetOf[d])
    <3>1. Clear(d, unchecked'[d])
      BY <1>11, <2>2
    <3>2. CASE Sound(d)
      BY <2>1, <2>2, <3>2 DEF Clear
    <3>3. CASE Sound(c)
      BY <2>2, <3>1, <3>3 DEF Clear, CIDROverlap
    <3>4. CASE c \in cs /\ d \in cs
      BY <1>1, <1>2, <2>2, <3>4 DEF Shape
    <3> QED
      BY <1>10, <1>12, <2>2, <3>2, <3>3, <3>4
  <2> QED
    BY <2>1, <2>2 DEF Clear
<1>13. ASSUME NEW q \in SubProc, sreq'[q].at = "insert", sreq'[q].op = "local", NEW e \in sreq'[q].c \ unsure'
       PROVE  Clear(e, sreq[q].skip)'
  <2>1. sreq'[q] = sreq[q] /\ q # p
    BY <1>1, <1>5, <1>6, <1>13 DEF SubTypes
  <2>2. e \in sreq[q].c \ unsure /\ sreq[q].c \in SUBSET Cidr
    BY <1>1, <1>6, <1>13, <2>1 DEF SubTypes, SubReq
  <2>3. Clear(e, sreq[q].skip) /\ e \in Cidr /\ e \in On(q)
    BY <1>13, <2>1, <2>2, AboutSelf DEF SubInv, DisjInv, On
  <2>4. ASSUME NEW d \in Cidr, d # e, Sound(d)' PROVE ~CIDROverlap(NetOf[e], NetOf[d])
    <3>1. CASE Sound(d)
      BY <2>3, <2>4, <3>1 DEF Clear
    <3>2. CASE d \in cs
      <4>1. e \notin On(p)
        BY <2>1, <2>2, <2>3 DEF SubInv, SubBase, Exclusive
      <4>2. ~CIDROverlap(NetOf[d], NetOf[e])
        BY <1>2, <2>3, <3>2, <4>1 DEF On, About
      <4> QED
        BY <4>2 DEF CIDROverlap
    <3> QED
      BY <1>10, <2>4, <3>1, <3>2
  <2> QED
    BY <2>1, <2>3, <2>4 DEF Clear
<1>14. DisjInv'
  BY <1>12, <1>13 DEF DisjInv
<1> QED
  BY <1>1, <1>2, <1>5, <1>6, <1>7, <1>8, <1>9, <1>14, SubCatalogue DEF SubTypes

\* What the invariant says of the request in hand.
LEMMA SubReqIs ==
  ASSUME SubInv, NEW p \in SubProc
  PROVE  sreq[p] \in SubReq /\ Shape(sreq[p]) /\ SubTypes /\ \A i \in sreq[p].i \ unsure : InstReq(i, sreq[p])
<1>1. sreq[p] \in SubReq /\ Shape(sreq[p]) /\ SubTypes
  BY DEF SubInv, SubBase, SubTypes
<1>2. sreq[p].i \subseteq Inst
  BY <1>1 DEF SubReq
<1> QED
  BY <1>1, <1>2 DEF SubInv, MeshInv

\* The fields a step leaves alone.
LEMMA SubAtIs ==
  ASSUME SubInv, NEW p \in SubProc, NEW r, NEW at \in {"insert", "group", "sysctl", "rule", "provision"}, r = At(p, at)
  PROVE  /\ r \in SubReq /\ r.at = at /\ r.op = sreq[p].op /\ r.c = sreq[p].c /\ r.i = sreq[p].i
         /\ r.side = sreq[p].side /\ r.on = sreq[p].on /\ r.want = sreq[p].want /\ r.prev = sreq[p].prev
         /\ r.skip = sreq[p].skip
  BY SubReqIs DEF SubReq, At

\* Settings that differ in the group only are one to the host.
LEMMA SettingIs ==
  ASSUME NEW s \in Setting, NEW t \in Setting, s.mesh = t.mesh, s.egress = t.egress
  PROVE  [s EXCEPT !.group = 0] = [t EXCEPT !.group = 0] /\ [s EXCEPT !.group = 0] \in Setting
<1>1. [s EXCEPT !.group = 0] = [mesh |-> s.mesh, egress |-> s.egress, group |-> 0]
  BY DEF Setting
<1>2. [t EXCEPT !.group = 0] = [mesh |-> t.mesh, egress |-> t.egress, group |-> 0]
  BY DEF Setting
<1> QED
  BY <1>1, <1>2 DEF Setting

\* The settings of an instance are saved, whether or not the host took them.
LEMMA SubSave ==
  ASSUME SubInv, NEW p \in SubProc, SaveSettings(p)
  PROVE  SubInv'
<1>1. /\ sreq[p].at = "save" /\ UNCHANGED <<subnet, groups, unchecked, natRule, hostNet, meshRule, ipForward, overruled>>
  BY DEF SaveSettings, subHost
<1>2. /\ sreq[p] \in SubReq /\ Shape(sreq[p]) /\ SubTypes /\ \A j \in sreq[p].i \ unsure : InstReq(j, sreq[p])
  BY SubReqIs
<1>3. PICK i, want, prev : i = sreq[p].side /\ want = sreq[p].want /\ prev = sreq[p].prev
  OBVIOUS
<1>4. i \in Inst /\ want \in Setting /\ prev \in Setting /\ sreq[p].i = {i} /\ sreq[p].op = "settings"
  BY <1>1, <1>2, <1>3 DEF SubReq, Shape
<1>5. i \notin unsure => InstOk(i) /\ prev = setting[i] /\ (Needs(want) => ipForward \/ sreq[p].on)
  BY <1>1, <1>2, <1>3, <1>4 DEF InstReq, Applying
<1>6. CASE UNCHANGED setting /\ Trip(p, NoSubReq, {})
  <2>1. i \notin unsure => InstOk(i)'
    BY <1>1, <1>5, <1>6, SubTrip DEF InstOk, Agrees, Needs
  <2> QED
    BY <1>1, <1>2, <1>4, <1>6, <2>1, SubTrip, SubSettings, NoSubReqIs DEF SubTypes
<1>7. CASE SetProviderSettings(i, want.mesh, want.egress) /\ Go(p, At(p, "group"))
  <2>1. PICK r : r = At(p, "group")
    OBVIOUS
  <2>2. /\ r \in SubReq /\ r.at = "group" /\ r.c = sreq[p].c /\ r.i = {i} /\ r.side = i /\ r.on = sreq[p].on
        /\ r.want = want /\ r.prev = prev /\ r.op = "settings"
    BY <1>3, <1>4, <2>1, SubAtIs
  <2>3. /\ setting' \in [Inst -> Setting] /\ setting'[i].mesh = want.mesh /\ setting'[i].egress = want.egress
        /\ \A j \in Inst : j # i => setting'[j] = setting[j]
    BY <1>2, <1>4, <1>7 DEF SetProviderSettings, SubTypes, Setting
  <2>4. sreq' = [sreq EXCEPT ![p] = r] /\ unsure' = unsure /\ restore' = restore /\ unplugged' = unplugged
    BY <1>7, <2>1, SubGo
  <2>5. i \notin unsure => Agrees(i, prev)'
    BY <1>1, <1>5, <2>4 DEF InstOk, Agrees
  <2>6. i \notin unsure' => InstReq(i, r)'
    BY <1>1, <1>5, <2>2, <2>3, <2>4, <2>5 DEF InstReq, Applying, Needs
  <2>7. Shape(r)
    BY <2>2 DEF Shape
  <2> QED
    BY <1>1, <1>2, <1>4, <2>2, <2>3, <2>4, <2>6, <2>7, SubSettings DEF SubTypes
<1> QED
  BY <1>3, <1>6, <1>7 DEF SaveSettings

\* The group of an instance is saved.
LEMMA SubGroup ==
  ASSUME SubInv, NEW p \in SubProc, SaveGroup(p)
  PROVE  SubInv'
<1>1. /\ sreq[p].at = "group" /\ UNCHANGED <<subnet, groups, unchecked, natRule, hostNet, meshRule, ipForward, overruled>>
  BY DEF SaveGroup, subHost
<1>2. /\ sreq[p] \in SubReq /\ Shape(sreq[p]) /\ SubTypes /\ \A j \in sreq[p].i \ unsure : InstReq(j, sreq[p])
  BY SubReqIs
<1>3. PICK i, want, prev : i = sreq[p].side /\ want = sreq[p].want /\ prev = sreq[p].prev
  OBVIOUS
<1>4. i \in Inst /\ want \in Setting /\ prev \in Setting /\ sreq[p].i = {i} /\ sreq[p].op = "settings"
  BY <1>1, <1>2, <1>3 DEF SubReq, Shape
<1>5. i \notin unsure => /\ Agrees(i, prev) /\ setting[i].mesh = want.mesh /\ setting[i].egress = want.egress
                         /\ Needs(setting[i]) => ipForward \/ sreq[p].on
  BY <1>1, <1>2, <1>3, <1>4 DEF InstReq, Applying
<1>6. CASE UNCHANGED setting /\ Trip(p, NoSubReq, sreq[p].i)
  BY <1>1, <1>2, <1>4, <1>6, SubTrip, SubSettings, NoSubReqIs DEF SubTypes
<1> DEFINE changed == want.mesh # prev.mesh \/ want.egress # prev.egress
           at == IF i = "cert" /\ changed THEN "provision"
                 ELSE IF i = "wg" /\ want.egress # prev.egress THEN "networking" ELSE "sysctl"
<1>7. CASE SetProviderGroup({i}, want.group) /\ Go(p, [At(p, at) EXCEPT !.prev = Off])
  <2>1. PICK r : r = [At(p, at) EXCEPT !.prev = Off]
    OBVIOUS
  <2>2. /\ r \in SubReq /\ r.at = at /\ r.c = sreq[p].c /\ r.i = {i} /\ r.side = i /\ r.on = sreq[p].on
        /\ r.want = want /\ r.op = "settings"
    BY <1>2, <1>3, <1>4, <2>1, NoSubReqIs DEF SubReq, At
  <2>3. /\ setting' \in [Inst -> Setting] /\ setting'[i] = [setting[i] EXCEPT !.group = want.group]
        /\ setting'[i].mesh = setting[i].mesh /\ setting'[i].egress = setting[i].egress
        /\ \A j \in Inst : j # i => setting'[j] = setting[j]
    BY <1>2, <1>4, <1>7 DEF SetProviderGroup, SubTypes, Setting
  <2>4. sreq' = [sreq EXCEPT ![p] = r] /\ unsure' = unsure /\ restore' = restore /\ unplugged' = unplugged
    BY <1>7, <2>1, SubGo
  <2>5. i \notin unsure /\ at = "sysctl" => Agrees(i, setting[i])'
    <3>1. CASE i = "wg"
      BY <1>1, <1>5, <2>3, <3>1 DEF Agrees
    <3>2. CASE i = "cert" /\ i \notin unsure /\ at = "sysctl"
      <4>1. want.mesh = prev.mesh /\ want.egress = prev.egress
        BY <3>2
      <4>2. [prev EXCEPT !.group = 0] = [setting'[i] EXCEPT !.group = 0]
        <5>1. PICK t : t = setting'[i]
          OBVIOUS
        <5>2. t \in Setting /\ t.mesh = prev.mesh /\ t.egress = prev.egress
          BY <1>4, <1>5, <2>3, <3>2, <4>1, <5>1
        <5> QED
          BY <1>4, <5>1, <5>2, SettingIs
      <4> QED
        BY <1>1, <1>5, <2>3, <2>4, <3>2, <4>1, <4>2 DEF Agrees
    <3> QED
      BY <1>4, <3>1, <3>2 DEF Inst
  <2>6. i \notin unsure' => InstReq(i, r)'
    <3>1. at \in {"provision", "networking", "sysctl"}
      OBVIOUS
    <3> HIDE DEF at
    <3> QED
      BY <1>1, <1>5, <2>2, <2>3, <2>4, <2>5, <3>1 DEF InstReq, Applying, Needs
  <2>7. Shape(r)
    BY <1>4, <2>2 DEF Shape
  <2>8. r.at \notin {"nat", "mode", "drop", "insert"}
    BY <2>2
  <2> HIDE DEF at, changed
  <2>9. \A j \in Inst \ unsure' :
          /\ j \in r.i => InstReq(j, r)'
          /\ j \in sreq[p].i /\ j \notin r.i => InstOk(j)'
    BY <1>4, <2>2, <2>6
  <2> QED
    BY <1>1, <1>2, <1>4, <2>2, <2>3, <2>4, <2>7, <2>8, <2>9, SubSettings DEF SubTypes
<1> QED
  BY <1>3, <1>4, <1>6, <1>7 DEF SaveGroup

\* wg-family: the host takes the egress that was asked for.
LEMMA SubNetworking ==
  ASSUME SubInv, NEW p \in SubProc, ApplyNetworking(p)
  PROVE  SubInv'
<1>1. /\ sreq[p].at = "networking"
      /\ UNCHANGED <<subnet, setting, groups, unchecked, natRule, meshRule, ipForward>>
  BY DEF ApplyNetworking, subTables
<1>2. /\ sreq[p] \in SubReq /\ Shape(sreq[p]) /\ SubTypes /\ \A j \in sreq[p].i \ unsure : InstReq(j, sreq[p])
  BY SubReqIs
<1>3. PICK e, r : e = sreq[p].want.egress /\ r = At(p, "sysctl")
  OBVIOUS
<1>4. e \in BOOLEAN /\ sreq[p].i = {"wg"} /\ sreq[p].side = "wg" /\ sreq[p].op = "settings"
  BY <1>1, <1>2, <1>3 DEF SubReq, Shape, Setting
<1>5. /\ r \in SubReq /\ r.at = "sysctl" /\ r.c = sreq[p].c /\ r.i = {"wg"} /\ r.side = "wg"
      /\ r.on = sreq[p].on /\ r.op = "settings"
  BY <1>3, <1>4, SubAtIs
<1>6. Shape(r)
  BY <1>5 DEF Shape
<1>7. "wg" \notin unsure => setting["wg"].egress = e /\ (Needs(setting["wg"]) => ipForward \/ r.on)
  BY <1>1, <1>2, <1>3, <1>4, <1>5 DEF InstReq, Applying
<1>8. CASE hostNet' = [hostNet EXCEPT !["wg"].egress = e] /\ overruled' = FALSE /\ Go(p, r)
  <2>1. sreq' = [sreq EXCEPT ![p] = r] /\ unsure' = unsure /\ restore' = restore /\ unplugged' = unplugged
    BY <1>8, SubGo
  <2>2. hostNet' \in [Inst -> Setting] /\ hostNet'["wg"].egress = e /\ \A j \in Inst : j # "wg" => hostNet'[j] = hostNet[j]
    BY <1>2, <1>4, <1>8 DEF SubTypes, Setting, Inst
  <2>3. "wg" \notin unsure' => InstReq("wg", r)'
    BY <1>1, <1>5, <1>7, <2>1, <2>2 DEF InstReq, Applying, Agrees, Needs
  <2> QED
    BY <1>1, <1>2, <1>4, <1>5, <1>6, <2>1, <2>2, <2>3, SubSettings DEF SubTypes
<1>9. CASE UNCHANGED <<hostNet, overruled>> /\ Trip(p, r, {"wg"})
  BY <1>1, <1>2, <1>4, <1>5, <1>6, <1>9, SubTrip, SubSettings DEF SubTypes
<1> QED
  BY <1>3, <1>4, <1>8, <1>9 DEF ApplyNetworking

\* The forwarding button is pressed.
LEMMA SubForwardStarts ==
  ASSUME SubInv, NEW p \in SubProc, apiMeshEnableForwarding(p)
  PROVE  SubInv'
<1>1. PICK r : r = [NoSubReq EXCEPT !.at = "forward", !.op = "settings", !.i = {"wg"}]
  OBVIOUS
<1>2. r \in SubReq /\ r.at = "forward" /\ r.op = "settings" /\ r.c = {} /\ r.i = {"wg"}
  BY <1>1, NoSubReqIs DEF SubReq, Inst
<1>3. Open(p, r)
  BY <1>1 DEF apiMeshEnableForwarding
<1> QED
  BY <1>2, <1>3, SubOpens DEF Shape, NatReq, InstReq, Applying

\* The rules are written without egress, and that is on record.
LEMMA SubForwarding ==
  ASSUME SubInv, NEW p \in SubProc, EnableForwarding(p)
  PROVE  SubInv'
<1>1. /\ sreq[p].at = "forward"
      /\ UNCHANGED <<subnet, setting, groups, unchecked, natRule, meshRule, ipForward>>
  BY DEF EnableForwarding, subTables
<1>2. /\ sreq[p] \in SubReq /\ Shape(sreq[p]) /\ SubTypes /\ \A j \in sreq[p].i \ unsure : InstReq(j, sreq[p])
  BY SubReqIs
<1>3. sreq[p].i = {"wg"} /\ "wg" \in Inst
  BY <1>1, <1>2 DEF Shape, Inst
<1>4. "wg" \notin unsure => InstOk("wg")
  BY <1>1, <1>2, <1>3 DEF InstReq, Applying
<1>5. ASSUME sreq' = [sreq EXCEPT ![p] = NoSubReq], restore' = restore, unplugged' = unplugged,
             unsure \subseteq unsure',
             \/ UNCHANGED <<hostNet, overruled>>
             \/ hostNet' = [hostNet EXCEPT !["wg"].egress = FALSE] /\ overruled' = TRUE
      PROVE  SubInv'
  <2>1. hostNet' \in [Inst -> Setting] /\ \A j \in Inst : j # "wg" => hostNet'[j] = hostNet[j]
    BY <1>2, <1>3, <1>5 DEF SubTypes, Setting
  <2>2. "wg" \notin unsure' => InstOk("wg")'
    BY <1>1, <1>4, <1>5 DEF InstOk, Agrees, Needs
  <2> QED
    BY <1>1, <1>2, <1>3, <1>5, <2>1, <2>2, SubSettings, NoSubReqIs DEF SubTypes
<1> QED
  BY <1>5, SubGo, SubTrip DEF EnableForwarding

\* Cert-based: the settings are read, ...
LEMMA SubProvision ==
  ASSUME SubInv, NEW p \in SubProc, provisionCert(p)
  PROVE  SubInv'
<1>1. /\ sreq[p].at = "provision"
      /\ UNCHANGED <<subnet, setting, groups, unchecked, natRule, hostNet, meshRule, ipForward, overruled>>
  BY DEF provisionCert, subTables, subHost
<1>2. /\ sreq[p] \in SubReq /\ Shape(sreq[p]) /\ SubTypes /\ \A j \in sreq[p].i \ unsure : InstReq(j, sreq[p])
  BY SubReqIs
<1>3. PICK s : s = setting["cert"]
  OBVIOUS
<1>4. PICK r : r = [sreq[p] EXCEPT !.at = "ensure", !.prev = s]
  OBVIOUS
<1>5. s \in Setting
  BY <1>2, <1>3 DEF SubTypes, Inst
<1>6. /\ r \in SubReq /\ r.at = "ensure" /\ r.c = sreq[p].c /\ r.i = sreq[p].i /\ r.side = sreq[p].side
      /\ r.on = sreq[p].on /\ r.op = sreq[p].op /\ r.prev = s
  BY <1>2, <1>4, <1>5 DEF SubReq
<1>7. Shape(r) /\ r.side = "cert"
  BY <1>1, <1>2, <1>6 DEF Shape
<1>8. sreq' = [sreq EXCEPT ![p] = r] /\ unsure' = unsure /\ restore' = restore /\ unplugged' = unplugged
  BY <1>3, <1>4, SubGo DEF provisionCert
<1>9. ASSUME NEW j \in Inst \ unsure', j \in r.i PROVE InstReq(j, r)'
  <2>1. InstReq(j, sreq[p])
    BY <1>2, <1>6, <1>8, <1>9
  <2> QED
    BY <1>1, <1>3, <1>6, <1>7, <1>8, <2>1 DEF InstReq, InstOk, Applying, Agrees, Needs
<1> QED
  BY <1>1, <1>2, <1>6, <1>7, <1>8, <1>9, SubSettings DEF SubTypes

\* ... the server is set up with them, and the rule follows.
LEMMA SubEnsure ==
  ASSUME SubInv, NEW p \in SubProc, EnsureCertServer(p) \/ applyCertMeshForwarding(p)
  PROVE  SubInv'
<1>1. /\ sreq[p].at \in {"ensure", "rule"}
      /\ UNCHANGED <<subnet, setting, groups, unchecked, natRule, ipForward, overruled>>
  BY DEF EnsureCertServer, applyCertMeshForwarding, subTables
<1>2. /\ sreq[p] \in SubReq /\ Shape(sreq[p]) /\ SubTypes /\ \A j \in sreq[p].i \ unsure : InstReq(j, sreq[p])
  BY SubReqIs
<1>3. PICK s : s = sreq[p].prev
  OBVIOUS
<1>4. PICK t : t = [s EXCEPT !.group = 0]
  OBVIOUS
<1>5. s \in Setting /\ t \in Setting /\ s.mesh \in BOOLEAN
  BY <1>2, <1>3, <1>4, SettingIs DEF SubReq, Setting
<1>6. sreq[p].side = "cert" /\ "cert" \in sreq[p].i /\ "cert" \in Inst
  BY <1>1, <1>2 DEF Shape, Inst
<1>7. "cert" \notin unsure => s = setting["cert"] /\ (Needs(setting["cert"]) => ipForward \/ sreq[p].on)
  BY <1>1, <1>2, <1>3, <1>6 DEF InstReq, Applying
\* The cases in which the host follows, or the instance is in doubt.
<1>8. ASSUME NEW r \in SubReq, NEW at \in {"rule", "sysctl"}, r = At(p, at), sreq' = [sreq EXCEPT ![p] = r],
             restore' = restore, unplugged' = unplugged, unsure \subseteq unsure',
             hostNet' \in [Inst -> Setting], hostNet'["wg"] = hostNet["wg"], meshRule' \in BOOLEAN,
             "cert" \notin unsure' =>
               \/ at = "rule" /\ hostNet'["cert"] = t
               \/ at = "sysctl" /\ sreq[p].at = "rule" /\ hostNet' = hostNet /\ meshRule' = s.mesh
      PROVE  SubInv'
  <2>1. /\ r.at = at /\ r.c = sreq[p].c /\ r.i = sreq[p].i /\ r.side = "cert" /\ r.op = sreq[p].op
        /\ r.on = sreq[p].on /\ r.prev = s
    BY <1>3, <1>6, <1>8, SubAtIs
  <2>2. Shape(r)
    BY <1>1, <1>2, <1>8, <2>1 DEF Shape
  <2>3. "cert" \notin unsure' => InstReq("cert", r)'
    <3>1. CASE "cert" \notin unsure' /\ at = "rule" /\ hostNet'["cert"] = t
      BY <1>1, <1>4, <1>7, <1>8, <2>1, <3>1 DEF InstReq, Applying, Needs
    <3>2. CASE "cert" \notin unsure' /\ at = "sysctl" /\ sreq[p].at = "rule" /\ hostNet' = hostNet /\ meshRule' = s.mesh
      <4>1. hostNet["cert"] = [setting["cert"] EXCEPT !.group = 0] /\ s = setting["cert"]
        BY <1>2, <1>6, <1>7, <1>8, <3>2 DEF InstReq
      <4>2. Agrees("cert", setting["cert"])'
        BY <1>1, <1>5, <3>2, <4>1 DEF Agrees
      <4> QED
        BY <1>1, <1>7, <1>8, <2>1, <3>2, <4>2 DEF InstReq, Applying, Needs
    <3> QED
      BY <1>8, <3>1, <3>2
  <2>4. "wg" \notin unsure' /\ "wg" \in r.i => InstReq("wg", r)'
    <3> SUFFICES ASSUME "wg" \notin unsure', "wg" \in r.i PROVE InstReq("wg", r)'
      OBVIOUS
    <3>1. InstOk("wg")
      BY <1>2, <1>6, <1>8, <2>1 DEF InstReq, Applying
    <3>2. InstOk("wg")'
      BY <1>1, <1>8, <3>1 DEF InstOk, Agrees, Needs
    <3> QED
      BY <2>1, <3>2 DEF InstReq, Applying
  <2>5. \A j \in Inst \ unsure' : j \in r.i => InstReq(j, r)'
    BY <2>3, <2>4 DEF Inst
  <2>6. \A j \in Inst : j \notin sreq[p].i \cup r.i => /\ hostNet'[j] = hostNet[j] /\ j # "cert"
    BY <1>6, <1>8 DEF Inst
  <2>7. r.at \notin {"nat", "mode", "drop", "insert"}
    BY <1>8, <2>1
  <2> QED
    BY <1>1, <1>2, <1>8, <2>1, <2>2, <2>5, <2>6, <2>7, SubSettings DEF SubTypes
<1>9. PICK u, v : u = At(p, "rule") /\ v = At(p, "sysctl")
  OBVIOUS
<1>10. u \in SubReq /\ v \in SubReq
  BY <1>9, SubAtIs
<1>11. CASE EnsureCertServer(p)
  <2>1. sreq[p].at = "ensure" /\ meshRule' = meshRule
    BY <1>11 DEF EnsureCertServer
  <2>2. CASE hostNet' = [hostNet EXCEPT !["cert"] = t] /\ Go(p, u)
    BY <1>2, <1>5, <1>8, <1>9, <1>10, <2>1, <2>2, SubGo DEF SubTypes, Inst
  <2>3. CASE hostNet' = hostNet /\ Trip(p, v, {"cert"})
    BY <1>2, <1>8, <1>9, <1>10, <2>1, <2>3, SubTrip DEF SubTypes
  <2> QED
    BY <1>3, <1>4, <1>9, <1>11, <2>2, <2>3 DEF EnsureCertServer
<1>12. CASE applyCertMeshForwarding(p)
  <2>1. sreq[p].at = "rule" /\ hostNet' = hostNet
    BY <1>12 DEF applyCertMeshForwarding
  <2>2. CASE meshRule' = s.mesh /\ Go(p, v)
    BY <1>2, <1>5, <1>8, <1>9, <1>10, <2>1, <2>2, SubGo DEF SubTypes
  <2>3. CASE meshRule' = meshRule /\ Trip(p, v, {"cert"})
    BY <1>2, <1>8, <1>9, <1>10, <2>1, <2>3, SubTrip DEF SubTypes
  <2> QED
    BY <1>3, <1>9, <1>12, <2>2, <2>3 DEF applyCertMeshForwarding
<1> QED
  BY <1>11, <1>12

\* The last step of a side: the host forwards.
LEMMA SubForward ==
  ASSUME SubInv, NEW p \in SubProc, EnsureIPForward(p)
  PROVE  SubInv'
<1>1. /\ sreq[p].at = "sysctl"
      /\ UNCHANGED <<subnet, setting, groups, unchecked, natRule, hostNet, meshRule, overruled>>
  BY DEF EnsureIPForward, subTables
<1>2. /\ sreq[p] \in SubReq /\ Shape(sreq[p]) /\ SubTypes /\ \A j \in sreq[p].i \ unsure : InstReq(j, sreq[p])
  BY SubReqIs
<1>3. PICK r : r = IF sreq[p].op = "pair" /\ sreq[p].side = "wg"
                   THEN [sreq[p] EXCEPT !.at = "side", !.side = "cert"] ELSE NoSubReq
  OBVIOUS
<1>4. /\ r \in SubReq /\ r.at \in {"idle", "side"} /\ r.c \subseteq sreq[p].c /\ r.i \subseteq sreq[p].i /\ Shape(r)
  <2>1. CASE r = NoSubReq
    BY <2>1, NoSubReqIs
  <2>2. CASE sreq[p].op = "pair" /\ r = [sreq[p] EXCEPT !.at = "side", !.side = "cert"]
    <3>1. /\ r \in SubReq /\ r.at = "side" /\ r.c = sreq[p].c /\ r.i = sreq[p].i /\ r.op = "pair"
          /\ r.on = sreq[p].on
      BY <1>2, <2>2 DEF SubReq, Inst
    <3> QED
      BY <1>1, <1>2, <2>2, <3>1 DEF Shape
  <2> QED
    BY <1>3, <2>1, <2>2
<1>5. CASE ipForward' = (ipForward \/ sreq[p].on) /\ Go(p, r)
  <2>1. sreq' = [sreq EXCEPT ![p] = r] /\ unsure' = unsure /\ restore' = restore /\ unplugged' = unplugged
    BY <1>5, SubGo
  <2>2. ipForward' \in BOOLEAN /\ (ipForward => ipForward') /\ (ipForward \/ sreq[p].on => ipForward')
    BY <1>5, Zenon
  <2>3. ASSUME NEW j \in Inst \ unsure', j \in sreq[p].i PROVE InstOk(j)' /\ InstReq(j, r)'
    <3>1. InstReq(j, sreq[p])
      BY <1>2, <2>1, <2>3
    <3>2. Agrees(j, setting[j]) /\ (Needs(setting[j]) => ipForward \/ sreq[p].on)
      BY <1>1, <3>1 DEF InstReq, InstOk, Applying
    <3>3. InstOk(j)'
      BY <1>1, <2>1, <2>2, <3>2 DEF InstOk, Agrees, Needs
    <3> QED
      BY <1>4, <3>3 DEF InstReq, Applying
  <2> QED
    BY <1>1, <1>2, <1>4, <2>1, <2>2, <2>3, SubSettings DEF SubTypes
<1>6. CASE ipForward' = ipForward /\ Trip(p, r, Inst)
  <2>1. /\ sreq' = [sreq EXCEPT ![p] = r] /\ unsure' = unsure \cup Inst /\ restore' = restore /\ unplugged' = unplugged
    BY <1>6, SubTrip
  <2> QED
    BY <1>1, <1>2, <1>4, <1>6, <2>1, SubSettings DEF SubTypes
<1> QED
  BY <1>3, <1>5, <1>6 DEF EnsureIPForward

\* A change of groups is no change to the host.
LEMMA SubGroups ==
  ASSUME SubInv, NEW p \in SubProc, NEW is \in SUBSET Inst, NEW g \in Nat, NEW i \in Inst,
         SetProviderGroup(is, g) \/ UNCHANGED setting,
         UNCHANGED <<hostNet, meshRule, ipForward, overruled, restore, unplugged>>
  PROVE  /\ setting' \in [Inst -> Setting] /\ (InstOk(i) => InstOk(i)')
         /\ i \notin is => setting'[i] = setting[i]
<1>1. SubTypes
  BY SubReqIs
<1>2. CASE UNCHANGED setting
  BY <1>1, <1>2 DEF SubTypes, InstOk, Agrees, Needs
<1>3. CASE SetProviderGroup(is, g)
  <2>1. /\ setting' \in [Inst -> Setting] /\ setting'[i].mesh = setting[i].mesh
        /\ setting'[i].egress = setting[i].egress /\ (i \notin is => setting'[i] = setting[i])
    BY <1>1, <1>3 DEF SetProviderGroup, SubTypes, Setting
  <2>2. PICK s, t : s = setting[i] /\ t = setting'[i]
    OBVIOUS
  <2>3. [s EXCEPT !.group = 0] = [t EXCEPT !.group = 0]
    <3>1. s \in Setting /\ t \in Setting /\ s.mesh = t.mesh /\ s.egress = t.egress
      BY <1>1, <2>1, <2>2 DEF SubTypes
    <3> QED
      BY <3>1, SettingIs
  <2> QED
    BY <2>1, <2>2, <2>3 DEF InstOk, Agrees, Needs, Inst
<1> QED
  BY <1>2, <1>3

\* A detection names the group it puts its instances in.
LEMMA SubName ==
  ASSUME SubInv, NEW p \in SubProc, NameGroup(p)
  PROVE  SubInv'
<1>1. /\ sreq[p].at = "name"
      /\ UNCHANGED <<subnet, unchecked, natRule, hostNet, meshRule, ipForward, overruled>>
  BY DEF NameGroup, subHost
<1>2. /\ sreq[p] \in SubReq /\ Shape(sreq[p]) /\ SubTypes /\ \A j \in sreq[p].i \ unsure : InstReq(j, sreq[p])
  BY SubReqIs
<1>3. PICK r : r = At(p, "insert")
  OBVIOUS
<1>4. /\ r \in SubReq /\ r.at = "insert" /\ r.c = sreq[p].c /\ r.i = sreq[p].i /\ r.op = sreq[p].op /\ r.on = sreq[p].on
      /\ r.skip = sreq[p].skip
  BY <1>3, SubAtIs
<1>5. Shape(r) /\ r.op = "pass" /\ r.i = {"wg"}
  BY <1>1, <1>2, <1>4 DEF Shape
<1>6. sreq' = [sreq EXCEPT ![p] = r] /\ unsure' = unsure /\ restore' = restore /\ unplugged' = unplugged
  BY <1>3, SubGo DEF NameGroup
<1>7. PICK g \in Nat : g = groups + 1
  BY <1>2 DEF SubTypes
<1>8. groups' \in Nat /\ (SetProviderGroup({"wg"}, g) \/ UNCHANGED setting)
  BY <1>2, <1>7 DEF NameGroup, ensureProviderGroup, SubTypes
<1>9. {"wg"} \in SUBSET Inst /\ "wg" \in Inst
  BY DEF Inst
<1>10. /\ setting' \in [Inst -> Setting] /\ (InstOk("wg") => InstOk("wg")')
       /\ \A j \in Inst : j \notin {"wg"} => setting'[j] = setting[j]
  BY <1>1, <1>6, <1>8, <1>9, SubGroups
<1>11. "wg" \notin unsure' => InstReq("wg", r)'
  <2>1. "wg" \notin unsure => InstOk("wg")
    BY <1>1, <1>2, <1>4, <1>5 DEF InstReq, Applying
  <2> QED
    BY <1>4, <1>6, <1>10, <2>1 DEF InstReq, Applying
<1> QED
  BY <1>1, <1>2, <1>4, <1>5, <1>6, <1>8, <1>10, <1>11, SubSettings DEF SubTypes

\* The two instances become the request's; whoever shares them is on record.
LEMMA SubPair ==
  ASSUME SubInv, NEW p \in SubProc, enableMeshPair(p)
  PROVE  SubInv'
<1>1. /\ sreq[p].at = "pair"
      /\ UNCHANGED <<subnet, unchecked, natRule, hostNet, meshRule, ipForward, overruled, restore, unplugged>>
      /\ unsure' = unsure \cup Shared(p, Inst)
  BY DEF enableMeshPair, subHost
<1>2. /\ sreq[p] \in SubReq /\ Shape(sreq[p]) /\ SubTypes /\ \A j \in sreq[p].i \ unsure : InstReq(j, sreq[p])
  BY SubReqIs
<1>3. PICK r : r = [sreq[p] EXCEPT !.at = "side", !.op = "pair", !.i = Inst, !.side = "wg"]
  OBVIOUS
<1>4. r \in SubReq /\ r.at = "side" /\ r.op = "pair" /\ r.i = Inst /\ r.c = sreq[p].c /\ r.on = sreq[p].on
  BY <1>2, <1>3 DEF SubReq, Inst
<1>5. Shape(r) /\ sreq' = [sreq EXCEPT ![p] = r]
  BY <1>1, <1>2, <1>3, <1>4 DEF Shape, enableMeshPair, Send
<1>6. PICK is \in SUBSET Inst, g \in Nat :
        groups' \in Nat /\ (SetProviderGroup(is, g) \/ UNCHANGED setting)
  <2>1. /\ groups \in Nat /\ groups + 1 \in Nat /\ setting["wg"].group \in Nat /\ setting["cert"].group \in Nat
        /\ {"wg"} \in SUBSET Inst /\ {"cert"} \in SUBSET Inst /\ Inst \in SUBSET Inst
    BY <1>2 DEF SubTypes, Setting, Inst
  <2>2. CASE UNCHANGED <<setting, groups>>
    BY <2>1, <2>2
  <2>3. CASE reconcileMeshGroups(p)
    <3> DEFINE a == setting["wg"].group
               b == setting["cert"].group
    <3>1. CASE a = 0 /\ b = 0
      BY <2>1, <2>3, <3>1 DEF reconcileMeshGroups
    <3>2. CASE a = 0 /\ b # 0
      BY <2>1, <2>3, <3>2 DEF reconcileMeshGroups
    <3>3. CASE a # 0 /\ b = 0
      BY <2>1, <2>3, <3>3 DEF reconcileMeshGroups
    <3>4. CASE a # 0 /\ b # 0
      BY <2>1, <2>3, <3>4 DEF reconcileMeshGroups
    <3> QED
      BY <3>1, <3>2, <3>3, <3>4
  <2> QED
    BY <2>2, <2>3 DEF enableMeshPair
<1>7. setting' \in [Inst -> Setting] /\ \A j \in Inst : InstOk(j) => InstOk(j)'
  <2>1. "wg" \in Inst
    BY DEF Inst
  <2> QED
    BY <1>1, <1>6, <2>1, SubGroups
<1>8. ASSUME NEW j \in Inst \ unsure' PROVE InstReq(j, r)'
  <2>1. InstOk(j)
    <3>1. CASE j \in sreq[p].i
      BY <1>1, <1>2, <1>8, <3>1 DEF InstReq, Applying
    <3>2. CASE j \notin sreq[p].i
      <4>1. \A q \in SubProc \ {p} : j \notin On(q)
        BY <1>1, <1>8 DEF Shared
      <4>2. \A q \in SubProc : j \notin sreq[q].i
        BY <3>2, <4>1 DEF On, About
      <4> QED
        BY <1>1, <1>8, <4>2 DEF SubInv, MeshInv
    <3> QED
      BY <3>1, <3>2
  <2> QED
    BY <1>4, <1>7, <2>1 DEF InstReq, Applying
<1> QED
  BY <1>1, <1>2, <1>4, <1>5, <1>6, <1>7, <1>8, SubSettings DEF SubTypes

\* Each side that is off.
LEMMA SubPairSide ==
  ASSUME SubInv, NEW p \in SubProc, PairSide(p)
  PROVE  SubInv'
<1>1. /\ sreq[p].at = "side"
      /\ UNCHANGED <<subnet, setting, groups, unchecked, natRule, hostNet, meshRule, ipForward, overruled>>
  BY DEF PairSide, subTables, subHost
<1>2. /\ sreq[p] \in SubReq /\ Shape(sreq[p]) /\ SubTypes /\ \A j \in sreq[p].i \ unsure : InstReq(j, sreq[p])
  BY SubReqIs
<1>3. PICK i, s : i = sreq[p].side /\ s = setting[i]
  OBVIOUS
<1>4. i \in Inst /\ s \in Setting /\ [s EXCEPT !.mesh = TRUE] \in Setting /\ "cert" \in Inst
  <2>1. i \in Inst /\ s \in Setting
    BY <1>2, <1>3 DEF SubReq, SubTypes
  <2>2. [s EXCEPT !.mesh = TRUE] \in Setting
    BY <2>1 DEF Setting
  <2> QED
    BY <2>1, <2>2 DEF Inst
<1>5. PICK r : r = IF s.mesh THEN IF i = "wg" THEN [sreq[p] EXCEPT !.side = "cert"] ELSE NoSubReq
                   ELSE [sreq[p] EXCEPT !.at = "pairsave", !.want = [s EXCEPT !.mesh = TRUE]]
  OBVIOUS
<1>6. /\ r \in SubReq /\ r.c \subseteq sreq[p].c /\ r.i \subseteq sreq[p].i /\ Shape(r)
      /\ r.at \in {"idle", "side", "pairsave"}
      /\ r.at = "pairsave" => r.side = i /\ r.want.egress = s.egress
  <2>1. CASE r = NoSubReq
    BY <2>1, NoSubReqIs
  <2>2. CASE r = [sreq[p] EXCEPT !.side = "cert"]
    <3>1. r \in SubReq /\ r.at = "side" /\ r.op = sreq[p].op /\ r.i = sreq[p].i /\ r.c = sreq[p].c /\ r.on = sreq[p].on
      BY <1>1, <1>2, <1>4, <2>2 DEF SubReq
    <3> QED
      BY <1>1, <1>2, <3>1 DEF Shape
  <2>3. CASE r = [sreq[p] EXCEPT !.at = "pairsave", !.want = [s EXCEPT !.mesh = TRUE]]
    <3>1. /\ r \in SubReq /\ r.at = "pairsave" /\ r.op = sreq[p].op /\ r.i = sreq[p].i /\ r.c = sreq[p].c
          /\ r.on = sreq[p].on /\ r.side = i /\ r.want = [s EXCEPT !.mesh = TRUE]
      BY <1>2, <1>3, <1>4, <2>3 DEF SubReq
    <3>2. r.want.egress = s.egress
      BY <1>4, <3>1 DEF Setting
    <3> QED
      BY <1>1, <1>2, <3>1, <3>2 DEF Shape
  <2> QED
    BY <1>5, <2>1, <2>2, <2>3
<1>7. sreq' = [sreq EXCEPT ![p] = r] /\ unsure' = unsure /\ restore' = restore /\ unplugged' = unplugged
  BY <1>3, <1>5, SubGo DEF PairSide
<1>8. ASSUME NEW j \in Inst \ unsure', j \in sreq[p].i PROVE InstOk(j)' /\ InstReq(j, r)'
  <2>1. InstOk(j)
    BY <1>1, <1>2, <1>7, <1>8 DEF InstReq, Applying
  <2>2. InstOk(j)'
    BY <1>1, <1>7, <2>1 DEF InstOk, Agrees, Needs
  <2> QED
    BY <1>1, <1>3, <1>6, <2>2 DEF InstReq, Applying
<1> QED
  BY <1>1, <1>2, <1>6, <1>7, <1>8, SubSettings DEF SubTypes

\* The row is written whole; its egress is what it was, if nobody else wrote it.
LEMMA SubPairSave ==
  ASSUME SubInv, NEW p \in SubProc, PairSave(p)
  PROVE  SubInv'
<1>1. /\ sreq[p].at = "pairsave"
      /\ UNCHANGED <<subnet, groups, unchecked, natRule, hostNet, meshRule, ipForward, overruled>>
  BY DEF PairSave, subHost
<1>2. /\ sreq[p] \in SubReq /\ Shape(sreq[p]) /\ SubTypes /\ \A j \in sreq[p].i \ unsure : InstReq(j, sreq[p])
  BY SubReqIs
<1>3. PICK i, e : i = sreq[p].side /\ e = sreq[p].want.egress
  OBVIOUS
<1>4. i \in Inst /\ e \in BOOLEAN /\ sreq[p].i = Inst /\ sreq[p].op = "pair" /\ sreq[p].on
  BY <1>1, <1>2, <1>3 DEF SubReq, Setting, Shape
<1>5. ASSUME NEW j \in Inst \ unsure PROVE InstOk(j)
  BY <1>1, <1>2, <1>4, <1>5 DEF InstReq, Applying
<1>6. CASE UNCHANGED setting /\ Trip(p, NoSubReq, {})
  <2>1. \A j \in Inst \ unsure : InstOk(j)'
    BY <1>1, <1>5, <1>6, SubTrip DEF InstOk, Agrees, Needs
  <2> QED
    BY <1>1, <1>2, <1>4, <1>6, <2>1, SubTrip, SubSettings, NoSubReqIs DEF SubTypes
<1>7. CASE SetProviderSettings(i, TRUE, e) /\ Go(p, At(p, IF i = "cert" THEN "provision" ELSE "sysctl"))
  <2>1. PICK at \in {"provision", "sysctl"} : at = IF i = "cert" THEN "provision" ELSE "sysctl"
    OBVIOUS
  <2>2. PICK r : r = At(p, at)
    OBVIOUS
  <2>3. /\ r \in SubReq /\ r.at = at /\ r.c = sreq[p].c /\ r.i = Inst /\ r.side = i /\ r.on /\ r.op = "pair"
    BY <1>3, <1>4, <2>2, SubAtIs
  <2>4. /\ setting' \in [Inst -> Setting] /\ setting'[i].egress = e
        /\ \A j \in Inst : j # i => setting'[j] = setting[j]
    BY <1>2, <1>4, <1>7 DEF SetProviderSettings, SubTypes, Setting
  <2>5. sreq' = [sreq EXCEPT ![p] = r] /\ unsure' = unsure /\ restore' = restore /\ unplugged' = unplugged
    BY <1>7, <2>1, <2>2, SubGo
  <2>6. Shape(r)
    BY <1>4, <2>1, <2>3 DEF Shape
  <2>7. i \notin unsure /\ i = "wg" => Agrees(i, setting[i])'
    <3> SUFFICES ASSUME i \notin unsure, i = "wg" PROVE Agrees(i, setting[i])'
      OBVIOUS
    <3>1. setting[i].egress = e /\ InstOk(i)
      BY <1>1, <1>2, <1>3, <1>4, <1>5 DEF InstReq
    <3> QED
      BY <1>1, <2>4, <3>1 DEF Agrees, InstOk
  <2>8. ASSUME NEW j \in Inst \ unsure' PROVE InstReq(j, r)'
    <3>1. CASE j = i
      BY <1>4, <2>1, <2>3, <2>5, <2>7, <2>8, <3>1 DEF InstReq, Applying, Inst
    <3>2. CASE j # i
      <4>1. InstOk(j) /\ setting'[j] = setting[j]
        BY <1>5, <2>4, <2>5, <2>8, <3>2
      <4>2. InstOk(j)'
        BY <1>1, <2>5, <4>1 DEF InstOk, Agrees, Needs
      <4> QED
        BY <2>3, <3>2, <4>2 DEF InstReq, Applying
    <3> QED
      BY <3>1, <3>2
  <2> QED
    BY <1>1, <1>2, <1>4, <2>1, <2>3, <2>4, <2>5, <2>6, <2>8, SubSettings DEF SubTypes
<1> QED
  BY <1>3, <1>6, <1>7 DEF PairSave

\* The host loses its rules, which hides none that should not be there.
LEMMA SubHostReboots ==
  ASSUME SubInv, HostLosesRules
  PROVE  SubInv'
<1>1. /\ natRule' = {} /\ meshRule' = FALSE /\ unplugged' = TRUE
      /\ UNCHANGED <<subnet, setting, groups, unchecked, hostNet, ipForward, overruled, restore, sreq, unsure>>
  BY DEF HostLosesRules, subTables
<1>2. SubBase'
  <2>1. \A p \in SubProc : On(p)' = On(p)
    BY <1>1 DEF On
  <2>2. Exclusive'
    BY <1>1, <2>1 DEF SubInv, SubBase, Exclusive
  <2>3. SubTypes' /\ \A p \in SubProc : Shape(sreq'[p])
    BY <1>1 DEF SubInv, SubBase, SubTypes
  <2> QED
    BY <2>2, <2>3 DEF SubBase
<1>3. NatInv'
  BY <1>1 DEF SubInv, NatInv, NatReq, NatOk
<1>4. ASSUME NEW i \in Inst, InstOk(i) PROVE InstOk(i)'
  BY <1>1, <1>4 DEF InstOk, Agrees, Needs
<1>5. ASSUME NEW i \in Inst, NEW p \in SubProc, InstReq(i, sreq[p]) PROVE InstReq(i, sreq[p])'
  BY <1>1, <1>4, <1>5 DEF InstReq, Agrees, Applying, Needs
<1>6. MeshInv'
  BY <1>1, <1>4, <1>5 DEF SubInv, MeshInv
<1>7. ASSUME NEW c \in Cidr, NEW skip PROVE (Sound(c)' <=> Sound(c)) /\ (Clear(c, skip)' <=> Clear(c, skip))
  BY <1>1 DEF Sound, Clear, Rows
<1>8. DisjInv'
  <2>1. \A p \in SubProc : sreq[p].c \subseteq Cidr
    BY DEF SubInv, SubBase, SubTypes, SubReq
  <2> QED
    BY <1>1, <1>7, <2>1 DEF SubInv, DisjInv
<1> QED
  BY <1>2, <1>3, <1>6, <1>8 DEF SubInv

\* The panel restarts: what a request was about is in doubt, the rest is to be
\* put back.
LEMMA SubPanelRestart ==
  ASSUME SubInv, SubnetsRestart
  PROVE  SubInv'
<1>1. /\ sreq' = [p \in SubProc |-> NoSubReq] /\ unsure' = unsure \cup UNION {On(p) : p \in SubProc}
      /\ restore' = {c \in Cidr : subnet[c] = "masq"} \cup (IF setting["cert"].mesh THEN {"cert"} ELSE {})
      /\ unplugged' = FALSE
      /\ UNCHANGED <<subnet, setting, groups, unchecked, natRule, hostNet, meshRule, ipForward, overruled>>
  BY DEF SubnetsRestart, subTables, subHost
<1>2. SubTypes' /\ \A p \in SubProc : sreq'[p] = NoSubReq /\ Shape(sreq'[p])
  BY <1>1, NoSubReqIs DEF SubInv, SubBase, SubTypes
<1>3. \A p \in SubProc : On(p)' = {}
  BY <1>2, NoSubReqIs DEF On, About
<1>4. Exclusive'
  BY <1>3 DEF Exclusive
<1>5. \A q \in SubProc : sreq[q].c \subseteq On(q) /\ sreq[q].i \subseteq On(q)
  <2>1. \A q \in SubProc : sreq[q].c \in SUBSET Cidr
    BY DEF SubInv, SubBase, SubTypes, SubReq
  <2> QED
    BY <2>1, AboutSelf DEF On
<1>6. ASSUME NEW c \in Cidr \ unsure'
      PROVE  (c \in restore' => subnet'[c] = "masq") /\ NatOk(c, subnet[c])'
  <2>1. NatOk(c, subnet[c])
    BY <1>1, <1>5, <1>6 DEF SubInv, NatInv
  <2>2. c \in restore' <=> subnet[c] = "masq"
    BY <1>1, SubnetAssumption DEF Inst
  <2> QED
    BY <1>1, <2>1, <2>2 DEF NatOk
<1>7. NatInv'
  BY <1>2, <1>6, NoSubReqIs DEF NatInv
<1>8. ASSUME NEW i \in Inst \ unsure'
      PROVE  (i \in restore' => setting'[i].mesh) /\ InstOk(i)'
  <2>1. InstOk(i)
    BY <1>1, <1>5, <1>8 DEF SubInv, MeshInv
  <2>2. i \in restore' => i = "cert" /\ setting["cert"].mesh
    BY <1>1, SubnetAssumption DEF Inst
  <2>3. setting["cert"].mesh => "cert" \in restore'
    BY <1>1
  <2>4. CASE i = "wg"
    BY <1>1, <2>1, <2>2, <2>4 DEF InstOk, Agrees, Needs
  <2>5. CASE i = "cert"
    <3>1. hostNet'["cert"] = [setting'["cert"] EXCEPT !.group = 0] /\ (meshRule' => setting'["cert"].mesh)
      BY <1>1, <2>1, <2>5 DEF InstOk, Agrees
    <3>2. Agrees(i, setting[i])'
      BY <1>1, <2>3, <2>5, <3>1 DEF Agrees
    <3> QED
      BY <1>1, <2>1, <2>2, <2>5, <3>2 DEF InstOk, Needs
  <2> QED
    BY <2>4, <2>5 DEF Inst
<1>9. MeshInv'
  BY <1>2, <1>8, NoSubReqIs DEF MeshInv
<1>10. ASSUME NEW c \in Cidr, NEW skip PROVE (Sound(c)' => Sound(c)) /\ (Clear(c, skip) => Clear(c, skip)')
  BY <1>1 DEF Sound, Clear, Rows
<1>11. DisjInv'
  BY <1>1, <1>2, <1>10, NoSubReqIs DEF SubInv, DisjInv
<1> QED
  BY <1>2, <1>4, <1>7, <1>9, <1>11 DEF SubInv, SubBase

\* A worker puts something back, or passes it over, which is on record.
LEMMA SubReapply ==
  ASSUME SubInv, ReapplySubnetNAT \/ ReapplyMeshForwarding
  PROVE  SubInv'
<1>1. PICK xs : /\ restore' = restore \ xs /\ xs \subseteq restore /\ (xs \subseteq Cidr \/ xs = {"cert"})
                /\ UNCHANGED <<subnet, setting, groups, unchecked, hostNet, ipForward, overruled, unplugged, sreq>>
                /\ unsure \subseteq unsure'
                /\ \/ xs \subseteq Cidr /\ natRule' = natRule \cup xs /\ UNCHANGED meshRule
                   \/ xs = {"cert"} /\ meshRule' = TRUE /\ UNCHANGED natRule
                   \/ xs \subseteq unsure' /\ UNCHANGED <<natRule, meshRule>>
  <2>1. CASE ReapplySubnetNAT
    <3>1. PICK cs \in {restore \cap Cidr} \cup {{c} : c \in restore \cap Cidr} :
            /\ cs # {} /\ Restored(cs)
            /\ \/ \E c \in cs : cs = {c} /\ natRule' = natRule \cup {c} /\ UNCHANGED <<meshRule, unsure, subUpsets>>
               \/ Skipped(cs)
      BY <2>1 DEF ReapplySubnetNAT
    <3>2. cs \subseteq restore /\ cs \subseteq Cidr
      BY <3>1
    <3>3. CASE \E c \in cs : cs = {c} /\ natRule' = natRule \cup {c} /\ UNCHANGED <<meshRule, unsure, subUpsets>>
      <4>1. natRule' = natRule \cup cs /\ UNCHANGED <<meshRule, unsure>>
        BY <3>3
      <4> QED
        BY <3>1, <3>2, <4>1 DEF Restored, subTables
    <3>4. CASE Skipped(cs)
      BY <3>1, <3>2, <3>4 DEF Restored, Skipped, subTables
    <3> QED
      BY <3>1, <3>3, <3>4
  <2>2. CASE ReapplyMeshForwarding
    <3>1. PICK xs : xs = {"cert"}
      OBVIOUS
    <3>2. /\ Restored(xs) /\ xs \subseteq restore
          /\ \/ meshRule' = TRUE /\ UNCHANGED <<natRule, unsure, subUpsets>>
             \/ Skipped(xs)
      BY <2>2, <3>1 DEF ReapplyMeshForwarding
    <3> QED
      BY <3>1, <3>2 DEF Restored, Skipped, subTables
  <2> QED
    BY <2>1, <2>2
<1>2. SubBase'
  <2>1. \A p \in SubProc : On(p)' = On(p)
    BY <1>1 DEF On
  <2>2. Exclusive'
    BY <1>1, <2>1 DEF SubInv, SubBase, Exclusive
  <2>3. natRule' \subseteq Cidr /\ meshRule' \in BOOLEAN
    BY <1>1 DEF SubInv, SubBase, SubTypes
  <2>4. SubTypes' /\ \A p \in SubProc : Shape(sreq'[p])
    BY <1>1, <2>3 DEF SubInv, SubBase, SubTypes
  <2> QED
    BY <2>2, <2>4 DEF SubBase
<1>3. \A x \in xs \ unsure : \A p \in SubProc : x \notin sreq[p].c /\ x \notin sreq[p].i
  <2>1. \A q \in SubProc : sreq[q].c \in SUBSET Cidr /\ sreq[q].i \in SUBSET Inst
    BY DEF SubInv, SubBase, SubTypes, SubReq
  <2>2. \A q \in SubProc : sreq[q].c \subseteq On(q) /\ sreq[q].i \subseteq On(q)
    BY <2>1, AboutSelf DEF On
  <2>3. xs \subseteq Cidr \cup Inst
    BY <1>1 DEF Inst
  <2> QED
    BY <1>1, <2>2, <2>3 DEF SubInv, SubBase, Exclusive
<1>4. ASSUME NEW c \in Cidr, c \notin xs PROVE (c \in natRule' <=> c \in natRule) /\ (c \in restore' <=> c \in restore)
  BY <1>1, <1>4
<1>5. NatInv'
  <2>1. ASSUME NEW c \in Cidr \ unsure', c \in xs PROVE subnet[c] = "masq" /\ NatOk(c, subnet[c])'
    <3>1. subnet[c] = "masq"
      BY <1>1, <2>1 DEF SubInv, NatInv
    <3>2. c \in natRule'
      BY <1>1, <2>1, SubnetAssumption DEF Inst
    <3> QED
      BY <1>1, <3>1, <3>2 DEF NatOk
  <2>2. ASSUME NEW c \in Cidr \ unsure, c \notin xs, NEW p \in SubProc, NatReq(c, sreq[p]) PROVE NatReq(c, sreq[p])'
    BY <1>1, <1>4, <2>2 DEF NatReq, NatOk
  <2>3. ASSUME NEW c \in Cidr \ unsure, c \notin xs, NatOk(c, subnet[c]) PROVE NatOk(c, subnet[c])'
    BY <1>1, <1>4, <2>3 DEF NatOk
  <2> QED
    BY <1>1, <1>3, <2>1, <2>2, <2>3 DEF SubInv, NatInv
<1>6. ASSUME NEW i \in Inst \ unsure', i \in xs PROVE setting[i].mesh /\ InstOk(i)'
  <2>1. setting[i].mesh /\ InstOk(i) /\ i = "cert" /\ meshRule' = TRUE
    BY <1>1, <1>3, <1>6, SubnetAssumption DEF SubInv, MeshInv, Inst
  <2> QED
    BY <1>1, <2>1 DEF InstOk, Agrees, Needs
<1>7. ASSUME NEW i \in Inst, i \notin xs PROVE /\ i = "cert" => meshRule' = meshRule
                                             /\ i \in restore' <=> i \in restore
  BY <1>1, <1>7
<1>8. ASSUME NEW i \in Inst \ unsure, i \notin xs, InstOk(i) PROVE InstOk(i)'
  BY <1>1, <1>7, <1>8 DEF InstOk, Agrees, Needs, Inst
<1>9. ASSUME NEW i \in Inst \ unsure, i \notin xs, NEW p \in SubProc, InstReq(i, sreq[p]) PROVE InstReq(i, sreq[p])'
  BY <1>1, <1>7, <1>9 DEF InstReq, InstOk, Agrees, Needs, Applying, Inst
<1>10. MeshInv'
  BY <1>1, <1>3, <1>6, <1>8, <1>9 DEF SubInv, MeshInv
<1>11. ASSUME NEW c \in Cidr, NEW skip PROVE (Sound(c)' => Sound(c)) /\ (Clear(c, skip) => Clear(c, skip)')
  BY <1>1 DEF Sound, Clear, Rows
<1>12. DisjInv'
  <2>1. \A p \in SubProc : sreq[p].c \subseteq Cidr
    BY DEF SubInv, SubBase, SubTypes, SubReq
  <2> QED
    BY <1>1, <1>11, <2>1 DEF SubInv, DisjInv
<1> QED
  BY <1>2, <1>5, <1>10, <1>12 DEF SubInv

\* The invariant holds at the start: at most one subnet, with its rule.
LEMMA SubInvInit == SubnetsInit => SubInv
<1> SUFFICES ASSUME SubnetsInit PROVE SubInv
  OBVIOUS
<1>1. PICK cs \in {{}} \cup {{c} : c \in Cidr}, started \in BOOLEAN :
        /\ \A c \in cs : CheckNoOverlap(NetOf[c], Networks({}, Inst))
        /\ subnet = [c \in Cidr |-> IF c \in cs THEN "masq" ELSE "none"]
        /\ natRule = IF started THEN {} ELSE cs
        /\ restore = IF started THEN cs \cup {"cert"} ELSE {}
        /\ hostNet = [i \in Inst |-> [Off EXCEPT !.mesh = started /\ i = "cert"]]
        /\ ipForward = started
  BY DEF SubnetsInit
<1>2. /\ groups \in {0, 2}
      /\ setting = [i \in Inst |-> [hostNet[i] EXCEPT !.group = IF i = "wg" THEN groups \div 2 ELSE groups]]
      /\ meshRule = FALSE /\ sreq = [p \in SubProc |-> NoSubReq]
      /\ unsure = {} /\ unplugged = FALSE /\ unchecked = [c \in Cidr |-> {}]
  BY DEF SubnetsInit
<1>3. ASSUME NEW i \in Inst
      PROVE  /\ hostNet[i] \in Setting /\ setting[i] \in Setting /\ hostNet[i] = [setting[i] EXCEPT !.group = 0]
             /\ setting[i].egress = FALSE /\ hostNet[i].egress = FALSE
             /\ setting[i].mesh = TRUE <=> started = TRUE /\ i = "cert"
  <2>1. groups \in Nat /\ groups \div 2 \in Nat
    BY <1>2
  <2>2. PICK g \in Nat : g = IF i = "wg" THEN groups \div 2 ELSE groups
    BY <2>1
  <2>3. PICK m \in BOOLEAN : m = (started /\ i = "cert") /\ (m = TRUE <=> started = TRUE /\ i = "cert")
    <3>1. (started /\ i = "cert") \in BOOLEAN
      BY Zenon
    <3>2. (started /\ i = "cert") = TRUE <=> started = TRUE /\ i = "cert"
      BY <1>1, Zenon
    <3> QED
      BY <3>1, <3>2
  <2>4. PICK h, s : h = hostNet[i] /\ s = setting[i]
    OBVIOUS
  <2>5. h = [mesh |-> m, egress |-> FALSE, group |-> 0]
    BY <1>1, <2>3, <2>4 DEF Off
  <2>6. h \in Setting /\ h.mesh = m /\ h.egress = FALSE
    BY <2>3, <2>5 DEF Setting
  <2>7. s = [h EXCEPT !.group = g]
    BY <1>2, <2>2, <2>4
  <2>8. s \in Setting /\ s.mesh = m /\ s.egress = FALSE
    BY <2>6, <2>7 DEF Setting
  <2>9. [s EXCEPT !.group = 0] = [mesh |-> s.mesh, egress |-> s.egress, group |-> 0]
    BY <2>8 DEF Setting
  <2> QED
    BY <2>3, <2>4, <2>5, <2>6, <2>8, <2>9
<1>4. SubTypes
  <2>1. setting \in [Inst -> Setting] /\ groups \in Nat /\ hostNet \in [Inst -> Setting]
    <3> DEFINE s(i) == [hostNet[i] EXCEPT !.group = IF i = "wg" THEN groups \div 2 ELSE groups]
               h(i) == [Off EXCEPT !.mesh = started /\ i = "cert"]
    <3>1. setting = [i \in Inst |-> s(i)] /\ hostNet = [i \in Inst |-> h(i)]
      BY <1>1, <1>2, Zenon
    <3>2. groups \in Nat
      BY <1>2
    <3> HIDE DEF s, h
    <3> QED
      BY <1>3, <3>1, <3>2
  <2>2. natRule \subseteq Cidr /\ ipForward \in BOOLEAN /\ subnet \in [Cidr -> {"none", "local", "pass", "masq"}]
    BY <1>1
  <2> QED
    BY <1>2, <2>1, <2>2, NoSubReqIs DEF SubTypes
<1>5. \A p \in SubProc : sreq[p] = NoSubReq /\ Shape(sreq[p])
  BY <1>2, NoSubReqIs
<1>6. Exclusive
  <2>1. \A p \in SubProc : On(p) = {}
    BY <1>5, NoSubReqIs DEF On, About
  <2> QED
    BY <2>1 DEF Exclusive
<1>7. NatInv
  <2>1. \A c \in Cidr : c \in restore <=> started /\ c \in cs
    BY <1>1, SubnetAssumption DEF Inst
  <2> QED
    BY <1>1, <1>2, <1>5, <2>1, NoSubReqIs DEF NatInv, NatOk
<1>8. MeshInv
  <2>1. ASSUME NEW i \in Inst PROVE InstOk(i) /\ (i \in restore => setting[i].mesh)
    <3>1. i \in restore <=> started = TRUE /\ i = "cert"
      BY <1>1, <1>3, SubnetAssumption DEF Inst
    <3>2. setting[i].mesh \in BOOLEAN /\ setting[i].egress = FALSE
      BY <1>3 DEF Setting
    <3>3. setting[i].mesh => i = "cert" /\ started = TRUE /\ ipForward = TRUE
      BY <1>1, <1>3, <3>2
    <3>4. Agrees(i, setting[i])
      BY <1>2, <1>3, <3>1, <3>2, <3>3 DEF Agrees, Inst
    <3> QED
      BY <1>3, <3>1, <3>2, <3>3, <3>4 DEF InstOk, Needs
  <2> QED
    BY <1>2, <1>5, <2>1, NoSubReqIs DEF MeshInv
\* One subnet at most, and it is clear of the tunnels.
<1>9. DisjInv
  <2>1. ASSUME NEW c \in Cidr, NEW d \in Cidr, Sound(c), Sound(d) PROVE c = d
    BY <1>1, <2>1 DEF Sound, Rows
  <2>2. ASSUME NEW c \in Cidr, Sound(c) PROVE \A i \in Inst : ~CIDROverlap(NetOf[c], TunnelCidr[i])
    BY <1>1, <2>2 DEF Sound, Rows, CheckNoOverlap, Networks
  <2>3. \A p \in SubProc : sreq[p].at # "insert"
    BY <1>5, NoSubReqIs
  <2> QED
    BY <2>1, <2>2, <2>3 DEF DisjInv, Clear
<1> QED
  BY <1>4, <1>5, <1>6, <1>7, <1>8, <1>9 DEF SubInv, SubBase

\* Every step keeps the invariant: one case per action.
LEMMA SubInvNext == SubInv /\ [SubnetsNext]_subVars => SubInv'
<1> SUFFICES ASSUME SubInv, [SubnetsNext]_subVars PROVE SubInv'
  OBVIOUS
<1>1. CASE UNCHANGED subVars
  <2>1. /\ UNCHANGED <<subnet, setting, groups, unchecked, natRule, hostNet, meshRule, ipForward, overruled>>
        /\ UNCHANGED <<restore, unplugged, sreq, unsure>>
    BY <1>1 DEF subVars, subTables, subHost, subRest
  <2>2. \A p \in SubProc : On(p)' = On(p)
    BY <2>1 DEF On
  <2>3. SubBase'
    BY <2>1, <2>2 DEF SubInv, SubBase, SubTypes, Exclusive
  <2>4. NatInv'
    BY <2>1 DEF SubInv, NatInv, NatReq, NatOk
  <2>5. MeshInv'
    BY <2>1 DEF SubInv, MeshInv, InstReq, InstOk, Agrees, Applying, Needs
  <2>6. DisjInv'
    BY <2>1 DEF SubInv, DisjInv, Sound, Clear, Rows
  <2> QED
    BY <2>3, <2>4, <2>5, <2>6 DEF SubInv
<1>2. ASSUME NEW p \in SubProc, NEW c \in Cidr,
             \/ apiSubnetsCreate(p, c) \/ apiSubnetsDelete(p, c) \/ DetectSubnet(p, c)
             \/ \E mode \in {"pass", "masq"} : apiSubnetsUpdateNAT(p, c, mode)
      PROVE  SubInv'
  BY <1>2, SubCreateStarts, SubDeleteStarts, SubDetectStarts, SubNATStarts
<1>3. ASSUME NEW p \in SubProc,
             CreateSubnet(p) \/ SubnetNAT(p) \/ SetSubnetNATMode(p) \/ DeleteNAT(p) \/ DeleteSubnet(p)
      PROVE  SubInv'
  BY <1>3, SubInsert, SubRule, SubRow
<1>4. ASSUME NEW p \in SubProc, NEW i \in Inst, NEW mesh \in BOOLEAN, NEW egress \in BOOLEAN,
             NEW g \in 0..groups,
             apiMeshSettingsUpdate(p, i, [mesh |-> mesh, egress |-> egress, group |-> g])
      PROVE  SubInv'
  <2>1. PICK want : want = [mesh |-> mesh, egress |-> egress, group |-> g]
    OBVIOUS
  <2>2. g \in Nat
    BY DEF SubInv, SubBase, SubTypes
  <2>3. want \in Setting
    BY <2>1, <2>2 DEF Setting
  <2> QED
    BY <1>4, <2>1, <2>3, SubSettingsStart
<1>5. ASSUME NEW p \in SubProc,
             \/ SaveSettings(p) \/ SaveGroup(p) \/ ApplyNetworking(p) \/ provisionCert(p)
             \/ apiMeshEnableForwarding(p) \/ EnableForwarding(p)
             \/ EnsureCertServer(p) \/ applyCertMeshForwarding(p) \/ EnsureIPForward(p)
             \/ NameGroup(p) \/ DetectMesh(p) \/ enableMeshPair(p) \/ PairSide(p) \/ PairSave(p)
      PROVE  SubInv'
  BY <1>5, SubSave, SubGroup, SubNetworking, SubForwardStarts, SubForwarding, SubProvision, SubEnsure, SubForward, SubName,
     SubDetectStarts, SubPair, SubPairSide, SubPairSave
<1>6. CASE HostLosesRules \/ SubnetsRestart \/ ReapplySubnetNAT \/ ReapplyMeshForwarding
  BY <1>6, SubHostReboots, SubPanelRestart, SubReapply
<1> QED
  BY <1>1, <1>2, <1>3, <1>4, <1>5, <1>6 DEF SubnetsNext

\* The invariant behind the three theorems that follow.
LEMMA SubInvariant == SubnetsSpec => []SubInv
  BY SubInvInit, SubInvNext, PTL DEF SubnetsSpec

\* Nothing under way is about what is idle.
LEMMA SubIdle ==
  ASSUME SubInv, NEW x, Idle(x)
  PROVE  x \notin unsure /\ x \notin restore /\ \A p \in SubProc : x \notin sreq[p].c /\ x \notin sreq[p].i
<1>1. \A q \in SubProc : sreq[q].c \in SUBSET Cidr
  BY DEF SubInv, SubBase, SubTypes, SubReq
<1>2. \A q \in SubProc : sreq[q].c \subseteq On(q) /\ sreq[q].i \subseteq On(q)
  BY <1>1, AboutSelf DEF On
<1> QED
  BY <1>2 DEF Idle

\* For any catalogue, any number of requests at a time and any number of failing
\* calls, reboots and restarts: between requests the host masquerades exactly the
\* subnets whose row says so, those in doubt aside.
THEOREM HostMasquerades == SubnetsSpec => []NatAgrees
<1>1. SubInv => NatAgrees
  <2> SUFFICES ASSUME SubInv, ~unplugged, NEW c \in Cidr, Idle(c)
               PROVE  c \in natRule <=> subnet[c] = "masq"
    BY DEF NatAgrees
  <2>1. NatOk(c, subnet[c]) /\ c \notin restore
    BY SubIdle DEF SubInv, NatInv
  <2> QED
    BY <2>1 DEF NatOk
<1> QED
  BY <1>1, SubInvariant, PTL

\* Likewise the host runs with the mesh and egress settings on record, but for the
\* egress that the forwarding button overruled, and forwards when one of them needs
\* it, although the switch asks for it only once.
THEOREM HostMeshes == SubnetsSpec => []MeshApplied
<1>1. SubInv => MeshApplied
  <2> SUFFICES ASSUME SubInv PROVE MeshApplied
    OBVIOUS
  <2>1. \A i \in Inst : Idle(i) => InstOk(i) /\ i \notin restore
    BY SubIdle DEF SubInv, MeshInv
  <2>2. "wg" \in Inst /\ "cert" \in Inst /\ meshRule \in BOOLEAN /\ setting["cert"].mesh \in BOOLEAN
    BY DEF SubInv, SubBase, SubTypes, Setting, Inst
  <2>3. Idle("wg") /\ ~overruled => hostNet["wg"].egress = setting["wg"].egress
    BY <2>1, <2>2 DEF InstOk, Agrees
  <2>4. Idle("cert") => /\ hostNet["cert"] = [setting["cert"] EXCEPT !.group = 0]
                        /\ ~unplugged => meshRule = setting["cert"].mesh
    BY <2>1, <2>2 DEF InstOk, Agrees
  <2>5. \A i \in Inst : Idle(i) /\ (setting[i].mesh \/ setting[i].egress) => ipForward
    BY <2>1 DEF InstOk, Needs
  <2> QED
    BY <2>3, <2>4, <2>5 DEF MeshApplied
<1> QED
  BY <1>1, SubInvariant, PTL

\* For addresses of every width and whichever tunnels were up and read: no address is
\* in two subnets of the catalogue, or in a subnet and a tunnel it was compared with,
\* except for those that a detection added and those of requests that overlapped;
\* CIDROverlap's two comparisons are enough for that.
THEOREM CatalogueDisjoint == SubnetsSpec => []SubnetsDisjoint
<1>1. SubInv => SubnetsDisjoint
  <2> DEFINE sound == {c \in Rows \ unsure : "rows" \notin unchecked[c]}
  <2> SUFFICES ASSUME SubInv, NEW c \in sound, NEW net \in Networks(sound \ {c}, Inst \ unchecked[c])
               PROVE  ~\E x \in AddrSpace : ContainsIP(NetOf[c], x) /\ ContainsIP(net, x)
    BY DEF SubnetsDisjoint
  <2>1. c \in Cidr /\ Clear(c, unchecked[c])
    BY DEF SubInv, DisjInv, Sound, Rows
  <2>2. ~CIDROverlap(NetOf[c], net) /\ net \in Net
    <3>1. ASSUME NEW i \in Inst \ unchecked[c], net = TunnelCidr[i] PROVE ~CIDROverlap(NetOf[c], net) /\ net \in Net
      BY <2>1, <3>1, SubnetAssumption DEF Clear, Net
    <3>2. ASSUME NEW d \in sound \ {c}, net = NetOf[d]
          PROVE  ~CIDROverlap(NetOf[c], net) /\ net \in Net
      <4>1. d \in Cidr /\ d # c /\ Sound(d)
        BY DEF Rows, Sound
      <4> QED
        BY <2>1, <3>2, <4>1, SubNets DEF Clear
    <3> QED
      BY <3>1, <3>2 DEF Networks
  <2>3. NetOf[c] \in Net
    BY <2>1, SubNets
  <2> QED
    BY <2>2, <2>3, OverlapExact
<1> QED
  BY <1>1, SubInvariant, PTL

=============================================================================
