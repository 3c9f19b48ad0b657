---------------------------- MODULE SeqNumProofs ----------------------------
(***************************************************************************)
(* Facts about circular sequence arithmetic, for every width of the type.  *)
(***************************************************************************)
EXTENDS SeqNum, TLAPS

\* Moving a sequence number by at most the size of the space stays in it.
LEMMA AddType ==
  ASSUME NEW a \in SeqNums, NEW n \in Int, -SeqSpace <= n, n <= SeqSpace
  PROVE  Add(a, n) \in SeqNums
BY HalfSpaceAssumption DEF Add, Wrap, SeqNums, SeqSpace

\* The unsigned difference of two sequence numbers is in the space.
LEMMA GapType ==
  ASSUME NEW a \in SeqNums, NEW b \in SeqNums
  PROVE  Gap(a, b) \in SeqNums
BY HalfSpaceAssumption DEF Gap, Wrap, SeqNums, SeqSpace

\* Going ahead by the gap to b arrives at b, and a gap undoes a move.
LEMMA AddGap ==
  ASSUME NEW a \in SeqNums, NEW b \in SeqNums
  PROVE  Add(a, Gap(a, b)) = b
BY HalfSpaceAssumption DEF Add, Gap, Wrap, SeqNums, SeqSpace

LEMMA GapAdd ==
  ASSUME NEW a \in SeqNums, NEW n \in SeqNums
  PROVE  Gap(a, Add(a, n)) = n
BY HalfSpaceAssumption DEF Add, Gap, Wrap, SeqNums, SeqSpace

\* When the cursor moves by n, what lay at least n ahead comes n closer.
LEMMA GapMoved ==
  ASSUME NEW a \in SeqNums, NEW b \in SeqNums, NEW n \in SeqNums, n <= Gap(a, b)
  PROVE  Gap(Add(a, n), b) = Gap(a, b) - n
BY HalfSpaceAssumption DEF Add, Gap, Wrap, SeqNums, SeqSpace

\* Of two different numbers at least one order holds; both do at the antipode
\* only.
THEOREM LessTotal ==
  ASSUME NEW a \in SeqNums, NEW b \in SeqNums
  PROVE  /\ a # b => Less(a, b) \/ Less(b, a)
         /\ Less(a, b) /\ Less(b, a) <=> Gap(a, b) = HalfSpace
BY HalfSpaceAssumption DEF Less, Gap, Wrap, SeqNums, SeqSpace

\* A number that is not before the cursor is less than half a space ahead.
LEMMA NotBefore ==
  ASSUME NEW a \in SeqNums, NEW b \in SeqNums, ~Less(b, a)
  PROVE  Gap(a, b) < HalfSpace
BY HalfSpaceAssumption DEF Less, Gap, Wrap, SeqNums, SeqSpace

\* The newest sequence h of a window that starts at the cursor d and spans at
\* most half the space, after a sequence s at or ahead of the cursor: the
\* window keeps that bound, contains s and all it contained.
LEMMA WindowGrows ==
  ASSUME NEW d \in SeqNums, NEW h \in SeqNums, NEW s \in SeqNums,
         Gap(d, Add(h, 1)) <= HalfSpace, ~Less(s, d),
         NEW g, g = (IF Less(h, s) THEN s ELSE h)
  PROVE  /\ Gap(d, Add(g, 1)) <= HalfSpace
         /\ Gap(d, s) < Gap(d, Add(g, 1))
         /\ Gap(d, Add(h, 1)) <= Gap(d, Add(g, 1))
BY HalfSpaceAssumption DEF Less, Add, Gap, Wrap, SeqNums, SeqSpace

\* Quotient and remainder are unique.
LEMMA ModUnique ==
  ASSUME NEW m \in Nat, m > 0, NEW q \in Int, NEW r \in 0 .. m - 1,
         NEW x \in Int, x = q * m + r
  PROVE  x % m = r
<1>1. x % m \in 0 .. m - 1 /\ x = m * (x \div m) + (x % m) /\ x \div m \in Int
  BY Z3
<1> DEFINE d == q - (x \div m)
<1>2. d \in Int /\ m * d = (x % m) - r
  BY <1>1, Z3
<1>3. CASE d >= 1
  <2>1. m * d >= m BY <1>2, <1>3, Z3
  <2> QED BY <2>1, <1>1, <1>2
<1>4. CASE d <= -1
  <2>1. m * d <= -m BY <1>2, <1>4, Z3
  <2> QED BY <2>1, <1>1, <1>2
<1>5. CASE d = 0
  BY <1>1, <1>2, <1>5
<1> QED BY <1>2, <1>3, <1>4, <1>5

\* The unsigned type counts modulo the size of its space.
THEOREM AddMod ==
  ASSUME NEW x \in Nat, NEW n \in Nat, n <= SeqSpace
  PROVE  Add(x % SeqSpace, n) = (x + n) % SeqSpace
<1> DEFINE q == x \div SeqSpace
           r == x % SeqSpace
<1>1. SeqSpace \in Nat /\ SeqSpace > 0
  BY HalfSpaceAssumption DEF SeqSpace
<1>2. q \in Int /\ r \in 0 .. SeqSpace - 1 /\ x = q * SeqSpace + r
  BY <1>1, Z3
<1> HIDE DEF q, r
<1>3. CASE r + n < SeqSpace
  <2>1. x + n = q * SeqSpace + (r + n) /\ r + n \in 0 .. SeqSpace - 1
    BY <1>1, <1>2, <1>3
  <2>2. (x + n) % SeqSpace = r + n
    BY <1>1, <1>2, <2>1, ModUnique
  <2> QED BY <1>1, <1>2, <1>3, <2>2 DEF Add, Wrap, r
<1>4. CASE r + n >= SeqSpace
  <2> DEFINE s == r + n - SeqSpace
  <2>1. x + n = (q + 1) * SeqSpace + s /\ s \in 0 .. SeqSpace - 1
    BY <1>1, <1>2, <1>4
  <2>2. x + n \in Int /\ q + 1 \in Int
    BY <1>2
  <2> HIDE DEF s
  <2>3. (x + n) % SeqSpace = s
    BY <1>1, <2>1, <2>2, ModUnique
  <2> QED BY <1>1, <1>2, <1>4, <2>3 DEF Add, Wrap, r, s
<1> QED BY <1>1, <1>2, <1>3, <1>4

=============================================================================
