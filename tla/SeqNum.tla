------------------------------- MODULE SeqNum -------------------------------
(***************************************************************************)
(* Circular sequence arithmetic (internal/seq).  A sequence number is an   *)
(* unsigned integer of fixed width; the width is the parameter HalfSpace,  *)
(* half the size of the space (2^15 for Num16, 2^31 for Num32).            *)
(***************************************************************************)
EXTENDS Integers

CONSTANT HalfSpace      \* half[T](): 2^(width - 1)

ASSUME HalfSpaceAssumption == HalfSpace \in Nat /\ HalfSpace >= 2

SeqSpace == 2 * HalfSpace
SeqNums  == 0 .. (SeqSpace - 1)

\* One wrap of x back into the space: x is a sequence number moved by at most
\* the size of the space in either direction.
Wrap(x) == IF x >= SeqSpace THEN x - SeqSpace
           ELSE IF x < 0 THEN x + SeqSpace ELSE x

\* Mutant: a wider type, which does not wrap.
AddWide(a, n) == a + n

\* a + n and a - n of the unsigned type.
Add(a, n) == Wrap(a + n)

\* b - a of the unsigned type: how far b lies ahead of a.
Gap(a, b) == Wrap(b - a)

\* Signed shortest distance from a to b, +half at the antipode.
Distance(a, b) == IF Gap(a, b) <= HalfSpace THEN Gap(a, b)
                  ELSE Gap(a, b) - SeqSpace

\* a is circularly before b.  At the antipode both orders hold.
Less(a, b) == Gap(a, b) # 0 /\ Gap(a, b) <= HalfSpace

Compare(a, b) == IF a = b THEN 0 ELSE IF Less(a, b) THEN -1 ELSE 1

\* Whether the gap from a to b may be read as loss rather than reordering.
ForwardGap(a, b) == [gap |-> Gap(a, b), forward |-> Gap(a, b) <= HalfSpace]

=============================================================================
