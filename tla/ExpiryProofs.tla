---------------------------- MODULE ExpiryProofs ----------------------------
(***************************************************************************)
(* Facts about the bands and the day counts of Expiry, for the proofs of   *)
(* the monitors that decide by them.                                       *)
(***************************************************************************)
EXTENDS Expiry, WellFoundedInduction, TLAPS

(* A non-empty set of naturals has a smallest element, so a band that is   *)
(* not 0 is one of the thresholds and at least the days.                   *)
LEMMA SmallestIsOne ==
  ASSUME NEW S, S \subseteq Nat, S # {}
  PROVE  Smallest(S) \in S
<1> DEFINE R == OpToRel(<, Nat)
<1>0. \A x, y \in Nat : x < y => <<x, y>> \in R
  BY Zenon DEF OpToRel
<1>1. PICK m \in S : \A y \in S : ~(<<y, m>> \in R)
  BY NatLessThanWellFounded, WFMin
<1>2. ASSUME NEW y \in S PROVE m <= y
  <2>1. y \in Nat /\ m \in Nat
    OBVIOUS
  <2>2. ~(<<y, m>> \in R)
    BY Zenon, <1>1, <1>2
  <2>3. ~(y < m)
    BY Zenon, <1>0, <2>1, <2>2
  <2> QED BY <2>1, <2>3
<1> QED BY <1>2 DEF Smallest

LEMMA MultiplyMonotone ==
  ASSUME NEW a \in Int, NEW b \in Int, a <= b, NEW k \in Nat
  PROVE  a * k <= b * k
OBVIOUS

LEMMA BandIsCrossed ==
  ASSUME NEW days \in Int, NEW T, T \subseteq Nat, Band(days, T) # 0
  PROVE  Band(days, T) \in T /\ days <= Band(days, T)
<1>1. Crossed(days, T) # {} /\ Crossed(days, T) \subseteq Nat
  BY DEF Band, Crossed
<1>2. Smallest(Crossed(days, T)) \in Crossed(days, T)
  BY <1>1, SmallestIsOne
<1> QED BY <1>1, <1>2 DEF Band, Crossed

LEMMA BandIsNat ==
  ASSUME NEW days \in Int, NEW T, T \subseteq Nat
  PROVE  Band(days, T) \in Nat
<1>1. CASE Band(days, T) = 0
  BY <1>1
<1>2. CASE Band(days, T) # 0
  BY <1>2, BandIsCrossed
<1> QED BY <1>1, <1>2

LEMMA WholeDaysInt ==
  ASSUME NEW left \in Int, NEW day \in Nat \ {0}
  PROVE  WholeDays(left, day) \in Int
BY DEF WholeDays

(* With at most n whole days left, fewer than n + 1 days are.              *)
LEMMA WholeDaysBound ==
  ASSUME NEW left \in Nat, NEW n \in Nat, NEW day \in Nat \ {0},
         WholeDays(left, day) <= n
  PROVE  left < (n + 1) * day
<1> DEFINE q == left \div day
<1>1. q \in Int /\ q <= n /\ left < (q + 1) * day
  BY SMT DEF WholeDays
<1>2. (q + 1) * day <= (n + 1) * day
  BY <1>1, MultiplyMonotone
<1> QED BY <1>1, <1>2
=============================================================================
