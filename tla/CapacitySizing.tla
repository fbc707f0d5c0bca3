--------------------------- MODULE CapacitySizing ---------------------------
(***************************************************************************)
(* The numeric helpers of Base_Gen (src/utils/base.py) the profile        *)
(* builders share: next_greatest_power_of_2, the pieces of                *)
(* validate_full_level, the resolution of an address distribution         *)
(* (get_random) and Python 2 rounding.  validate_full_level contains a    *)
(* loop that need not end, so the builders model its iterations as steps  *)
(* of their own and take from here only the body of each part.            *)
(***************************************************************************)
EXTENDS Integers

(* int.bit_length(): the number of bits of |n|, 0 for 0. *)
RECURSIVE BitLength(_)
BitLength(n) ==
  IF n < 0 THEN BitLength(-n)
  ELSE IF n = 0 THEN 0 ELSE 1 + BitLength(n \div 2)

(* next_greatest_power_of_2(x) == 2**(x-1).bit_length() *)
NextGreatestPowerOf2(x) == 2 ^ BitLength(x - 1)

(* 10^12 = 2^12 * 5^12 does not fit TLC's integers, so the reduction of *)
(* rate / 10^12 to lowest terms is computed as what it is: the rate with *)
(* up to twelve factors 2 and up to twelve factors 5 divided out.        *)
PicoExponent == 12

RECURSIVE DivideOut(_, _, _)
DivideOut(n, p, k) ==
  IF k > 0 /\ n % p = 0 THEN DivideOut(n \div p, p, k - 1) ELSE n

(* Fraction(str(rate) + "/1000000000000").numerator: the numerator of the  *)
(* fraction in lowest terms, 0 for a zero rate.                            *)
RateNumerator(rate) ==
  IF rate = 0 THEN 0
  ELSE DivideOut(DivideOut(rate, 2, PicoExponent), 5, PicoExponent)

(* One iteration of 'while next_full_level < size'. *)
SizingLoopsInclusive(next, size) == next <= size

SizingLoops(next, size) == next < size

SizingStepSquare(next) == next * next

SizingStep(next) == next + next

(* return max(current_full_level, next_full_level) *)
SizingResultNext(current, next) == next

SizingResult(current, next) == IF current >= next THEN current ELSE next

(* Python 2 round() of the non-negative rational num/den: halves away from *)
(* zero.                                                                   *)
Round(num, den) == (2 * num + den) \div (2 * den)

(* The address distribution kinds get_random returns for an address, and  *)
(* the addressing types the UI offers (choose_address_options writes the  *)
(* base and increment keys for LINEAR and a '_random_type' key for every  *)
(* other type).                                                            *)
AddressTypes == {"LINEAR", "UNIFORM", "NORMAL", "POISSON", "WEIBULL"}

(* get_random(prefix, "address", ...): linear when no random type key is  *)
(* present, the named distribution otherwise.                              *)
AddressKindRaw(addressing_type) == addressing_type

AddressKind(addressing_type) ==
  IF addressing_type = "LINEAR" THEN "linear" ELSE addressing_type

(* The kinds get_random can return for an address. *)
AddressKinds == {"linear"} \cup (AddressTypes \ {"LINEAR"})

(* The sizing rule of validate_full_level as the specification states it *)
(* (section 4.2): the least threshold of the form numerator * 2^k that is *)
(* at least the burst size, 0 for a zero rate, and the larger of it and   *)
(* the candidate.                                                          *)
SpecValidateFullLevel(rate, size, candidate) ==
  LET n == RateNumerator(rate)
      thresholds == { n * 2 ^ k : k \in 0..BitLength(size) }
      threshold ==
        IF n = 0 THEN 0
        ELSE CHOOSE t \in thresholds :
               t >= size /\ \A u \in thresholds : u >= size => t <= u
  IN IF candidate >= threshold THEN candidate ELSE threshold

=============================================================================
