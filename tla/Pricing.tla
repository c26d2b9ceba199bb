------------------------------ MODULE Pricing ------------------------------
(***************************************************************************)
(* What a student pays for an advertised price, what of it is the          *)
(* expert's, and what a student who cancels gets back                      *)
(* (utils/bookingPrice.ts), in cents, at the rates an admin has set.       *)
(***************************************************************************)
EXTENDS Integers

CONSTANT Rates   \* commission, studentFee and tax in percent; cap and free in cents

ASSUME RatesAssumption ==
    /\ {Rates.commission, Rates.studentFee, Rates.tax} \subseteq 0..100
    /\ {Rates.cap, Rates.free} \subseteq Nat

(* Math.round(x / y): half a cent goes up. *)
Rounded(x, y) == (2 * x + y) \div (2 * y)

PlatformFee(advertised) ==
    LET fee == Rounded(advertised * Rates.studentFee, 100) IN
    IF advertised = 0 THEN Rates.free ELSE IF fee < Rates.cap THEN fee ELSE Rates.cap

Tax(advertised) == Rounded((advertised + PlatformFee(advertised)) * Rates.tax, 100)

(* computeSessionCharge *)
ChargeCents(advertised) == advertised + PlatformFee(advertised) + Tax(advertised)
ExpertNet(advertised) == advertised - Rounded(advertised * Rates.commission, 100)

CancellationRules == {"full", "keep_platform_fee", "processing_fee"}

(* voluntaryCancellationRefundCents: the charge without the 2.9 percent    *)
(* and the 30 cents that Stripe keeps.                                     *)
LessProcessingFee(cents) ==
    LET left == cents - Rounded(29 * cents, 1000) - 30 IN
    IF left > 0 THEN left ELSE 0

CancellationRefund(rule, advertised) ==
    CASE rule = "full" -> ChargeCents(advertised)
      [] rule = "keep_platform_fee" -> advertised + Tax(advertised)
      [] rule = "processing_fee" -> LessProcessingFee(ChargeCents(advertised))
=============================================================================
