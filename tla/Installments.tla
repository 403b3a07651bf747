---------------------------- MODULE Installments ----------------------------
(***************************************************************************)
(* calculateInstallments: the amortisation table of a purchase paid in      *)
(* equal installments.  One step per period of the Array.from loop.  Money  *)
(* is in cents; the monthly rate is the fraction rate / Scale.  The code    *)
(* computes the payment in floating point, here it is exact.                *)
(***************************************************************************)
EXTENDS Integers

CONSTANTS
  Principals,  \* amounts to finance, in cents
  Counts,      \* numbers of installments (the service accepts 2 .. 120)
  Rates,       \* monthly rates, in units of 1 / Scale
  Scale

ASSUME InstallmentsAssumption ==
  /\ Principals \subseteq Nat
  /\ Counts \subseteq Nat \ {0}
  /\ Rates \subseteq Nat
  /\ Scale \in Nat \ {0}

VARIABLES
  principal, count, rate,  \* the arguments
  sequence,    \* installments computed so far
  remaining,   \* remainingCents
  repaid,      \* principal of the installments computed so far
  charged,     \* amounts of the installments computed so far: financedTotal
  amount       \* amountCents of the last one

tableVars == <<principal, count, rate, sequence, remaining, repaid, charged, amount>>

(* Math.round of the fraction a / b, for a >= 0 and b > 0 *)
RoundedDiv(a, b) == (2 * a + b) \div (2 * b)
SmallerOf(a, b) == IF a <= b THEN a ELSE b

(* the payment that repays p in n periods, before the table is laid out *)
RegularPayment(p, n, r) ==
  IF r = 0 THEN RoundedDiv(p, n)
  ELSE LET growth == (Scale + r) ^ n
       IN  RoundedDiv(p * r * growth, Scale * (growth - Scale ^ n))

(* what a power is, which the provers do not know of: TLC evaluates it for the *)
(* constants of every run                                                      *)
ASSUME PowersAssumption ==
  \A r \in Rates, n \in Counts : \A base \in {Scale, Scale + r} :
    base ^ 0 = 1 /\ \A k \in 0 .. n - 1 : base ^ (k + 1) = base * base ^ k

PeriodInterest == RoundedDiv(remaining * rate, Scale)

(* mutant: the last installment is a regular one, the residue is lost *)
PrincipalForPeriod_NoResidue ==
  SmallerOf(remaining, RegularPayment(principal, count, rate) - PeriodInterest)

(* the last installment absorbs the residue of the capital *)
PrincipalForPeriod ==
  IF sequence = count - 1 THEN remaining
  ELSE SmallerOf(remaining, RegularPayment(principal, count, rate) - PeriodInterest)

TableInit ==
  /\ principal \in Principals /\ count \in Counts /\ rate \in Rates
  /\ sequence = 0 /\ remaining = principal
  /\ repaid = 0 /\ charged = 0 /\ amount = 0

Period ==
  /\ sequence < count
  /\ amount' = PrincipalForPeriod + PeriodInterest
  /\ remaining' = remaining - PrincipalForPeriod
  /\ repaid' = repaid + PrincipalForPeriod
  /\ charged' = charged + amount'
  /\ sequence' = sequence + 1
  /\ UNCHANGED <<principal, count, rate>>

TableNext == Period
TableSpec == TableInit /\ [][TableNext]_tableVars

-----------------------------------------------------------------------------
TableDone == sequence = count

(* Whatever the rounding of the payment and of each interest, the table      *)
(* repays exactly what was financed: no cent is lost or charged twice, and   *)
(* no installment repays more than what is still owed.                       *)
PrincipalRepaid ==
  /\ repaid + remaining = principal
  /\ remaining >= 0
  /\ TableDone => repaid = principal

(* "Cuota fija": before the last one an installment is the regular payment,  *)
(* or less once the capital has run out; the last one absorbs the roundings,   *)
(* which come to at most what a cent per period grows to at the monthly rate,  *)
(* ((1 + rate) ^ count - 1) / rate: a cent per period without interest.        *)
LevelPayment ==
  LET regular == RegularPayment(principal, count, rate) IN
  sequence > 0 =>
    /\ ~TableDone => amount = regular \/ (amount < regular /\ remaining = 0)
    /\ TableDone =>
         IF rate = 0 THEN amount \in regular - count .. regular + count
         ELSE LET far == (Scale + rate) ^ count - Scale ^ count
                  apart == (amount - regular) * (rate * Scale ^ (count - 1))
              IN  -far <= apart /\ apart <= far
=============================================================================
