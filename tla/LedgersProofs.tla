---------------------------- MODULE LedgersProofs ----------------------------
(* The amortisation table, for every amount, number of installments and rate;  *)
(* what is at home, for every set of articles and of requests; the book of     *)
(* investments, for every book of operations, and what replaying it keeps; and *)
(* the types of the three books together.                                      *)
EXTENDS MCLedgers, AccountsProofs

TableOK ==
  /\ principal \in Principals /\ count \in Counts /\ rate \in Rates
  /\ sequence \in 0 .. count
  /\ remaining \in Nat /\ repaid \in Int
  /\ repaid + remaining = principal
  /\ sequence = count => remaining = 0

(* Rounding a fraction with a positive denominator yields an integer. *)
LEMMA RoundIsInteger ==
  ASSUME NEW a \in Int, NEW b \in Int, b > 0
  PROVE  RoundedDiv(a, b) \in Int
  BY DEF RoundedDiv

\* What the divisions of integers give.
LEMMA DivisionFacts ==
  ASSUME NEW a \in Nat, NEW b \in Nat \ {0}
  PROVE  a \div b \in Int /\ a % b \in 0 .. b - 1 /\ a = b * (a \div b) + (a % b)
OBVIOUS

\* Half a unit at most is lost by rounding.
LEMMA RoundIsNear ==
  ASSUME NEW p \in Nat, NEW n \in Nat \ {0}
  PROVE  /\ RoundedDiv(p, n) \in Nat
         /\ 2 * (n * RoundedDiv(p, n)) - n <= 2 * p
         /\ 2 * p < 2 * (n * RoundedDiv(p, n)) + n
<1> DEFINE a == 2 * p + n
           b == 2 * n
           q == a \div b
<1>1. a \in Nat /\ b \in Nat \ {0}
  OBVIOUS
<1>2. q \in Int /\ a % b \in 0 .. b - 1 /\ a = b * q + (a % b)
  <2>1. \A u \in Nat, v \in Nat \ {0} : u \div v \in Int /\ u % v \in 0 .. v - 1 /\ u = v * (u \div v) + (u % v)
    BY DivisionFacts
  <2> HIDE DEF a, b
  <2> QED BY ONLY <1>1, <2>1, Zenon DEF q
<1>3. b * q = 2 * (n * q)
  <2>1. \A x \in Int : (2 * n) * x = 2 * (n * x)
    OBVIOUS
  <2> HIDE DEF q
  <2> QED BY <1>2, <2>1
<1>4. q >= 0
  <2>1. ASSUME q <= -1 PROVE FALSE
    <3>1. b * q <= -b
      <4> HIDE DEF a, b, q
      <4> QED BY <1>1, <1>2, <2>1
    <3> QED BY <1>1, <1>2, <3>1
  <2> QED BY <1>2, <2>1
<1>5. n * q \in Int
  BY <1>2
<1> DEFINE x == n * q
           m == a % b
<1>6. 2 * x - n <= 2 * p /\ 2 * p < 2 * x + n
  <2>1. x \in Int /\ m \in 0 .. 2 * n - 1 /\ 2 * p + n = 2 * x + m
    BY <1>2, <1>3, <1>5
  <2> HIDE DEF x, m
  <2> QED BY <2>1
<1> QED BY <1>2, <1>4, <1>6 DEF RoundedDiv

\* What holds of 0 and passes from each number to the next holds up to any number.
LEMMA StepByStep ==
  ASSUME NEW n \in Nat, NEW G \in SUBSET Nat, 0 \in G,
         \A k \in 0 .. n - 1 : k \in G => k + 1 \in G
  PROVE  \A k \in 0 .. n : k \in G
<1> DEFINE Missed == {k \in 0 .. n : k \notin G}
<1> SUFFICES ASSUME Missed # {} PROVE FALSE
  OBVIOUS
<1>1. Missed \in SUBSET Nat
  OBVIOUS
<1>2. PICK k \in Missed : \A j \in Missed : k <= j
  <2> HIDE DEF Missed
  <2> QED BY <1>1, Sums!LeastNat
<1>3. k # 0 /\ k \in 0 .. n
  OBVIOUS
<1>4. k - 1 \in 0 .. n - 1 /\ k - 1 \in G
  <2>1. k - 1 \notin Missed
    BY <1>2, <1>3
  <2> QED BY <1>3, <2>1
<1> QED BY <1>3, <1>4

\* The powers of the scale and of the growth of a period: positive, and growing apart.
LEMMA PowersGrow ==
  ASSUME NEW r \in Rates, NEW n \in Counts
  PROVE  \A k \in 0 .. n :
           /\ Scale ^ k \in Nat \ {0} /\ (Scale + r) ^ k \in Nat \ {0}
           /\ Scale ^ k <= (Scale + r) ^ k
           /\ k > 0 /\ r > 0 => Scale ^ k < (Scale + r) ^ k
<1> DEFINE S == Scale
           a == Scale + r
           P(k) == /\ S ^ k \in Nat \ {0} /\ a ^ k \in Nat \ {0}
                   /\ S ^ k <= a ^ k
                   /\ k > 0 /\ r > 0 => S ^ k < a ^ k
           G == {k \in Nat : P(k)}
<1>1. S \in Nat \ {0} /\ r \in Nat /\ a = S + r /\ n \in Nat \ {0}
  BY InstallmentsAssumption
<1>2. /\ S ^ 0 = 1 /\ \A k \in 0 .. n - 1 : S ^ (k + 1) = S * S ^ k
      /\ a ^ 0 = 1 /\ \A k \in 0 .. n - 1 : a ^ (k + 1) = a * a ^ k
  BY PowersAssumption
<1>3. 0 \in G
  BY <1>2
<1>4. ASSUME NEW k \in 0 .. n - 1, k \in G PROVE k + 1 \in G
  <2> DEFINE y == S ^ k
             x == a ^ k
  <2>1. y \in Nat \ {0} /\ x \in Nat \ {0} /\ y <= x
    BY <1>4
  <2>2. S ^ (k + 1) = S * y /\ a ^ (k + 1) = a * x
    BY <1>2
  <2> HIDE DEF y, x
  <2>3. S * y \in Nat \ {0} /\ S * y <= S * x /\ r * x \in Nat /\ a * x = S * x + r * x /\ (r > 0 => r * x > 0)
    <3> HIDE DEF S, a
    <3>1. \A u, v \in Nat : u * v \in Nat /\ (u > 0 /\ v > 0 => u * v > 0)
      OBVIOUS
    <3>2. S * y \in Nat \ {0} /\ r * x \in Nat /\ (r > 0 => r * x > 0)
      BY <1>1, <2>1, <3>1
    <3>3. (S + r) * x = S * x + r * x
      BY <1>1, <2>1
    <3>4. x - y \in Nat /\ S * (x - y) = S * x - S * y
      BY <1>1, <2>1
    <3>5. S * (x - y) >= 0
      BY <1>1, <3>1, <3>4
    <3>6. S * x \in Nat /\ S * y \in Nat
      BY <1>1, <2>1, <3>1
    <3> QED BY <1>1, <3>2, <3>3, <3>4, <3>5, <3>6
  <2>4. S * x \in Nat
    BY <1>1, <2>1
  <2>5. S * y \in Nat \ {0} /\ a * x \in Nat \ {0} /\ S * y <= a * x /\ (r > 0 => S * y < a * x)
    <3> HIDE DEF S, a
    <3> QED BY <2>3, <2>4
  <2> QED BY <2>2, <2>5
<1> HIDE DEF G
<1>5. \A k \in 0 .. n : k \in G
  <2>1. G \in SUBSET Nat
    BY DEF G
  <2> QED BY <1>1, <1>3, <1>4, <2>1, StepByStep
<1> QED BY <1>5 DEF G

\* A period shrinks what the loan has grown to less than it grows the scale.
LEMMA PowersLag ==
  ASSUME NEW r \in Rates, NEW n \in Counts
  PROVE  \A k \in 0 .. n : Scale ^ n * (Scale + r) ^ k <= (Scale + r) ^ n * Scale ^ k
<1> DEFINE S == Scale
           a == Scale + r
           G == {j \in Nat : S ^ n * a ^ (n - j) <= a ^ n * S ^ (n - j)}
<1>1. S \in Nat \ {0} /\ r \in Nat /\ a = S + r /\ n \in Nat \ {0}
  BY InstallmentsAssumption
<1>2. \A k \in 0 .. n : S ^ k \in Nat \ {0} /\ a ^ k \in Nat \ {0}
  BY PowersGrow
<1>3. \A k \in 0 .. n - 1 : S ^ (k + 1) = S * S ^ k /\ a ^ (k + 1) = a * a ^ k
  BY PowersAssumption
<1>4. 0 \in G
  <2>1. n - 0 = n
    BY <1>1
  <2>2. S ^ n \in Nat /\ a ^ n \in Nat
    BY <1>1, <1>2
  <2>3. S ^ n * a ^ n <= a ^ n * S ^ n
    <3>1. \A u, v \in Nat : u * v <= v * u
      OBVIOUS
    <3> QED BY <2>2, <3>1
  <2> QED BY <2>1, <2>3
<1>5. ASSUME NEW j \in 0 .. n - 1, j \in G PROVE j + 1 \in G
  <2> DEFINE k == n - (j + 1)
             y == S ^ k
             x == a ^ k
             s == S ^ n
             g == a ^ n
  <2>1. k \in 0 .. n - 1 /\ k + 1 = n - j /\ k \in 0 .. n
    BY <1>1
  <2>2. /\ s \in Nat /\ g \in Nat /\ x \in Nat /\ y \in Nat
    BY <1>1, <1>2, <2>1
  <2>3. S ^ (n - j) = S * y /\ a ^ (n - j) = a * x
    BY <1>3, <2>1
  <2>4. s * (a * x) <= g * (S * y)
    BY <1>5, <2>3
  <2>5. s * x <= g * y
    <3> HIDE DEF S, a, s, g, x, y, k
    <3>1. s * x \in Nat /\ g * y \in Nat
      BY <2>2
    <3>2. s * (a * x) = S * (s * x) + r * (s * x)
      BY <1>1, <2>2
    <3>3. g * (S * y) = S * (g * y)
      BY <1>1, <2>2
    <3> DEFINE u == s * x
               v == g * y
    <3>4. S * u + r * u <= S * v
      BY <2>4, <3>2, <3>3
    <3>5. u \in Nat /\ v \in Nat
      BY <3>1
    <3> HIDE DEF u, v
    <3>6. r * u >= 0 /\ S * u \in Int /\ S * v \in Int /\ r * u \in Int
      BY <1>1, <3>5
    <3>7. S * u <= S * v
      BY <3>4, <3>6
    <3>8. ASSUME u > v PROVE FALSE
      <4>1. u - v >= 1 /\ S * (u - v) = S * u - S * v
        BY <1>1, <3>5, <3>8
      <4>2. S * (u - v) > 0
        BY <1>1, <3>5, <4>1
      <4> QED BY <3>6, <3>7, <4>1, <4>2
    <3> QED BY <3>5, <3>8 DEF u, v
  <2> QED BY <2>5
<1> HIDE DEF G
<1>6. \A j \in 0 .. n : j \in G
  <2>1. G \in SUBSET Nat
    BY DEF G
  <2> QED BY <1>1, <1>4, <1>5, <2>1, StepByStep
<1> SUFFICES ASSUME NEW k \in 0 .. n PROVE S ^ n * a ^ k <= a ^ n * S ^ k
  OBVIOUS
<1>7. n - k \in 0 .. n /\ n - (n - k) = k
  BY <1>1
<1> QED BY <1>6, <1>7 DEF G

\* The regular payment, when there is an interest, repays the capital with it to
\* half a cent.
LEMMA PaymentIsNear ==
  ASSUME NEW p \in Principals, NEW n \in Counts, NEW r \in Rates, r > 0
  PROVE  LET growth == (Scale + r) ^ n
             left == growth - Scale ^ n
             payment == RegularPayment(p, n, r)
         IN  /\ left \in Nat \ {0} /\ growth \in Nat \ {0} /\ payment \in Nat
             /\ -(Scale * left) <= 2 * (payment * (Scale * left) - p * r * growth)
             /\ 2 * (payment * (Scale * left) - p * r * growth) <= Scale * left
<1> DEFINE g == (Scale + r) ^ n
           s == Scale ^ n
           w == g - s
           R == RegularPayment(p, n, r)
<1>1. p \in Nat /\ n \in Nat \ {0} /\ r \in Nat \ {0} /\ Scale \in Nat \ {0} /\ n \in 0 .. n
  BY InstallmentsAssumption
<1>2. s \in Nat \ {0} /\ g \in Nat \ {0} /\ s < g
  BY <1>1, PowersGrow
<1>3. R = RoundedDiv(p * r * g, Scale * w)
  BY <1>1 DEF RegularPayment
<1> HIDE DEF g, s, R
<1>4. w \in Nat \ {0}
  BY <1>2
<1> HIDE DEF w
<1> DEFINE P == p * r * g
           N == Scale * w
<1>5. P \in Nat
  BY <1>1, <1>2
<1>6. N \in Nat \ {0}
  BY <1>1, <1>4
<1>7. R = RoundedDiv(P, N)
  BY <1>3
<1> HIDE DEF P, N
<1>8. R \in Nat /\ 2 * (N * R) - N <= 2 * P /\ 2 * P < 2 * (N * R) + N
  BY <1>5, <1>6, <1>7, RoundIsNear
<1>9. N * R = R * N /\ R * N \in Int
  BY <1>6, <1>8
<1>10. -N <= 2 * (R * N - P) /\ 2 * (R * N - P) <= N
  BY <1>5, <1>6, <1>8, <1>9
<1> QED BY <1>2, <1>4, <1>8, <1>10 DEF g, s, w, R, P, N

LEMMA PaymentIsInteger ==
  ASSUME NEW p \in Principals, NEW n \in Counts, NEW r \in Rates
  PROVE  RegularPayment(p, n, r) \in Int
<1>1. p \in Nat /\ n \in Nat \ {0} /\ r \in Nat
  BY InstallmentsAssumption
<1>2. CASE r = 0
  BY <1>1, <1>2, RoundIsInteger DEF RegularPayment
<1>3. CASE r > 0
  BY <1>3, PaymentIsNear
<1> QED BY <1>1, <1>2, <1>3

(* What a period repays is an integer that never exceeds what is still owed, *)
(* whatever the payment and the interest are rounded to.                     *)
LEMMA RepaysAtMostTheBalance ==
  ASSUME TableOK
  PROVE  PrincipalForPeriod \in Int /\ PrincipalForPeriod <= remaining
<1>1. RegularPayment(principal, count, rate) \in Int
  BY PaymentIsInteger DEF TableOK
<1>2. remaining * rate \in Int
  BY InstallmentsAssumption DEF TableOK
<1>3. PeriodInterest \in Int
  BY <1>2, RoundIsInteger, InstallmentsAssumption DEF PeriodInterest
<1> QED BY <1>1, <1>3 DEF PrincipalForPeriod, SmallerOf, TableOK

(* Every period keeps the table balanced. *)
LEMMA TableStart == TableInit => TableOK
  BY InstallmentsAssumption DEF TableInit, TableOK

LEMMA TableStep == TableOK /\ [TableNext]_tableVars => TableOK'
<1> SUFFICES ASSUME TableOK, [TableNext]_tableVars PROVE TableOK'
  OBVIOUS
<1>1. CASE Period
  <2>1. PrincipalForPeriod \in Int /\ PrincipalForPeriod <= remaining
    BY RepaysAtMostTheBalance
  <2>2. sequence' = count => PrincipalForPeriod = remaining
    BY <1>1 DEF Period, PrincipalForPeriod, TableOK
  <2> QED BY <1>1, <2>1, <2>2, InstallmentsAssumption DEF Period, TableOK
<1>2. CASE UNCHANGED tableVars
  BY <1>2 DEF tableVars, TableOK
<1> QED BY <1>1, <1>2 DEF TableNext

(* The table repays exactly what was financed (calculateInstallments). *)
THEOREM TableRepaysPrincipal == TableSpec => []PrincipalRepaid
<1>1. TableOK => PrincipalRepaid
  BY InstallmentsAssumption DEF TableOK, PrincipalRepaid, TableDone
<1> QED BY <1>1, TableStart, TableStep, PTL DEF TableSpec

\* A product with a number that is not negative keeps the bounds of a factor.
LEMMA Stretched ==
  ASSUME NEW m \in Nat, NEW u \in Int, NEW v \in Int, -v <= u, u <= v
  PROVE  m * u \in Int /\ m * v \in Int /\ -(m * v) <= m * u /\ m * u <= m * v
OBVIOUS

\* What a period adds to the error that came before: the roundings of the payment, d,
\* and of the interest, e.
LEMMA ErrorMoves ==
  ASSUME NEW S \in Int, NEW r \in Int, NEW w \in Int, NEW g \in Int, NEW s \in Int,
         NEW x \in Int, NEW y \in Int, NEW p \in Int, NEW R \in Int, NEW B \in Int, NEW i \in Int
  PROVE  (r * (S * y)) * w * (B - R + i) - p * r * (g * (S * y) - s * ((S + r) * x))
           = (S + r) * (r * y * w * B - p * r * (g * y - s * x))
             + (r * y) * (w * (S * i - B * r) - (R * (S * w) - p * r * g))
OBVIOUS

\* How far it may grow in a period, when each rounding is half a unit at most.
LEMMA ErrorGrows ==
  ASSUME NEW S \in Nat, NEW r \in Nat, NEW w \in Nat, NEW x \in Nat, NEW y \in Nat,
         NEW T \in Int, NEW e \in Int, NEW d \in Int,
         -(S * w * (x - y)) <= T, T <= S * w * (x - y),
         -S <= 2 * e, 2 * e <= S, -(S * w) <= 2 * d, 2 * d <= S * w
  PROVE  LET next == (S + r) * T + (r * y) * (w * e - d)
             far == S * w * ((S + r) * x - S * y)
         IN  next \in Int /\ far \in Int /\ -far <= next /\ next <= far
<1> DEFINE q == w * e - d
           z == S * w
           v == S * w * (x - y)
<1>1. z \in Nat /\ v \in Int /\ q \in Int /\ r * y \in Nat /\ S + r \in Nat /\ w * e \in Int
  OBVIOUS
<1>2. -z <= q /\ q <= z
  <2>1. w * (2 * e) = 2 * (w * e) /\ w * S = z
    OBVIOUS
  <2>2. -(w * S) <= w * (2 * e) /\ w * (2 * e) <= w * S
    BY Stretched
  <2> DEFINE m == w * e
  <2>3. m \in Int /\ d \in Int /\ z \in Nat /\ -z <= 2 * m /\ 2 * m <= z /\ -z <= 2 * d /\ 2 * d <= z
    BY <1>1, <2>1, <2>2
  <2> HIDE DEF m, z
  <2>4. -z <= m - d /\ m - d <= z
    BY <2>3
  <2> QED BY <2>4 DEF m
<1>3. /\ (r * y) * q \in Int /\ (r * y) * z \in Int
      /\ -((r * y) * z) <= (r * y) * q /\ (r * y) * q <= (r * y) * z
  <2> HIDE DEF q, z
  <2> QED BY <1>1, <1>2, Stretched
<1>4. /\ (S + r) * T \in Int /\ (S + r) * v \in Int
      /\ -((S + r) * v) <= (S + r) * T /\ (S + r) * T <= (S + r) * v
  <2>1. -v <= T /\ T <= v
    OBVIOUS
  <2> HIDE DEF v
  <2> QED BY <1>1, <2>1, Stretched
<1>5. (S + r) * v + (r * y) * z = S * w * ((S + r) * x - S * y)
  OBVIOUS
<1> HIDE DEF q, z, v
<1> DEFINE A == (S + r) * T
           C == (r * y) * q
           AA == (S + r) * v
           CC == (r * y) * z
<1>6. A + C \in Int /\ AA + CC \in Int /\ -(AA + CC) <= A + C /\ A + C <= AA + CC
  <2>1. A \in Int /\ C \in Int /\ AA \in Int /\ CC \in Int /\ -AA <= A /\ A <= AA /\ -CC <= C /\ C <= CC
    BY <1>3, <1>4
  <2> HIDE DEF A, C, AA, CC
  <2> QED BY <2>1
<1> QED BY <1>5, <1>6 DEF q

\* How far a balance b after k periods is from what is owed exactly, both scaled to
\* integers, and the most the roundings of k periods come to.
Drift(p, n, r, k, b) ==
  LET growth == (Scale + r) ^ n
      left == growth - Scale ^ n
  IN  (r * Scale ^ k) * left * b - p * r * (growth * Scale ^ k - Scale ^ n * (Scale + r) ^ k)
FarAfter(n, r, k) == Scale * ((Scale + r) ^ n - Scale ^ n) * ((Scale + r) ^ k - Scale ^ k)
Near(p, n, r, k, b) ==
  /\ Drift(p, n, r, k, b) \in Int /\ FarAfter(n, r, k) \in Int
  /\ -FarAfter(n, r, k) <= Drift(p, n, r, k, b) /\ Drift(p, n, r, k, b) <= FarAfter(n, r, k)

\* A period keeps a balance near, also when the capital runs out in it.
LEMMA PeriodStaysNear ==
  ASSUME NEW p \in Principals, NEW n \in Counts, NEW r \in Rates, r > 0, NEW k \in 0 .. n - 1,
         NEW b \in Nat, Near(p, n, r, k, b)
  PROVE  LET next == b - RegularPayment(p, n, r) + RoundedDiv(b * r, Scale)
         IN  /\ Near(p, n, r, k + 1, next)
             /\ next <= 0 => Near(p, n, r, k + 1, 0)
<1> DEFINE S == Scale
           a == Scale + r
           g == a ^ n
           s == S ^ n
           w == g - s
           x == a ^ k
           y == S ^ k
           R == RegularPayment(p, n, r)
           i == RoundedDiv(b * r, S)
           T == (r * y) * w * b - p * r * (g * y - s * x)
           e == S * i - b * r
           d == R * (S * w) - p * r * g
           next == b - R + i
           far == S * w * (a * x - S * y)
           moved == (r * (S * y)) * w * next - p * r * (g * (S * y) - s * (a * x))
<1>1. p \in Nat /\ n \in Nat \ {0} /\ r \in Nat \ {0} /\ S \in Nat \ {0} /\ k \in 0 .. n /\ k + 1 \in 0 .. n
  BY InstallmentsAssumption
<1>2. s \in Nat \ {0} /\ x \in Nat \ {0} /\ y \in Nat \ {0} /\ y <= x
  BY <1>1, PowersGrow
<1>3. /\ w \in Nat \ {0} /\ g \in Nat \ {0} /\ R \in Nat
      /\ -(S * w) <= 2 * d /\ 2 * d <= S * w
  BY <1>1, PaymentIsNear
<1>4. S ^ (k + 1) = S * y /\ a ^ (k + 1) = a * x
  BY PowersAssumption
<1>5. i \in Nat /\ 2 * (S * i) - S <= 2 * (b * r) /\ 2 * (b * r) < 2 * (S * i) + S
  <2>1. b * r \in Nat
    BY <1>1
  <2> QED BY <1>1, <2>1, RoundIsNear
<1>6. -(S * w * (x - y)) <= T /\ T <= S * w * (x - y)
  BY DEF Near, Drift, FarAfter
<1>7. Near(p, n, r, k + 1, next) <=> moved \in Int /\ far \in Int /\ -far <= moved /\ moved <= far
  BY <1>4 DEF Near, Drift, FarAfter
<1> DEFINE rest == (r * (S * y)) * w * 0 - p * r * (g * (S * y) - s * (a * x))
<1>8. Near(p, n, r, k + 1, 0) <=> rest \in Int /\ far \in Int /\ -far <= rest /\ rest <= far
  BY <1>4 DEF Near, Drift, FarAfter
<1>9. s * (a * x) <= g * (S * y)
  <2>1. s * a ^ (k + 1) <= g * S ^ (k + 1)
    BY <1>1, PowersLag
  <2> QED BY <1>4, <2>1
<1>10. a = S + r
  OBVIOUS
<1> HIDE DEF S, a, g, s, w, x, y, R, i
<1>11. b * r \in Int /\ S * i \in Int /\ R * (S * w) \in Int /\ p * r * g \in Int
  BY <1>1, <1>2, <1>3, <1>5
<1>12. e \in Int /\ d \in Int /\ -S <= 2 * e /\ 2 * e <= S
  BY <1>1, <1>5, <1>11
<1>13. T \in Int
  BY <1>1, <1>2, <1>3
<1>14. s \in Int /\ g \in Int /\ next \in Int
  BY <1>2, <1>3, <1>5
<1>15. moved = (S + r) * T + (r * y) * (w * e - d)
  BY <1>1, <1>2, <1>3, <1>5, <1>10, ErrorMoves
<1>16. moved \in Int /\ far \in Int /\ -far <= moved /\ moved <= far
  <2> DEFINE u == (S + r) * T + (r * y) * (w * e - d)
             v == S * w * ((S + r) * x - S * y)
  <2>1. u \in Int /\ v \in Int /\ -v <= u /\ u <= v
    <3> HIDE DEF T, e, d
    <3> QED BY <1>1, <1>2, <1>3, <1>6, <1>12, <1>13, ErrorGrows
  <2>2. far = v /\ moved = u
    BY <1>10, <1>15
  <2> QED BY <2>1, <2>2
<1>17. ASSUME next <= 0 PROVE rest \in Int /\ -far <= rest /\ rest <= far
  <2> DEFINE m == (r * (S * y)) * w
             owed == g * (S * y) - s * (a * x)
             paid == p * r
  <2>1. m \in Nat /\ paid \in Nat
    BY <1>1, <1>2, <1>3
  <2>2. owed \in Nat
    <3>1. g * (S * y) \in Int /\ s * (a * x) \in Int
      BY <1>1, <1>2, <1>3, <1>10
    <3> QED BY <1>9, <3>1
  <2>3. moved = m * next - paid * owed /\ rest = m * 0 - paid * owed
    OBVIOUS
  <2> HIDE DEF m, owed, paid, moved, rest, far, next
  <2>4. m * next <= 0 /\ m * next \in Int /\ m * 0 = 0
    <3>1. \A u \in Nat, v \in Int : v <= 0 => u * v <= 0
      <4>1. SUFFICES ASSUME NEW u \in Nat, NEW v \in Int, v <= 0 PROVE u * v <= 0
        OBVIOUS
      <4>2. -v \in Nat /\ u * (-v) = -(u * v) /\ u * v \in Int
        BY <4>1
      <4>3. u * (-v) \in Nat
        BY <4>1, <4>2
      <4> QED BY <4>2, <4>3
    <3> QED BY <1>14, <1>17, <2>1, <3>1
  <2>5. paid * owed \in Nat
    BY <2>1, <2>2
  <2> QED BY <1>16, <2>3, <2>4, <2>5
<1> QED BY <1>7, <1>8, <1>16, <1>17 DEF R, i, S

\* After the last period: the last installment is as near to the regular one.
LEMMA LastIsNear ==
  ASSUME NEW p \in Principals, NEW n \in Counts, NEW r \in Rates, r > 0, NEW z \in Int,
         Near(p, n, r, n, z)
  PROVE  LET far == (Scale + r) ^ n - Scale ^ n
             apart == z * (r * Scale ^ (n - 1))
         IN  -far <= apart /\ apart <= far
<1> DEFINE S == Scale
           g == (Scale + r) ^ n
           s == S ^ n
           w == g - s
           t == S ^ (n - 1)
           far == S * w * (g - s)
           u == z * (r * t)
<1>1. p \in Nat /\ n \in Nat \ {0} /\ r \in Nat \ {0} /\ S \in Nat \ {0} /\ n - 1 \in 0 .. n - 1 /\ n - 1 \in 0 .. n
  BY InstallmentsAssumption
<1>2. w \in Nat \ {0} /\ g \in Nat \ {0}
  BY <1>1, PaymentIsNear
<1>3. t \in Nat \ {0} /\ s \in Nat
  BY <1>1, PowersGrow
<1>4. s = S * t
  <2>1. (n - 1) + 1 = n
    BY <1>1
  <2> QED BY <1>1, <2>1, PowersAssumption
<1>5. /\ -far <= (r * s) * w * z - p * r * (g * s - s * g)
      /\ (r * s) * w * z - p * r * (g * s - s * g) <= far
  BY DEF Near, Drift, FarAfter
<1> HIDE DEF S, g, s, t
<1>6. g * s - s * g = 0
  BY <1>2, <1>3
<1>7. p * r * (g * s - s * g) = 0
  BY <1>1, <1>6
<1>8. u \in Int
  BY <1>1, <1>3
<1> DEFINE N == S * w
<1>9. N \in Nat \ {0}
  BY <1>1, <1>2
<1>10. (r * s) * w * z = N * u
  <2> HIDE DEF w
  <2> QED BY <1>1, <1>2, <1>3, <1>4
<1>11. far = N * w
  OBVIOUS
<1>12. N * u \in Int
  BY <1>8, <1>9
<1>13. -(N * w) <= N * u /\ N * u <= N * w
  <2>1. -far <= N * u - 0 /\ N * u - 0 <= far
    BY <1>5, <1>7, <1>10
  <2> HIDE DEF far, N, u, w
  <2> QED BY <1>11, <1>12, <2>1
<1> HIDE DEF N, u, w
<1>14. u <= w
  <2>1. N * (w - u) = N * w - N * u /\ N * w \in Int /\ w - u \in Int
    BY <1>2, <1>8, <1>9
  <2>2. ~(N * (w - u) < 0)
    BY <1>12, <1>13, <2>1
  <2>3. ASSUME w - u < 0 PROVE FALSE
    <3>1. u - w >= 1 /\ N * (u - w) = -(N * (w - u)) /\ N * (w - u) \in Int
      BY <1>2, <1>8, <1>9, <2>1, <2>3
    <3>2. N * (u - w) > 0
      BY <1>2, <1>8, <1>9, <3>1
    <3> QED BY <2>2, <3>1, <3>2
  <2> QED BY <1>2, <1>8, <2>3
<1>15. -w <= u
  <2>1. N * (w + u) = N * w + N * u /\ N * w \in Int /\ w + u \in Int
    BY <1>2, <1>8, <1>9
  <2>2. ~(N * (w + u) < 0)
    BY <1>12, <1>13, <2>1
  <2>3. ASSUME w + u < 0 PROVE FALSE
    <3>1. -(w + u) >= 1 /\ N * (-(w + u)) = -(N * (w + u)) /\ N * (w + u) \in Int
      BY <1>2, <1>8, <1>9, <2>1, <2>3
    <3>2. N * (-(w + u)) > 0
      BY <1>2, <1>8, <1>9, <3>1
    <3> QED BY <2>2, <3>1, <3>2
  <2> QED BY <1>2, <1>8, <2>3
<1> QED BY <1>14, <1>15 DEF u, w, g, s, S, t

\* The inductive invariant: before the last one an installment is regular, or less
\* when the capital has run out; with interest the balance is near the exact one,
\* and without it as many regular ones as came before were taken from the capital.
RoundingsBounded ==
  LET regular == RegularPayment(principal, count, rate) IN
  IF rate = 0 THEN amount \in regular - count .. regular + count
  ELSE LET far == (Scale + rate) ^ count - Scale ^ count
           apart == (amount - regular) * (rate * Scale ^ (count - 1))
       IN  -far <= apart /\ apart <= far
LevelInv ==
  LET regular == RegularPayment(principal, count, rate) IN
  /\ TableOK
  /\ amount \in Int
  /\ sequence > 0 /\ ~TableDone => amount = regular \/ (amount < regular /\ remaining = 0)
  /\ rate = 0 /\ ~TableDone =>
       remaining = IF principal >= sequence * regular THEN principal - sequence * regular ELSE 0
  /\ rate > 0 /\ ~TableDone => Near(principal, count, rate, sequence, remaining)
  /\ sequence > 0 /\ TableDone => RoundingsBounded

LEMMA LevelStart == TableInit => LevelInv
<1> SUFFICES ASSUME TableInit PROVE LevelInv
  OBVIOUS
<1> DEFINE R == RegularPayment(principal, count, rate)
<1>1. R \in Int
  BY PaymentIsInteger DEF TableInit
<1>2. TableOK /\ amount \in Int /\ sequence = 0 /\ remaining = principal /\ principal \in Nat
  BY InstallmentsAssumption DEF TableInit, TableOK
<1> HIDE DEF R
<1>3. sequence * R = 0
  BY <1>1, <1>2
<1>4. remaining = IF principal >= sequence * R THEN principal - sequence * R ELSE 0
  BY <1>2, <1>3
<1>5. ASSUME rate > 0 PROVE Near(principal, count, rate, 0, principal)
  <2> DEFINE w == (Scale + rate) ^ count - Scale ^ count
  <2>1. principal \in Nat /\ rate \in Nat /\ Scale \in Nat /\ rate \in Rates /\ count \in Counts
    BY InstallmentsAssumption DEF TableInit
  <2>2. Scale ^ 0 = 1 /\ (Scale + rate) ^ 0 = 1
    BY <2>1, PowersAssumption
  <2>3. w \in Nat /\ (Scale + rate) ^ count \in Nat /\ Scale ^ count \in Nat
    <3>1. count \in Nat /\ count \in 0 .. count
      BY <2>1, InstallmentsAssumption
    <3>2. principal \in Principals
      BY DEF TableInit
    <3> QED BY <1>5, <2>1, <3>1, <3>2, PowersGrow, PaymentIsNear
  <2>4. /\ Drift(principal, count, rate, 0, principal)
             = (rate * 1) * w * principal - principal * rate * ((Scale + rate) ^ count * 1 - Scale ^ count * 1)
        /\ FarAfter(count, rate, 0) = Scale * w * (1 - 1)
    BY <2>2 DEF Drift, FarAfter
  <2>5. (Scale + rate) ^ count * 1 - Scale ^ count * 1 = w
    BY <2>3
  <2> HIDE DEF w
  <2>6. Scale * w * (1 - 1) = 0
    BY <2>1, <2>3
  <2>7. (rate * 1) * w * principal - principal * rate * w = 0
    BY <2>1, <2>3
  <2> QED BY <2>4, <2>5, <2>6, <2>7 DEF Near
<1> QED BY <1>2, <1>4, <1>5 DEF LevelInv, R, TableDone

LEMMA LevelStep == LevelInv /\ [TableNext]_tableVars => LevelInv'
<1> SUFFICES ASSUME LevelInv, [TableNext]_tableVars PROVE LevelInv'
  OBVIOUS
<1>0. TableOK'
  BY TableStep DEF LevelInv
<1>1. CASE UNCHANGED tableVars
  BY <1>0, <1>1 DEF tableVars, LevelInv, TableDone, RoundingsBounded
<1>2. CASE Period
  <2> DEFINE R == RegularPayment(principal, count, rate)
             i == PeriodInterest
             c == PrincipalForPeriod
  <2>1. /\ sequence < count /\ amount' = c + i /\ remaining' = remaining - c
        /\ sequence' = sequence + 1 /\ UNCHANGED <<principal, count, rate>>
    BY <1>2 DEF Period
  <2>2. /\ principal \in Nat /\ count \in Nat \ {0} /\ rate \in Nat /\ sequence \in 0 .. count
        /\ remaining \in Nat /\ R \in Int /\ Scale \in Nat \ {0}
    BY InstallmentsAssumption, PaymentIsInteger DEF LevelInv, TableOK
  <2>3. remaining * rate \in Nat
    BY <2>2
  <2>4. i \in Int
    BY <2>2, <2>3, RoundIsInteger DEF PeriodInterest
  <2>5. c = IF sequence = count - 1 THEN remaining ELSE SmallerOf(remaining, R - i)
    BY DEF PrincipalForPeriod
  <2>6. R = RegularPayment(principal', count', rate')
    BY <2>1
  <2>7. rate = 0 => i = 0 /\ R = RoundedDiv(principal, count)
    <3>1. ASSUME rate = 0 PROVE RoundedDiv(remaining * rate, Scale) = 0
      <4>1. remaining * rate = 0
        BY <2>2, <3>1
      <4>2. RoundedDiv(0, Scale) = 0
        <5>1. RoundedDiv(0, Scale) \in Nat /\ 2 * (Scale * RoundedDiv(0, Scale)) - Scale <= 2 * 0
          BY <2>2, RoundIsNear
        <5> DEFINE z == RoundedDiv(0, Scale)
        <5>2. ASSUME z >= 1 PROVE FALSE
          <6>1. z \in Nat /\ 2 * (Scale * z) - Scale <= 0
            BY <5>1
          <6> HIDE DEF z
          <6>2. Scale * z >= Scale
            BY <2>2, <5>2, <6>1
          <6>3. Scale * z \in Int
            BY <2>2, <6>1
          <6> QED BY <2>2, <6>1, <6>2, <6>3
        <5> QED BY <5>1, <5>2
      <4> QED BY <4>1, <4>2
    <3> QED BY <3>1 DEF PeriodInterest, RegularPayment
  <2>8. rate = 0 => remaining = IF principal >= sequence * R THEN principal - sequence * R ELSE 0
    <3>1. ~TableDone
      BY <2>1, <2>2 DEF TableDone
    <3> QED BY <3>1 DEF LevelInv
  <2> DEFINE B == remaining - R + i
  <2>15. ASSUME rate > 0
         PROVE  /\ Near(principal, count, rate, sequence + 1, B)
                /\ B <= 0 => Near(principal, count, rate, sequence + 1, 0)
    <3>1. principal \in Principals /\ count \in Counts /\ rate \in Rates /\ sequence \in 0 .. count - 1
      BY <2>1, <2>2 DEF LevelInv, TableOK
    <3>2. Near(principal, count, rate, sequence, remaining)
      BY <2>1, <2>2, <2>15 DEF LevelInv, TableDone
    <3> QED BY <2>2, <2>15, <3>1, <3>2, PeriodStaysNear DEF PeriodInterest
  <2>16. ASSUME rate > 0, sequence + 1 = count, amount' = B + R PROVE RoundingsBounded'
    <3>1. principal \in Principals /\ count \in Counts /\ rate \in Rates
      BY DEF LevelInv, TableOK
    <3>2. B \in Int /\ (B + R) - R = B
      BY <2>2, <2>4
    <3>3. Near(principal, count, rate, count, B)
      BY <2>15, <2>16
    <3>4. LET far == (Scale + rate) ^ count - Scale ^ count
              apart == B * (rate * Scale ^ (count - 1))
          IN  -far <= apart /\ apart <= far
      BY <2>16, <3>1, <3>2, <3>3, LastIsNear
    <3>5. amount' - R = B /\ rate # 0
      BY <2>2, <2>16, <3>2
    <3>6. LET far == (Scale + rate) ^ count - Scale ^ count
              apart == (amount' - R) * (rate * Scale ^ (count - 1))
          IN  -far <= apart /\ apart <= far
      BY <3>4, <3>5
    <3> HIDE DEF R, B
    <3> QED BY <2>1, <2>6, <3>5, <3>6 DEF RoundingsBounded
  <2> HIDE DEF R, i, c
  <2>9. c \in Int /\ amount' \in Int
    BY <2>1, <2>2, <2>4, <2>5 DEF SmallerOf
  <2>10. sequence + 1 < count => amount' = R \/ (amount' < R /\ remaining' = 0)
    BY <2>1, <2>2, <2>4, <2>5 DEF SmallerOf
  <2>11. (sequence + 1) * R = sequence * R + R /\ sequence * R \in Int
    BY <2>2
  <2>12. ASSUME rate = 0
         PROVE  /\ sequence + 1 < count =>
                     remaining' = IF principal >= (sequence + 1) * R THEN principal - (sequence + 1) * R ELSE 0
                /\ sequence + 1 = count => amount' \in R - count .. R + count
    <3>1. i = 0 /\ R \in Nat /\ 2 * (count * R) - count <= 2 * principal /\ 2 * principal < 2 * (count * R) + count
      BY <2>2, <2>7, <2>12, RoundIsNear
    <3> DEFINE x == sequence * R
    <3>2. x \in Int /\ (sequence + 1) * R = x + R
      BY <2>11
    <3>3. remaining = IF principal >= x THEN principal - x ELSE 0
      BY <2>1, <2>8, <2>12
    <3>4. sequence + 1 = count => count * R = x + R
      BY <3>2
    <3> HIDE DEF x
    <3>5. sequence + 1 < count => remaining' = IF principal >= x + R THEN principal - (x + R) ELSE 0
      BY <2>1, <2>2, <2>5, <3>1, <3>2, <3>3 DEF SmallerOf
    <3>6. ASSUME sequence + 1 = count PROVE amount' \in R - count .. R + count
      <4>1. amount' = remaining
        BY <2>1, <2>2, <2>5, <3>1, <3>6
      <4>2. 2 * (x + R) - count <= 2 * principal /\ 2 * principal < 2 * (x + R) + count
        BY <3>1, <3>4, <3>6
      <4> QED BY <2>2, <3>1, <3>2, <3>3, <4>1, <4>2
    <3> QED BY <3>2, <3>5, <3>6
  <2>13. TableDone' <=> sequence + 1 = count
    BY <2>1 DEF TableDone
  <2>14. sequence + 1 = count \/ sequence + 1 < count
    BY <2>1, <2>2
  <2>17. ASSUME rate > 0, sequence + 1 < count PROVE Near(principal, count, rate, sequence + 1, remaining')
    <3>1. remaining' = B \/ (B <= 0 /\ remaining' = 0)
      BY <2>1, <2>2, <2>4, <2>5, <2>17 DEF SmallerOf
    <3> QED BY <2>15, <2>17, <3>1
  <2>18. ASSUME sequence + 1 = count PROVE RoundingsBounded'
    <3>1. rate = 0 => amount' \in R - count .. R + count
      BY <2>12, <2>18
    <3>2. CASE rate = 0
      BY <2>1, <2>6, <3>1, <3>2 DEF RoundingsBounded
    <3>3. CASE rate > 0
      <4>1. amount' = B + R
        BY <2>1, <2>2, <2>4, <2>5, <2>18
      <4> QED BY <2>16, <2>18, <3>3, <4>1
    <3> QED BY <2>2, <3>2, <3>3
  <2> QED BY <1>0, <2>1, <2>6, <2>9, <2>10, <2>12, <2>13, <2>14, <2>17, <2>18 DEF LevelInv
<1> QED BY <1>1, <1>2 DEF TableNext

(* Whatever the rate, every installment before the last one is the regular      *)
(* payment, or less once the capital has run out, and the last one, to which all *)
(* the roundings go, is no further from it than a cent per period would grow to  *)
(* (calculateInstallments).                                                      *)
THEOREM InstallmentsAreLevel == TableSpec => []LevelPayment
<1>1. LevelInv => LevelPayment
  BY DEF LevelInv, LevelPayment, RoundingsBounded
<1> QED BY <1>1, LevelStart, LevelStep, PTL DEF TableSpec

-----------------------------------------------------------------------------
(* What is at home and on the shopping list                                  *)

\* An article is in stock or listed.
Balanced(row, c, l) == row.bought /\ row.consumable => (c # 0 <=> l = 0)

\* What a request in hand relies on, at each stage, of the article it is about:
\* its row, its open cycle and its pending items.
ReliesOn(e, row, c, l) ==
  /\ e.stage \in {"find", "insert", "again", "buy", "read"} => Balanced(row, c, l)
  /\ e.stage = "mark" => (row.consumable => c # 0)
  /\ e.stage = "commit" => e.seen = IF row.consumable THEN c ELSE -1
  /\ e.stage = "close" => c = e.seen
  /\ e.stage \in {"look", "add"} => c = 0

\* A request is about the article.
About(e, a) == e.stage # "none" /\ e.name = a

\* The inductive invariant: an article that was never shared has one request at
\* most, what that request relies on holds, and without one it is balanced.
Alone ==
  \A a \in ArticleNames, s, t \in Shoppers :
    a \notin unsettled /\ About(errand[s], a) /\ About(errand[t], a) => s = t
Relied ==
  \A a \in ArticleNames, s \in Shoppers :
    a \notin unsettled /\ About(errand[s], a) => ReliesOn(errand[s], article[a], cycle[a], listed[a])
AtRest ==
  \A a \in ArticleNames :
    a \notin unsettled /\ (\A s \in Shoppers : ~About(errand[s], a))
      => Balanced(article[a], cycle[a], listed[a])
HomeInv == InventoryTypeOK /\ Alone /\ Relied /\ AtRest

\* A request in hand is a complete record; another one is none.
LEMMA ErrandsAreTyped ==
  ASSUME InventoryTypeOK, NEW s \in Shoppers, errand[s].stage # "none"
  PROVE  errand[s] \in ErrandInHand
BY DEF InventoryTypeOK, NoErrand

LEMMA HomeInit == InventoryInit => HomeInv
<1> SUFFICES ASSUME InventoryInit PROVE HomeInv
  OBVIOUS
<1>1. \A s \in Shoppers : errand[s] = NoErrand
  BY DEF InventoryInit
<1>2. \A s \in Shoppers, a \in ArticleNames : ~About(errand[s], a)
  BY <1>1 DEF About, NoErrand
<1>3. article \in [ArticleNames -> ArticleRow]
  BY DEF InventoryInit, ArticleRow
<1>6. errand \in [Shoppers -> {NoErrand} \cup ErrandInHand]
  BY DEF InventoryInit
<1>7. /\ cycle \in [ArticleNames -> Nat] /\ listed \in [ArticleNames -> Nat] /\ cycles \in Nat
      /\ errands \in 0 .. MaxErrands
  BY InventoryAssumption DEF InventoryInit
<1>8. unsettled \subseteq ArticleNames /\ removed \subseteq Shoppers /\ refused \in BOOLEAN
  BY DEF InventoryInit
<1>4. InventoryTypeOK
  BY <1>3, <1>6, <1>7, <1>8 DEF InventoryTypeOK, CycleRow, ListItems
<1>5. AtRest
  BY DEF InventoryInit, AtRest, Balanced
<1> QED BY <1>2, <1>4, <1>5 DEF HomeInv, Alone, Relied

\* A step of a request in hand touches its article alone: it has to leave that
\* article balanced where it ends, and what its next stage relies on where not.
LEMMA ErrandStepKeeps ==
  ASSUME HomeInv, NEW s \in Shoppers, NEW a \in ArticleNames, NEW e,
         About(errand[s], a), InventoryTypeOK',
         errand' = [errand EXCEPT ![s] = e],
         e.stage = "none" \/ e.name = a,
         \A b \in ArticleNames \ {a} :
           article'[b] = article[b] /\ cycle'[b] = cycle[b] /\ listed'[b] = listed[b],
         unsettled' = unsettled,
         a \notin unsettled =>
           IF e.stage = "none" THEN Balanced(article'[a], cycle'[a], listed'[a])
           ELSE ReliesOn(e, article'[a], cycle'[a], listed'[a])
  PROVE  HomeInv'
<1>1. /\ errand'[s] = e
      /\ \A t \in Shoppers \ {s} : errand'[t] = errand[t]
  BY DEF HomeInv, InventoryTypeOK
<1>2. \A t \in Shoppers, b \in ArticleNames : About(errand'[t], b) => About(errand[t], b)
  BY <1>1 DEF About
<1>3. Alone'
  BY <1>2 DEF Alone, HomeInv
<1>4. Relied'
  <2> SUFFICES ASSUME NEW b \in ArticleNames, NEW t \in Shoppers, b \notin unsettled, About(errand'[t], b)
               PROVE  ReliesOn(errand'[t], article'[b], cycle'[b], listed'[b])
    BY DEF Relied
  <2>1. CASE t = s
    BY <2>1, <1>1 DEF About
  <2>2. CASE t # s
    <3>1. b # a
      BY <2>2, <1>2 DEF Alone, HomeInv
    <3> QED BY <3>1, <2>2, <1>1, <1>2 DEF Relied, HomeInv
  <2> QED BY <2>1, <2>2
<1>5. AtRest'
  <2> SUFFICES ASSUME NEW b \in ArticleNames, b \notin unsettled, \A t \in Shoppers : ~About(errand'[t], b)
               PROVE  Balanced(article'[b], cycle'[b], listed'[b])
    BY DEF AtRest
  <2>1. CASE b = a
    BY <2>1, <1>1 DEF About
  <2>2. CASE b # a
    <3>1. \A t \in Shoppers : ~About(errand[t], b)
      BY <2>2, <1>1 DEF About
    <3> QED BY <3>1, <2>2 DEF AtRest, HomeInv
  <2> QED BY <2>1, <2>2
<1> QED BY <1>3, <1>4, <1>5 DEF HomeInv

\* A request moves on: its article stays as it is.
LEMMA GoingKeepsTypes ==
  ASSUME HomeInv, NEW s \in Shoppers, NEW stage \in ErrandStages,
         errand[s].stage # "none", Go(s, stage)
  PROVE  /\ errand' \in [Shoppers -> {NoErrand} \cup ErrandInHand]
         /\ \E e \in ErrandInHand :
              /\ errand' = [errand EXCEPT ![s] = e]
              /\ e.stage = stage /\ e.name = errand[s].name /\ e.seen = errand[s].seen
<1> DEFINE e == [errand[s] EXCEPT !.stage = stage]
<1>1. errand[s] \in ErrandInHand
  BY ErrandsAreTyped DEF HomeInv
<1>2. e \in ErrandInHand /\ e.stage = stage /\ e.name = errand[s].name /\ e.seen = errand[s].seen
  BY <1>1 DEF ErrandInHand
<1>3. errand' = [errand EXCEPT ![s] = e]
  BY DEF Go
<1> HIDE DEF e
<1> QED BY <1>2, <1>3 DEF HomeInv, InventoryTypeOK

LEMMA FinishingKeepsTypes ==
  ASSUME HomeInv, NEW s \in Shoppers, Finish(s)
  PROVE  /\ errand' \in [Shoppers -> {NoErrand} \cup ErrandInHand]
         /\ errand' = [errand EXCEPT ![s] = NoErrand]
         /\ NoErrand.stage = "none"
BY DEF HomeInv, InventoryTypeOK, Finish, NoErrand

\* Every step of a request in hand, one stage after the other.
LEMMA ErrandSteps ==
  ASSUME HomeInv, NEW s \in Shoppers,
         \/ FindArticle(s) \/ InsertArticle(s) \/ FindAgain(s)
         \/ SavePurchase(s) \/ CheckOpenCycle(s) \/ OpenCycle(s) \/ MarkPendingListItemsPurchased(s)
         \/ ReadInTransaction(s) \/ CommitWithExpense(s)
         \/ CloseCycle(s) \/ LookAtList(s) \/ AddToShoppingList(s)
  PROVE  HomeInv'
<1> DEFINE a == errand[s].name
<1>1. errand[s].stage # "none"
  BY DEF FindArticle, InsertArticle, FindAgain, SavePurchase, CheckOpenCycle, OpenCycle,
         MarkPendingListItemsPurchased, ReadInTransaction, CommitWithExpense, CloseCycle,
         LookAtList, AddToShoppingList, At
<1>2. errand[s] \in ErrandInHand
  BY <1>1, ErrandsAreTyped DEF HomeInv
<1>3. a \in ArticleNames /\ About(errand[s], a) /\ errand[s].seen \in Int
  BY <1>1, <1>2 DEF ErrandInHand, About
<1>4. a \notin unsettled => ReliesOn(errand[s], article[a], cycle[a], listed[a])
  BY <1>3 DEF HomeInv, Relied
<1>5. /\ article[a] \in ArticleRow /\ cycle[a] \in Nat /\ listed[a] \in Nat /\ cycles \in Nat
      /\ article \in [ArticleNames -> ArticleRow] /\ cycle \in [ArticleNames -> Nat]
      /\ listed \in [ArticleNames -> Nat]
  BY <1>3 DEF HomeInv, InventoryTypeOK, CycleRow, ListItems
<1>6. InventoryTypeOK
  BY DEF HomeInv
<1> DEFINE Others == \A b \in ArticleNames \ {a} :
             article'[b] = article[b] /\ cycle'[b] = cycle[b] /\ listed'[b] = listed[b]
<1>7. CASE FindArticle(s)
  <2>0. PICK stage \in ErrandStages : stage \in {"buy", "read", "insert"} /\ Go(s, stage)
    BY <1>7 DEF FindArticle, ErrandStages
  <2>1. PICK e \in ErrandInHand : errand' = [errand EXCEPT ![s] = e] /\ e.stage = stage /\ e.name = a
    BY <2>0, <1>1, GoingKeepsTypes
  <2>2. InventoryTypeOK' /\ Others /\ unsettled' = unsettled
    BY <2>0, <1>1, <1>6, <1>7, GoingKeepsTypes DEF FindArticle, InventoryTypeOK
  <2>3. a \notin unsettled => ReliesOn(e, article'[a], cycle'[a], listed'[a])
    BY <2>0, <2>1, <1>4, <1>7 DEF FindArticle, At, ReliesOn
  <2> QED BY <2>0, <2>1, <2>2, <2>3, <1>3, ErrandStepKeeps
<1>8. CASE InsertArticle(s)
  <2>0. PICK stage \in ErrandStages : stage \in {"again", "find"} /\ Go(s, stage)
    BY <1>8 DEF InsertArticle, ErrandStages
  <2>1. PICK e \in ErrandInHand : errand' = [errand EXCEPT ![s] = e] /\ e.stage = stage /\ e.name = a
    BY <2>0, <1>1, GoingKeepsTypes
  <2>4. PICK consumable \in BOOLEAN :
          article' = IF article[a].exists THEN article
                     ELSE [article EXCEPT ![a] = [exists |-> TRUE, consumable |-> consumable, bought |-> FALSE]]
    BY <1>8 DEF InsertArticle
  <2> DEFINE row == [exists |-> TRUE, consumable |-> consumable, bought |-> FALSE]
  <2>5. row \in ArticleRow /\ ~row.bought
    BY DEF ArticleRow
  <2> HIDE DEF row
  <2>6. /\ article' \in [ArticleNames -> ArticleRow]
        /\ article'[a] = article[a] \/ ~article'[a].bought
        /\ \A b \in ArticleNames \ {a} : article'[b] = article[b]
    <3>1. CASE article[a].exists
      BY <3>1, <2>4, <1>5
    <3>2. CASE ~article[a].exists
      <4>1. article' = [article EXCEPT ![a] = row]
        BY <3>2, <2>4 DEF row
      <4> QED BY <4>1, <2>5, <1>5, <1>3
    <3> QED BY <3>1, <3>2
  <2>2. InventoryTypeOK' /\ Others /\ unsettled' = unsettled
    BY <2>0, <2>6, <1>1, <1>6, <1>8, GoingKeepsTypes DEF InsertArticle, InventoryTypeOK
  <2>3. a \notin unsettled => ReliesOn(e, article'[a], cycle'[a], listed'[a])
    BY <2>0, <2>1, <2>6, <1>4, <1>8 DEF InsertArticle, At, ReliesOn, Balanced
  <2> QED BY <2>0, <2>1, <2>2, <2>3, <1>3, ErrandStepKeeps
<1>9. CASE FindAgain(s)
  <2>1. CASE article[a].exists
    <3>0. Go(s, "find") /\ "find" \in ErrandStages
      BY <2>1, <1>9 DEF FindAgain, ErrandStages
    <3>1. PICK e \in ErrandInHand : errand' = [errand EXCEPT ![s] = e] /\ e.stage = "find" /\ e.name = a
      BY <3>0, <1>1, GoingKeepsTypes
    <3>2. InventoryTypeOK' /\ Others /\ unsettled' = unsettled
      BY <3>0, <1>1, <1>6, <1>9, GoingKeepsTypes DEF FindAgain, InventoryTypeOK
    <3>3. a \notin unsettled => ReliesOn(e, article'[a], cycle'[a], listed'[a])
      BY <3>1, <1>4, <1>9 DEF FindAgain, At, ReliesOn
    <3> QED BY <3>1, <3>2, <3>3, <1>3, ErrandStepKeeps
  <2>2. CASE ~article[a].exists
    <3>1. Finish(s)
      BY <2>2, <1>9 DEF FindAgain
    <3>2. InventoryTypeOK' /\ Others /\ unsettled' = unsettled
      BY <3>1, <1>6, <1>9, FinishingKeepsTypes DEF FindAgain, InventoryTypeOK
    <3>3. a \notin unsettled => Balanced(article'[a], cycle'[a], listed'[a])
      BY <1>4, <1>9 DEF FindAgain, At, ReliesOn
    <3> QED BY <3>1, <3>2, <3>3, <1>3, FinishingKeepsTypes, ErrandStepKeeps
  <2> QED BY <2>1, <2>2
<1>10. CASE SavePurchase(s)
  <2>0. Go(s, "check") /\ "check" \in ErrandStages
    BY <1>10 DEF SavePurchase, ErrandStages
  <2>1. PICK e \in ErrandInHand : errand' = [errand EXCEPT ![s] = e] /\ e.stage = "check" /\ e.name = a
    BY <2>0, <1>1, GoingKeepsTypes
  <2>4. [article[a] EXCEPT !.bought = TRUE] \in ArticleRow
    BY <1>5 DEF ArticleRow
  <2>5. article' \in [ArticleNames -> ArticleRow] /\ \A b \in ArticleNames \ {a} : article'[b] = article[b]
    BY <2>4, <1>5, <1>10 DEF SavePurchase
  <2>2. InventoryTypeOK' /\ Others /\ unsettled' = unsettled
    BY <2>0, <2>5, <1>1, <1>6, <1>10, GoingKeepsTypes DEF SavePurchase, InventoryTypeOK
  <2>3. ReliesOn(e, article'[a], cycle'[a], listed'[a])
    BY <2>1 DEF ReliesOn
  <2> QED BY <2>1, <2>2, <2>3, <1>3, ErrandStepKeeps
<1>11. CASE CheckOpenCycle(s)
  <2>0. PICK stage \in ErrandStages :
          /\ Go(s, stage)
          /\ stage = IF article[a].consumable /\ cycle[a] = 0 THEN "open" ELSE "mark"
    BY <1>11 DEF CheckOpenCycle, ErrandStages
  <2>1. PICK e \in ErrandInHand : errand' = [errand EXCEPT ![s] = e] /\ e.stage = stage /\ e.name = a
    BY <2>0, <1>1, GoingKeepsTypes
  <2>2. InventoryTypeOK' /\ Others /\ unsettled' = unsettled
    BY <2>0, <1>1, <1>6, <1>11, GoingKeepsTypes DEF CheckOpenCycle, InventoryTypeOK
  <2>3. ReliesOn(e, article'[a], cycle'[a], listed'[a])
    BY <2>0, <2>1, <1>11 DEF CheckOpenCycle, ReliesOn
  <2> QED BY <2>0, <2>1, <2>2, <2>3, <1>3, ErrandStepKeeps
<1>12. CASE OpenCycle(s)
  <2>0. Go(s, "mark") /\ "mark" \in ErrandStages
    BY <1>12 DEF OpenCycle, ErrandStages
  <2>1. PICK e \in ErrandInHand : errand' = [errand EXCEPT ![s] = e] /\ e.stage = "mark" /\ e.name = a
    BY <2>0, <1>1, GoingKeepsTypes
  <2>5. /\ cycle' \in [ArticleNames -> Nat] /\ cycles' \in Nat /\ cycle'[a] # 0
        /\ \A b \in ArticleNames \ {a} : cycle'[b] = cycle[b]
    BY <1>3, <1>5, <1>12 DEF OpenCycle
  <2>2. InventoryTypeOK' /\ Others /\ unsettled' = unsettled
    BY <2>0, <2>5, <1>1, <1>6, <1>12, GoingKeepsTypes DEF OpenCycle, InventoryTypeOK, CycleRow
  <2>3. ReliesOn(e, article'[a], cycle'[a], listed'[a])
    BY <2>1, <2>5 DEF ReliesOn
  <2> QED BY <2>1, <2>2, <2>3, <1>3, ErrandStepKeeps
<1>13. CASE MarkPendingListItemsPurchased(s)
  <2>1. Finish(s)
    BY <1>13 DEF MarkPendingListItemsPurchased
  <2>5. /\ listed' \in [ArticleNames -> Nat] /\ listed'[a] = 0
        /\ \A b \in ArticleNames \ {a} : listed'[b] = listed[b]
    BY <1>3, <1>5, <1>13 DEF MarkPendingListItemsPurchased
  <2>2. InventoryTypeOK' /\ Others /\ unsettled' = unsettled
    BY <2>1, <2>5, <1>6, <1>13, FinishingKeepsTypes
       DEF MarkPendingListItemsPurchased, InventoryTypeOK, ListItems
  <2>3. a \notin unsettled => Balanced(article'[a], cycle'[a], listed'[a])
    BY <2>5, <1>4, <1>13 DEF MarkPendingListItemsPurchased, At, ReliesOn, Balanced
  <2> QED BY <2>1, <2>2, <2>3, <1>3, FinishingKeepsTypes, ErrandStepKeeps
<1>14. CASE ReadInTransaction(s)
  <2> DEFINE seen == IF article[a].consumable THEN cycle[a] ELSE -1
             e == [errand[s] EXCEPT !.stage = "commit", !.seen = seen]
  <2>5. seen \in Int
    BY <1>5
  <2>6. \A n \in Int : LET r == [errand[s] EXCEPT !.stage = "commit", !.seen = n]
                       IN  r \in ErrandInHand /\ r.stage = "commit" /\ r.name = a /\ r.seen = n
    BY <1>2 DEF ErrandInHand, ErrandStages
  <2>1. /\ e \in ErrandInHand /\ e.stage = "commit" /\ e.name = a
        /\ e.seen = seen
    <3> HIDE DEF seen
    <3> QED BY <2>5, <2>6
  <2>4. errand' = [errand EXCEPT ![s] = e]
    BY <1>14 DEF ReadInTransaction
  <2> HIDE DEF e
  <2>2. InventoryTypeOK' /\ Others /\ unsettled' = unsettled
    BY <2>1, <2>4, <1>6, <1>14 DEF ReadInTransaction, InventoryTypeOK
  <2>3. ReliesOn(e, article'[a], cycle'[a], listed'[a])
    BY <2>1, <1>14 DEF ReadInTransaction, ReliesOn
  <2> QED BY <2>1, <2>2, <2>3, <2>4, <1>3, ErrandStepKeeps
<1>15. CASE CommitWithExpense(s)
  <2>1. Finish(s)
    BY <1>15 DEF CommitWithExpense
  <2>4. [article[a] EXCEPT !.bought = TRUE] \in ArticleRow
    BY <1>5 DEF ArticleRow
  <2>5. /\ article' \in [ArticleNames -> ArticleRow] /\ listed' \in [ArticleNames -> Nat]
        /\ listed'[a] = 0 /\ article'[a].consumable = article[a].consumable
        /\ \A b \in ArticleNames \ {a} : article'[b] = article[b] /\ listed'[b] = listed[b]
    BY <2>4, <1>3, <1>5, <1>15 DEF CommitWithExpense, ArticleRow
  <2>6. /\ cycle' \in [ArticleNames -> Nat] /\ cycles' \in Nat
        /\ cycle'[a] = IF errand[s].seen = 0 THEN cycles + 1 ELSE cycle[a]
        /\ \A b \in ArticleNames \ {a} : cycle'[b] = cycle[b]
    BY <1>3, <1>5, <1>15 DEF CommitWithExpense
  <2>2. InventoryTypeOK' /\ Others /\ unsettled' = unsettled
    BY <2>1, <2>5, <2>6, <1>6, <1>15, FinishingKeepsTypes
       DEF CommitWithExpense, InventoryTypeOK, ListItems, CycleRow
  <2>3. a \notin unsettled => Balanced(article'[a], cycle'[a], listed'[a])
    BY <2>5, <2>6, <1>4, <1>5, <1>15 DEF CommitWithExpense, At, ReliesOn, Balanced
  <2> QED BY <2>1, <2>2, <2>3, <1>3, FinishingKeepsTypes, ErrandStepKeeps
<1>16. CASE CloseCycle(s)
  <2>0. Go(s, "look") /\ "look" \in ErrandStages
    BY <1>16 DEF CloseCycle, ErrandStages
  <2>1. PICK e \in ErrandInHand : errand' = [errand EXCEPT ![s] = e] /\ e.stage = "look" /\ e.name = a
    BY <2>0, <1>1, GoingKeepsTypes
  <2>5. /\ cycle' \in [ArticleNames -> Nat]
        /\ cycle[a] = errand[s].seen => cycle'[a] = 0
        /\ \A b \in ArticleNames \ {a} : cycle'[b] = cycle[b]
    BY <1>3, <1>5, <1>16 DEF CloseCycle
  <2>2. InventoryTypeOK' /\ Others /\ unsettled' = unsettled
    BY <2>0, <2>5, <1>1, <1>6, <1>16, GoingKeepsTypes DEF CloseCycle, InventoryTypeOK, CycleRow
  <2>3. a \notin unsettled => ReliesOn(e, article'[a], cycle'[a], listed'[a])
    BY <2>1, <2>5, <1>4, <1>16 DEF CloseCycle, At, ReliesOn
  <2> QED BY <2>1, <2>2, <2>3, <1>3, ErrandStepKeeps
<1>17. CASE LookAtList(s)
  <2>1. CASE listed[a] > 0
    <3>1. Finish(s)
      BY <2>1, <1>17 DEF LookAtList
    <3>2. InventoryTypeOK' /\ Others /\ unsettled' = unsettled
      BY <3>1, <1>6, <1>17, FinishingKeepsTypes DEF LookAtList, InventoryTypeOK
    <3>3. a \notin unsettled => Balanced(article'[a], cycle'[a], listed'[a])
      BY <2>1, <1>4, <1>5, <1>17 DEF LookAtList, At, ReliesOn, Balanced
    <3> QED BY <3>1, <3>2, <3>3, <1>3, FinishingKeepsTypes, ErrandStepKeeps
  <2>2. CASE ~(listed[a] > 0)
    <3>0. Go(s, "add") /\ "add" \in ErrandStages
      BY <2>2, <1>17 DEF LookAtList, ErrandStages
    <3>1. PICK e \in ErrandInHand : errand' = [errand EXCEPT ![s] = e] /\ e.stage = "add" /\ e.name = a
      BY <3>0, <1>1, GoingKeepsTypes
    <3>2. InventoryTypeOK' /\ Others /\ unsettled' = unsettled
      BY <3>0, <1>1, <1>6, <1>17, GoingKeepsTypes DEF LookAtList, InventoryTypeOK
    <3>3. a \notin unsettled => ReliesOn(e, article'[a], cycle'[a], listed'[a])
      BY <3>1, <1>4, <1>17 DEF LookAtList, At, ReliesOn
    <3> QED BY <3>1, <3>2, <3>3, <1>3, ErrandStepKeeps
  <2> QED BY <2>1, <2>2
<1>18. CASE AddToShoppingList(s)
  <2>1. Finish(s)
    BY <1>18 DEF AddToShoppingList
  <2>5. /\ listed' \in [ArticleNames -> Nat] /\ listed'[a] # 0
        /\ \A b \in ArticleNames \ {a} : listed'[b] = listed[b]
    BY <1>3, <1>5, <1>18 DEF AddToShoppingList
  <2>2. InventoryTypeOK' /\ Others /\ unsettled' = unsettled
    BY <2>1, <2>5, <1>6, <1>18, FinishingKeepsTypes DEF AddToShoppingList, InventoryTypeOK, ListItems
  <2>3. a \notin unsettled => Balanced(article'[a], cycle'[a], listed'[a])
    BY <2>5, <1>4, <1>18 DEF AddToShoppingList, At, ReliesOn, Balanced
  <2> QED BY <2>1, <2>2, <2>3, <1>3, FinishingKeepsTypes, ErrandStepKeeps
<1> QED BY <1>7, <1>8, <1>9, <1>10, <1>11, <1>12, <1>13, <1>14, <1>15, <1>16, <1>17, <1>18

\* A request that begins: an article that had none in hand is balanced, and
\* another one is shared from then on.
LEMMA BeginningKeeps ==
  ASSUME HomeInv, NEW s \in Shoppers, NEW a \in ArticleNames, NEW e \in ErrandInHand,
         errand[s].stage = "none", errand' = [errand EXCEPT ![s] = e], e.name = a,
         Unsettle(IF InHand(a) # {} THEN {a} ELSE {}),
         Balanced(article[a], cycle[a], listed[a]) => ReliesOn(e, article[a], cycle[a], listed[a]),
         errands' \in 0 .. MaxErrands, removed' = removed \ {s},
         UNCHANGED <<article, cycle, cycles, listed, refused>>
  PROVE  HomeInv'
<1>1. /\ errand' \in [Shoppers -> {NoErrand} \cup ErrandInHand] /\ errand'[s] = e
      /\ \A t \in Shoppers \ {s} : errand'[t] = errand[t]
  BY DEF HomeInv, InventoryTypeOK
<1>2. /\ unsettled \subseteq unsettled' /\ unsettled' \subseteq ArticleNames
      /\ a \notin unsettled' => \A t \in Shoppers : ~About(errand[t], a)
  BY DEF Unsettle, InHand, About, HomeInv, InventoryTypeOK
<1>3. \A t \in Shoppers, b \in ArticleNames : b # a => (About(errand'[t], b) <=> About(errand[t], b))
  BY <1>1 DEF About
<1>4. a \notin unsettled' => \A t \in Shoppers : About(errand'[t], a) => t = s
  BY <1>1, <1>2 DEF About
<1>5. About(e, a)
  BY DEF About, ErrandInHand, ErrandStages
<1>6. Alone'
  BY <1>2, <1>3, <1>4 DEF Alone, HomeInv
<1>7. Relied'
  <2> SUFFICES ASSUME NEW b \in ArticleNames, NEW t \in Shoppers, b \notin unsettled', About(errand'[t], b)
               PROVE  ReliesOn(errand'[t], article[b], cycle[b], listed[b])
    BY DEF Relied
  <2>1. CASE b = a
    <3>1. t = s /\ a \notin unsettled
      BY <2>1, <1>2, <1>4
    <3> QED BY <3>1, <2>1, <1>1, <1>2 DEF AtRest, HomeInv
  <2>2. CASE b # a
    BY <2>2, <1>1, <1>2, <1>3 DEF Relied, HomeInv, About
  <2> QED BY <2>1, <2>2
<1>8. AtRest'
  BY <1>1, <1>2, <1>3, <1>5 DEF AtRest, HomeInv
<1>9. InventoryTypeOK'
  BY <1>1, <1>2 DEF HomeInv, InventoryTypeOK
<1> QED BY <1>6, <1>7, <1>8, <1>9 DEF HomeInv

\* A failure or a removal takes the article out of what is promised.
LEMMA UnsettlingKeeps ==
  ASSUME HomeInv, NEW a \in ArticleNames, Unsettle({a}), InventoryTypeOK',
         \A b \in ArticleNames \ {a} :
           /\ article'[b] = article[b] /\ cycle'[b] = cycle[b] /\ listed'[b] = listed[b]
           /\ \A s \in Shoppers : About(errand'[s], b) <=> About(errand[s], b),
         \A s \in Shoppers : errand'[s] = errand[s] \/ ~ \E b \in ArticleNames : About(errand'[s], b)
  PROVE  HomeInv'
<1>1. unsettled' = unsettled \cup {a}
  BY DEF Unsettle
<1>2. Alone'
  BY <1>1 DEF HomeInv, Alone
<1>3. Relied'
  <2> SUFFICES ASSUME NEW b \in ArticleNames, NEW s \in Shoppers, b \notin unsettled', About(errand'[s], b)
               PROVE  ReliesOn(errand'[s], article'[b], cycle'[b], listed'[b])
    BY DEF Relied
  <2>1. b # a /\ b \notin unsettled /\ errand'[s] = errand[s] /\ About(errand[s], b)
    BY <1>1
  <2> QED BY <2>1 DEF HomeInv, Relied
<1>4. AtRest'
  BY <1>1 DEF HomeInv, AtRest
<1> QED BY <1>2, <1>3, <1>4 DEF HomeInv

LEMMA HomeStep == HomeInv /\ [InventoryNext]_inventoryVars => HomeInv'
<1> SUFFICES ASSUME HomeInv, [InventoryNext]_inventoryVars PROVE HomeInv'
  OBVIOUS
<1>1. ASSUME NEW s \in Shoppers, NEW a \in ArticleNames, NEW kind \in {"own", "expense"}, BeginPurchase(s, a, kind)
      PROVE  HomeInv'
  <2> DEFINE e == [stage |-> "find", name |-> a, kind |-> kind, seen |-> 0]
  <2>1. e \in ErrandInHand /\ e.stage = "find" /\ e.name = a
    BY DEF ErrandInHand, ErrandStages, ErrandKinds
  <2>2. errand[s].stage = "none" /\ errand' = [errand EXCEPT ![s] = e]
    BY <1>1 DEF BeginPurchase, BeginErrand
  <2> HIDE DEF e
  <2>3. Balanced(article[a], cycle[a], listed[a]) => ReliesOn(e, article[a], cycle[a], listed[a])
    BY <2>1 DEF ReliesOn
  <2>4. errands' \in 0 .. MaxErrands
    BY <1>1, InventoryAssumption DEF BeginPurchase, BeginErrand, HomeInv, InventoryTypeOK
  <2> QED BY <2>1, <2>2, <2>3, <2>4, <1>1, BeginningKeeps DEF BeginPurchase, BeginErrand
<1>2. ASSUME NEW s \in Shoppers, NEW a \in ArticleNames, BeginDepletion(s, a)
      PROVE  HomeInv'
  <2> DEFINE e == [stage |-> "close", name |-> a, kind |-> "depletion", seen |-> cycle[a]]
  <2>1. e \in ErrandInHand /\ e.stage = "close" /\ e.name = a /\ e.seen = cycle[a]
    BY DEF ErrandInHand, ErrandStages, ErrandKinds, HomeInv, InventoryTypeOK, CycleRow
  <2>2. errand[s].stage = "none" /\ errand' = [errand EXCEPT ![s] = e]
    BY <1>2 DEF BeginDepletion
  <2> HIDE DEF e
  <2>3. ReliesOn(e, article[a], cycle[a], listed[a])
    BY <2>1 DEF ReliesOn
  <2>4. errands' \in 0 .. MaxErrands
    BY <1>2, InventoryAssumption DEF BeginDepletion, HomeInv, InventoryTypeOK
  <2> QED BY <2>1, <2>2, <2>3, <2>4, <1>2, BeginningKeeps DEF BeginDepletion
<1>3. ASSUME NEW s \in Shoppers, FailErrand(s) PROVE HomeInv'
  <2> DEFINE a == errand[s].name
  <2>1. a \in ArticleNames /\ Unsettle({a}) /\ Finish(s)
    BY <1>3, ErrandsAreTyped DEF FailErrand, HomeInv, ErrandInHand
  <2>2. /\ errand'[s] = NoErrand /\ NoErrand.stage = "none"
        /\ \A t \in Shoppers \ {s} : errand'[t] = errand[t]
    BY <2>1, FinishingKeepsTypes DEF HomeInv, InventoryTypeOK
  <2>3. InventoryTypeOK'
    <3>1. unsettled' \subseteq ArticleNames
      BY <2>1 DEF Unsettle, HomeInv, InventoryTypeOK
    <3> QED BY <3>1, <2>1, <1>3, FinishingKeepsTypes DEF FailErrand, HomeInv, InventoryTypeOK
  <2>4. \A b \in ArticleNames \ {a}, t \in Shoppers : About(errand'[t], b) <=> About(errand[t], b)
    BY <2>2 DEF About
  <2>5. \A t \in Shoppers : errand'[t] = errand[t] \/ ~ \E b \in ArticleNames : About(errand'[t], b)
    BY <2>2 DEF About
  <2> HIDE DEF a
  <2> QED BY <2>1, <2>3, <2>4, <2>5, <1>3, UnsettlingKeeps DEF FailErrand
<1>4. ASSUME NEW a \in ArticleNames, RemoveArticle(a) PROVE HomeInv'
  <2>1. InventoryTypeOK'
    <3>1. [article[a] EXCEPT !.exists = FALSE, !.bought = FALSE] \in ArticleRow
      BY DEF HomeInv, InventoryTypeOK, ArticleRow
    <3>2. article' = [article EXCEPT ![a] = [article[a] EXCEPT !.exists = FALSE, !.bought = FALSE]]
      BY <1>4 DEF RemoveArticle, HomeInv, InventoryTypeOK
    <3>3. article' \in [ArticleNames -> ArticleRow]
      BY <3>1, <3>2 DEF HomeInv, InventoryTypeOK
    <3>4. cycle' \in [ArticleNames -> Nat] /\ listed' \in [ArticleNames -> Nat]
      BY <1>4 DEF RemoveArticle, HomeInv, InventoryTypeOK, CycleRow, ListItems
    <3>5. unsettled' \subseteq ArticleNames
      BY <1>4 DEF RemoveArticle, Unsettle, HomeInv, InventoryTypeOK
    <3>6. removed' \subseteq Shoppers
      BY <1>4 DEF RemoveArticle, InHand, HomeInv, InventoryTypeOK
    <3> QED BY <3>3, <3>4, <3>5, <3>6, <1>4 DEF RemoveArticle, HomeInv, InventoryTypeOK, CycleRow, ListItems
  <2>2. \A b \in ArticleNames \ {a} :
          article'[b] = article[b] /\ cycle'[b] = cycle[b] /\ listed'[b] = listed[b]
    BY <1>4 DEF RemoveArticle, HomeInv, InventoryTypeOK
  <2> QED BY <2>1, <2>2, <1>4, UnsettlingKeeps DEF RemoveArticle
<1>5. CASE UNCHANGED inventoryVars
  BY <1>5 DEF inventoryVars, HomeInv, InventoryTypeOK, Alone, Relied, AtRest
<1> QED BY <1>1, <1>2, <1>3, <1>4, <1>5, ErrandSteps DEF InventoryNext

\* A request that was told the article is there finds it, but for its removal.
Found(s) == errand[s].stage = "again" => article[errand[s].name].exists \/ s \in removed
SharedInv == InventoryTypeOK /\ CreationShared /\ \A s \in Shoppers : Found(s)

LEMMA SharedStep ==
  ASSUME SharedInv, HomeInv, [InventoryNext]_inventoryVars
  PROVE  SharedInv'
<1>1. InventoryTypeOK'
  BY HomeStep DEF HomeInv
<1>2. InventoryTypeOK
  BY DEF HomeInv
<1>3. \A s \in Shoppers : errand[s].stage # "none" => errand[s].name \in ArticleNames
  BY <1>2, ErrandsAreTyped DEF ErrandInHand
<1>4. NoErrand.stage = "none"
  BY DEF NoErrand
\* What any step does to the articles: only a removal takes one away.
<1> DEFINE Stays == \A a \in ArticleNames : article[a].exists => article'[a].exists
<1>5. ASSUME NEW s \in Shoppers, NEW e, errand' = [errand EXCEPT ![s] = e],
             e.stage # "again", Stays, removed \ {s} \subseteq removed', refused' = refused
      PROVE  SharedInv'
  <2>1. errand'[s] = e /\ \A t \in Shoppers \ {s} : errand'[t] = errand[t]
    BY <1>2, <1>5 DEF InventoryTypeOK
  <2>2. ASSUME NEW t \in Shoppers, errand'[t].stage = "again"
        PROVE  article'[errand'[t].name].exists \/ t \in removed'
    <3>1. t # s /\ errand'[t] = errand[t]
      BY <1>5, <2>1, <2>2
    <3>2. article[errand[t].name].exists \/ t \in removed
      BY <2>2, <3>1 DEF SharedInv, Found
    <3>3. errand[t].name \in ArticleNames
      BY <1>3, <2>2, <3>1
    <3> QED BY <1>5, <3>1, <3>2, <3>3
  <2> QED BY <1>1, <1>5, <2>2 DEF SharedInv, Found, CreationShared
<1>6. ASSUME NEW s \in Shoppers, NEW stage \in ErrandStages, stage # "again", errand[s].stage # "none",
             Go(s, stage), Stays, removed' = removed, refused' = refused
      PROVE  SharedInv'
  <2>1. PICK e \in ErrandInHand : errand' = [errand EXCEPT ![s] = e] /\ e.stage = stage
    BY <1>6, GoingKeepsTypes
  <2> HIDE DEF Stays
  <2> QED BY <1>5, <1>6, <2>1
<1>7. ASSUME NEW s \in Shoppers, Finish(s), Stays, removed' = removed, refused' = refused
      PROVE  SharedInv'
  <2>1. errand' = [errand EXCEPT ![s] = NoErrand] /\ NoErrand.stage # "again"
    BY <1>4, <1>7 DEF Finish
  <2> HIDE DEF Stays
  <2> QED BY <1>5, <1>7, <2>1
<1>8. ASSUME UNCHANGED article PROVE Stays
  BY <1>8
<1>9. ASSUME NEW s \in Shoppers, FindArticle(s) \/ CheckOpenCycle(s) \/ OpenCycle(s) \/ CloseCycle(s)
      PROVE  SharedInv'
  <2>1. /\ \E stage \in ErrandStages \ {"again"} : Go(s, stage)
        /\ errand[s].stage # "none" /\ UNCHANGED article /\ removed' = removed /\ refused' = refused
    BY <1>9 DEF FindArticle, CheckOpenCycle, OpenCycle, CloseCycle, At, ErrandStages
  <2> HIDE DEF Stays
  <2> QED BY <1>6, <1>8, <2>1
<1>10. ASSUME NEW s \in Shoppers, SavePurchase(s) PROVE SharedInv'
  <2>1. /\ Go(s, "check") /\ "check" \in ErrandStages
        /\ errand[s].stage # "none" /\ removed' = removed /\ refused' = refused
    BY <1>10 DEF SavePurchase, At, ErrandStages
  <2>2. Stays
    BY <1>2, <1>10 DEF SavePurchase, InventoryTypeOK, ArticleRow
  <2> HIDE DEF Stays
  <2> QED BY <1>6, <2>1, <2>2
<1>11. ASSUME NEW s \in Shoppers, ReadInTransaction(s) PROVE SharedInv'
  <2> DEFINE e == [errand[s] EXCEPT !.stage = "commit",
                                   !.seen = IF article[errand[s].name].consumable
                                            THEN cycle[errand[s].name] ELSE -1]
  <2>1. errand' = [errand EXCEPT ![s] = e] /\ UNCHANGED article /\ removed' = removed /\ refused' = refused
    BY <1>11 DEF ReadInTransaction
  <2>2. errand[s] \in ErrandInHand
    BY <1>2, <1>11, ErrandsAreTyped DEF ReadInTransaction, At
  <2>3. e.stage # "again"
    BY <2>2 DEF ErrandInHand
  <2> HIDE DEF e, Stays
  <2> QED BY <1>5, <1>8, <2>1, <2>3
<1>12. ASSUME NEW s \in Shoppers, MarkPendingListItemsPurchased(s) \/ AddToShoppingList(s) \/ FailErrand(s)
       PROVE  SharedInv'
  <2>1. Finish(s) /\ UNCHANGED article /\ removed' = removed /\ refused' = refused
    BY <1>12 DEF MarkPendingListItemsPurchased, AddToShoppingList, FailErrand
  <2> HIDE DEF Stays
  <2> QED BY <1>7, <1>8, <2>1
<1>13. ASSUME NEW s \in Shoppers, LookAtList(s) PROVE SharedInv'
  <2>1. /\ Finish(s) \/ Go(s, "add")
        /\ "add" \in ErrandStages /\ errand[s].stage # "none"
        /\ UNCHANGED article /\ removed' = removed /\ refused' = refused
    BY <1>13 DEF LookAtList, At, ErrandStages
  <2> HIDE DEF Stays
  <2> QED BY <1>6, <1>7, <1>8, <2>1
<1>14. ASSUME NEW s \in Shoppers, CommitWithExpense(s) PROVE SharedInv'
  <2>1. Finish(s) /\ removed' = removed /\ refused' = refused
    BY <1>14 DEF CommitWithExpense
  <2>2. Stays
    BY <1>2, <1>14 DEF CommitWithExpense, InventoryTypeOK, ArticleRow
  <2> HIDE DEF Stays
  <2> QED BY <1>7, <2>1, <2>2
<1>15. ASSUME NEW s \in Shoppers, InsertArticle(s) PROVE SharedInv'
  <2> DEFINE a == errand[s].name
  <2>1. errand[s].stage # "none" /\ a \in ArticleNames /\ removed' = removed /\ refused' = refused
    BY <1>3, <1>15 DEF InsertArticle, At
  <2>2. CASE article[a].exists
    <3>1. Go(s, "again") /\ article' = article
      BY <1>15, <2>2 DEF InsertArticle
    <3>2. PICK e \in ErrandInHand : errand' = [errand EXCEPT ![s] = e] /\ e.name = a
      BY <2>1, <3>1, GoingKeepsTypes DEF ErrandStages
    <3>3. errand'[s] = e /\ \A t \in Shoppers \ {s} : errand'[t] = errand[t]
      BY <1>2, <3>2 DEF InventoryTypeOK
    <3>4. ASSUME NEW t \in Shoppers, errand'[t].stage = "again"
          PROVE  article'[errand'[t].name].exists \/ t \in removed'
      <4>1. CASE t = s
        BY <2>2, <3>1, <3>2, <3>3, <4>1
      <4>2. CASE t # s
        BY <2>1, <3>1, <3>3, <3>4, <4>2 DEF SharedInv, Found
      <4> QED BY <4>1, <4>2
    <3> QED BY <1>1, <2>1, <3>4 DEF SharedInv, Found, CreationShared
  <2>3. CASE ~article[a].exists
    <3>1. Go(s, "find") /\ "find" \in ErrandStages
      BY <1>15, <2>3 DEF InsertArticle, ErrandStages
    <3>2. PICK consumable \in BOOLEAN :
            article' = [article EXCEPT ![a] = [exists |-> TRUE, consumable |-> consumable, bought |-> FALSE]]
      BY <1>15, <2>3 DEF InsertArticle
    <3>3. Stays
      BY <1>2, <2>1, <3>2 DEF InventoryTypeOK
    <3> HIDE DEF Stays
    <3> QED BY <1>6, <2>1, <3>1, <3>3
  <2> QED BY <2>2, <2>3
<1>16. ASSUME NEW s \in Shoppers, FindAgain(s) PROVE SharedInv'
  <2> DEFINE a == errand[s].name
  <2>1. errand[s].stage = "again" /\ UNCHANGED article /\ removed' = removed
    BY <1>16 DEF FindAgain, At
  <2>2. article[a].exists \/ s \in removed
    BY <2>1 DEF SharedInv, Found
  <2>3. refused' = refused
    <3>1. refused = FALSE
      <4>1. ~refused
        BY <1>1 DEF SharedInv, CreationShared
      <4>2. refused \in BOOLEAN
        BY <1>2 DEF InventoryTypeOK
      <4> QED BY <4>1, <4>2
    <3>2. refused' = (refused \/ (~article[a].exists /\ s \notin removed))
      BY <1>16 DEF FindAgain
    <3>3. ~(~article[a].exists /\ s \notin removed)
      BY <2>2
    <3> QED BY <3>1, <3>2, <3>3, Zenon
  <2>4. Finish(s) \/ Go(s, "find")
    BY <1>16 DEF FindAgain
  <2>5. "find" \in ErrandStages
    BY DEF ErrandStages
  <2> HIDE DEF Stays
  <2> QED BY <1>6, <1>7, <1>8, <2>1, <2>3, <2>4, <2>5
<1>17. ASSUME NEW s \in Shoppers, NEW a \in ArticleNames, NEW kind \in {"own", "expense"},
              BeginPurchase(s, a, kind) \/ BeginDepletion(s, a)
       PROVE  SharedInv'
  <2>1. /\ UNCHANGED article /\ removed' = removed \ {s} /\ refused' = refused
        /\ \/ errand' = [errand EXCEPT ![s] = [stage |-> "find", name |-> a, kind |-> kind, seen |-> 0]]
           \/ errand' = [errand EXCEPT ![s] = [stage |-> "close", name |-> a, kind |-> "depletion", seen |-> cycle[a]]]
    BY <1>17 DEF BeginPurchase, BeginErrand, BeginDepletion
  <2>2. \E e : errand' = [errand EXCEPT ![s] = e] /\ e.stage # "again"
    <3>1. /\ [stage |-> "find", name |-> a, kind |-> kind, seen |-> 0].stage # "again"
          /\ [stage |-> "close", name |-> a, kind |-> "depletion", seen |-> cycle[a]].stage # "again"
      OBVIOUS
    <3> HIDE DEF Stays
    <3> QED BY <2>1, <3>1, Zenon
  <2> HIDE DEF Stays
  <2> QED BY <1>5, <1>8, <2>1, <2>2
<1>18. ASSUME NEW a \in ArticleNames, RemoveArticle(a) PROVE SharedInv'
  <2>1. /\ errand' = errand /\ removed' = removed \cup InHand(a) /\ refused' = refused
        /\ \A b \in ArticleNames \ {a} : article'[b] = article[b]
    BY <1>2, <1>18 DEF RemoveArticle, InventoryTypeOK
  <2>2. ASSUME NEW t \in Shoppers, errand[t].stage = "again"
        PROVE  article'[errand[t].name].exists \/ t \in removed'
    <3>1. CASE errand[t].name = a
      BY <2>1, <2>2, <3>1 DEF InHand
    <3>2. CASE errand[t].name # a
      BY <1>3, <2>1, <2>2, <3>2 DEF SharedInv, Found
    <3> QED BY <3>1, <3>2
  <2> QED BY <1>1, <2>1, <2>2 DEF SharedInv, Found, CreationShared
<1>19. CASE UNCHANGED inventoryVars
  BY <1>1, <1>19 DEF inventoryVars, SharedInv, Found, CreationShared
<1> QED
  BY <1>9, <1>10, <1>11, <1>12, <1>13, <1>14, <1>15, <1>16, <1>17, <1>18, <1>19 DEF InventoryNext


(* The rows of the articles, of the cycles and of the shopping list, and what  *)
(* every request has in hand, whatever is bought, used up or removed at once.  *)
THEOREM InventoryTypeCorrect == InventorySpec => []InventoryTypeOK
<1>1. HomeInv => InventoryTypeOK
  BY DEF HomeInv
<1> QED BY <1>1, HomeInit, HomeStep, PTL DEF InventorySpec

(* A consumable that was bought, that no request has in hand and that two      *)
(* never handled at once, is either at home with a cycle open or on the list,  *)
(* though a purchase commits after every statement and running out commits     *)
(* twice (recordPurchase, registerInventoryPurchases, markDepleted).           *)
THEOREM HomeIsKept == InventorySpec => []InStockOrListed
<1>1. HomeInv => InStockOrListed
  BY DEF HomeInv, AtRest, Balanced, InStockOrListed, InHand, About
<1> QED BY <1>1, HomeInit, HomeStep, PTL DEF InventorySpec

(* A purchase that meets another one creating its article goes on with that     *)
(* article: it only finds none if somebody removed it in between                *)
(* (findOrCreateByName, and the second look after a unique violation).          *)
THEOREM CreationIsShared == InventorySpec => []CreationShared
<1>1. InventoryInit => SharedInv
  <2> SUFFICES ASSUME InventoryInit PROVE SharedInv
    OBVIOUS
  <2>1. InventoryTypeOK
    BY HomeInit DEF HomeInv
  <2>2. \A s \in Shoppers : errand[s].stage = "none"
    BY DEF InventoryInit, NoErrand
  <2>3. CreationShared
    BY DEF InventoryInit, CreationShared
  <2> QED BY <2>1, <2>2, <2>3 DEF SharedInv, Found
<1>2. SharedInv /\ HomeInv /\ HomeInv' /\ [InventoryNext]_inventoryVars => SharedInv'
  BY SharedStep
<1>3. SharedInv => CreationShared
  BY DEF SharedInv
<1>4. InventorySpec => []HomeInv
  BY HomeInit, HomeStep, PTL DEF InventorySpec
<1> QED BY <1>1, <1>2, <1>3, <1>4, PTL DEF InventorySpec

-----------------------------------------------------------------------------
(* Sums of integers over finite sets, continued.                             *)

\* The sum over a set with one more element.
LEMMA SumWithOne ==
  ASSUME NEW f, NEW S, IsFiniteSet(S), NEW x, x \notin S, \A y \in S \cup {x} : f[y] \in Int
  PROVE  SumFunctionOnSet(f, S \cup {x}) = SumFunctionOnSet(f, S) + f[x]
<1>1. IsFiniteSet(S \cup {x}) /\ (S \cup {x}) \ {x} = S
  BY FS_AddElement
<1>2. SumFunctionOnSet(f, S \cup {x}) = f[x] + SumFunctionOnSet(f, (S \cup {x}) \ {x})
  BY <1>1, SumTakesOut
<1>3. SumFunctionOnSet(f, S) \in Int /\ f[x] \in Int
  BY SumIsInt
<1>4. SumFunctionOnSet(f, S \cup {x}) = f[x] + SumFunctionOnSet(f, S)
  BY <1>1, <1>2, Zenon
<1> QED BY <1>3, <1>4

\* Two disjoint sets.
LEMMA SumOfBoth ==
  ASSUME NEW f, NEW S, NEW T, IsFiniteSet(S), IsFiniteSet(T), S \cap T = {},
         \A x \in S \cup T : f[x] \in Int
  PROVE  SumFunctionOnSet(f, S \cup T) = SumFunctionOnSet(f, S) + SumFunctionOnSet(f, T)
<1>1. IsFiniteSet(S \cup T) /\ S \in SUBSET (S \cup T) /\ (S \cup T) \ S = T
  BY FS_Union
<1> QED BY <1>1, SumSplits

\* Two functions that differ in one place.
DifferAt(f, g, S, x) ==
  /\ IsFiniteSet(S) /\ x \in S /\ \A y \in S : f[y] \in Int /\ g[y] \in Int
  /\ \A y \in S \ {x} : f[y] = g[y]

LEMMA SumsDifferAt ==
  ASSUME NEW f, NEW g, NEW S, NEW x, DifferAt(f, g, S, x)
  PROVE  SumFunctionOnSet(g, S) = SumFunctionOnSet(f, S) - f[x] + g[x]
<1>0. /\ IsFiniteSet(S) /\ x \in S /\ \A y \in S : f[y] \in Int /\ g[y] \in Int
      /\ \A y \in S \ {x} : f[y] = g[y]
  BY DEF DifferAt
<1>1. IsFiniteSet(S \ {x})
  BY <1>0, FS_Subset
<1>2. SumFunctionOnSet(f, S \ {x}) = SumFunctionOnSet(g, S \ {x}) /\ SumFunctionOnSet(f, S \ {x}) \in Int
  BY <1>0, <1>1, SumAgrees, SumIsInt
<1>3. /\ SumFunctionOnSet(f, S) = f[x] + SumFunctionOnSet(f, S \ {x})
      /\ SumFunctionOnSet(g, S) = g[x] + SumFunctionOnSet(g, S \ {x})
  BY <1>0, SumTakesOut
<1>4. f[x] \in Int /\ g[x] \in Int
  BY <1>0
<1> QED BY <1>2, <1>3, <1>4

\* A common factor.
LEMMA SumScaled ==
  ASSUME NEW c \in Int, NEW f, NEW g, NEW S, IsFiniteSet(S),
         \A x \in S : f[x] \in Int /\ g[x] = c * f[x]
  PROVE  SumFunctionOnSet(g, S) = c * SumFunctionOnSet(f, S)
<1> DEFINE Bad == {s \in SUBSET S : SumFunctionOnSet(g, s) # c * SumFunctionOnSet(f, s)}
<1> SUFFICES ASSUME Bad # {} PROVE FALSE
  OBVIOUS
<1>1. PICK s \in Bad : IsFiniteSet(s) /\ \A x \in s : s \ {x} \notin Bad
  <2>1. Bad \in SUBSET SUBSET S
    OBVIOUS
  <2> HIDE DEF Bad
  <2> QED BY <2>1, MinimalIn
<1>2. s # {}
  <2>1. SumFunctionOnSet(g, {}) = c * SumFunctionOnSet(f, {})
    BY SumOfNone
  <2> QED BY <2>1
<1> DEFINE p == SomeOf(s)
           t == s \ {p}
<1>3. /\ p \in s /\ SumFunctionOnSet(f, s) = f[p] + SumFunctionOnSet(f, t)
      /\ SumFunctionOnSet(g, s) = g[p] + SumFunctionOnSet(g, t)
  BY <1>1, <1>2, SumUnfolds
<1> HIDE DEF p
<1>4. t \notin Bad /\ t \in SUBSET S /\ IsFiniteSet(t)
  BY <1>1, <1>3, FS_Subset
<1>5. SumFunctionOnSet(g, t) = c * SumFunctionOnSet(f, t)
  BY <1>4
<1>6. SumFunctionOnSet(f, t) \in Int
  BY <1>4, SumIsInt
<1>7. f[p] \in Int /\ g[p] = c * f[p] /\ SumFunctionOnSet(g, s) # c * SumFunctionOnSet(f, s)
  BY <1>3
<1> HIDE DEF t, Bad
<1>8. c * (f[p] + SumFunctionOnSet(f, t)) = c * f[p] + c * SumFunctionOnSet(f, t)
  BY <1>6, <1>7
<1> QED BY <1>3, <1>5, <1>7, <1>8

-----------------------------------------------------------------------------
(* A sequence with an element put in.                                        *)

LEMMA InsertAtIs ==
  ASSUME NEW T, NEW s \in Seq(T), NEW p \in 1 .. Len(s) + 1, NEW e \in T
  PROVE  /\ InsertAt(s, p, e) \in Seq(T) /\ Len(InsertAt(s, p, e)) = Len(s) + 1
         /\ InsertAt(s, p, e)[p] = e
         /\ \A n \in 1 .. Len(s) : n < p => InsertAt(s, p, e)[n] = s[n]
         /\ \A n \in 1 .. Len(s) : p <= n => InsertAt(s, p, e)[n + 1] = s[n]
<1> DEFINE a == SubSeq(s, 1, p - 1)
           b == SubSeq(s, p, Len(s))
           ae == a \o <<e>>
<1>0. Len(s) \in Nat
  OBVIOUS
<1>1. a \in Seq(T) /\ Len(a) = p - 1 /\ \A n \in 1 .. p - 1 : a[n] = s[n]
  BY <1>0
<1>2. b \in Seq(T) /\ Len(b) = Len(s) - p + 1 /\ \A n \in 1 .. Len(s) - p + 1 : b[n] = s[n + p - 1]
  BY <1>0
<1>3. InsertAt(s, p, e) = ae \o b
  BY DEF InsertAt
<1> HIDE DEF a, b
<1>4. /\ ae \in Seq(T) /\ Len(ae) = p /\ ae[p] = e /\ \A n \in 1 .. p - 1 : ae[n] = s[n]
  BY <1>1
<1> HIDE DEF ae
<1> DEFINE c == ae \o b
<1>5. c \in Seq(T) /\ Len(c) = Len(s) + 1
  BY <1>0, <1>2, <1>4
<1>6. /\ \A n \in 1 .. p : c[n] = ae[n]
      /\ \A n \in p + 1 .. Len(s) + 1 : c[n] = b[n - p]
  BY <1>0, <1>2, <1>4
<1> HIDE DEF c
<1>7. c[p] = e
  BY <1>4, <1>6
<1>8. ASSUME NEW n \in 1 .. Len(s), n < p PROVE c[n] = s[n]
  BY <1>0, <1>4, <1>6, <1>8
<1>9. ASSUME NEW n \in 1 .. Len(s), p <= n PROVE c[n + 1] = s[n]
  <2>1. n + 1 - p \in 1 .. Len(s) - p + 1 /\ n + 1 \in p + 1 .. Len(s) + 1
    BY <1>0, <1>9
  <2>2. c[n + 1] = b[n + 1 - p]
    BY <1>6, <2>1
  <2>3. b[n + 1 - p] = s[(n + 1 - p) + p - 1]
    BY <1>2, <2>1
  <2>4. (n + 1 - p) + p - 1 = n
    BY <1>0
  <2> QED BY <2>2, <2>3, <2>4, Zenon
<1> QED BY <1>3, <1>5, <1>7, <1>8, <1>9 DEF c

\* As many places as a set of places of a sequence has are before its end.
LEMMA PlacesCount ==
  ASSUME NEW s, DOMAIN s = 1 .. Len(s), Len(s) \in Nat, NEW P \in SUBSET DOMAIN s
  PROVE  1 + Cardinality(P) \in 1 .. Len(s) + 1
<1>1. IsFiniteSet(1 .. Len(s)) /\ Cardinality(1 .. Len(s)) = Len(s)
  <2>1. Cardinality(1 .. Len(s)) = IF 1 > Len(s) THEN 0 ELSE Len(s) - 1 + 1
    BY FS_Interval
  <2> QED BY <2>1, FS_Interval
<1>2. IsFiniteSet(P) /\ Cardinality(P) <= Len(s) /\ Cardinality(P) \in Nat
  BY <1>1, FS_Subset, FS_CardinalityType
<1> QED BY <1>2

-----------------------------------------------------------------------------
(* The order of the operations.  Whatever Comes is, sorting lists the        *)
(* operations, each once; the order matters to none of what follows.         *)

Listing(s, S) ==
  /\ s \in Seq(S)
  /\ \A m, n \in 1 .. Len(s) : s[m] = s[n] => m = n
  /\ \A x \in S : \E n \in 1 .. Len(s) : s[n] = x

SortStep(none, sorted, e) == PutInOrder(e, sorted)
Sorting == INSTANCE FoldProofs WITH Step <- SortStep, Pick <- SomeOf

LEMMA SortIsFold ==
  ASSUME NEW events
  PROVE  SortEvents(events) = Sorting!Fold(0, <<>>, events)
BY DEF SortEvents, FoldSet, MapThenFoldSet, Sorting!Fold, Sorting!FoldTable, Sorting!FoldStep,
       SortStep, SomeOf

LEMMA SortFinite == \A S : Sorting!IsFiniteSet(S) <=> IsFiniteSet(S)
BY DEF IsFiniteSet, Sorting!IsFiniteSet

LEMMA SortPicks ==
  ASSUME NEW S
  PROVE  Sorting!Picks(S)
BY SomeIn DEF Sorting!Picks

\* With an element put in, wherever it is, a sequence lists one more.
LEMMA ListsOneMore ==
  ASSUME NEW S, NEW e, e \notin S, NEW s, Listing(s, S), NEW p \in 1 .. Len(s) + 1
  PROVE  Listing(InsertAt(s, p, e), S \cup {e})
<1> DEFINE t == InsertAt(s, p, e)
           N == Len(s)
<1>1. s \in Seq(S \cup {e}) /\ N \in Nat /\ \A n \in 1 .. N : s[n] \in S
  BY DEF Listing
<1>2. /\ t \in Seq(S \cup {e}) /\ Len(t) = N + 1 /\ t[p] = e
      /\ \A n \in 1 .. N : n < p => t[n] = s[n]
      /\ \A n \in 1 .. N : p <= n => t[n + 1] = s[n]
  <2> DEFINE U == S \cup {e}
  <2>1. s \in Seq(U) /\ e \in U
    BY <1>1
  <2> HIDE DEF U
  <2>2. /\ InsertAt(s, p, e) \in Seq(U) /\ Len(InsertAt(s, p, e)) = Len(s) + 1
        /\ InsertAt(s, p, e)[p] = e
        /\ \A n \in 1 .. Len(s) : n < p => InsertAt(s, p, e)[n] = s[n]
        /\ \A n \in 1 .. Len(s) : p <= n => InsertAt(s, p, e)[n + 1] = s[n]
    BY <2>1, InsertAtIs
  <2> QED BY <2>2 DEF U
<1>3. /\ \A m, n \in 1 .. N : s[m] = s[n] => m = n
      /\ \A x \in S : \E n \in 1 .. N : s[n] = x
  BY DEF Listing
<1> HIDE DEF t, N
<1>0. p \in 1 .. N + 1
  BY DEF N
<1> DEFINE From(n) == IF n < p THEN n ELSE n - 1
<1>4. ASSUME NEW n \in 1 .. N + 1, n # p PROVE From(n) \in 1 .. N /\ t[n] = s[From(n)]
  <2>1. CASE n < p
    BY <1>0, <1>1, <1>2, <2>1
  <2>2. CASE p < n
    <3>1. n - 1 \in 1 .. N /\ p <= n - 1 /\ (n - 1) + 1 = n
      BY <1>0, <1>1, <2>2
    <3>2. t[(n - 1) + 1] = s[n - 1]
      BY <1>2, <3>1
    <3> QED BY <1>0, <3>1, <3>2, <2>2
  <2> QED BY <1>0, <1>1, <1>4, <2>1, <2>2
<1>5. ASSUME NEW m \in 1 .. N + 1, NEW n \in 1 .. N + 1, t[m] = t[n] PROVE m = n
  <2>1. CASE m = p \/ n = p
    BY <1>1, <1>2, <1>4, <1>5, <2>1
  <2>2. CASE m # p /\ n # p
    <3>1. From(m) = From(n)
      <4> HIDE DEF From
      <4> QED BY <1>3, <1>4, <1>5, <2>2
    <3> QED BY <1>0, <1>1, <3>1, <2>2
  <2> QED BY <2>1, <2>2
<1>6. ASSUME NEW x \in S \cup {e} PROVE \E n \in 1 .. N + 1 : t[n] = x
  <2>1. CASE x = e
    BY <1>0, <1>2, <2>1
  <2>2. CASE x \in S
    <3>1. PICK n \in 1 .. N : s[n] = x
      BY <1>3, <2>2
    <3>2. n \in 1 .. N + 1 /\ n + 1 \in 1 .. N + 1 /\ (n < p \/ p <= n)
      BY <1>0, <1>1
    <3> QED BY <1>2, <3>1, <3>2
  <2> QED BY <2>1, <2>2
<1>7. Listing(t, S \cup {e})
  BY <1>2, <1>5, <1>6 DEF Listing
<1> QED BY <1>7 DEF t

LEMMA SortLists ==
  ASSUME NEW events, IsFiniteSet(events)
  PROVE  Listing(SortEvents(events), events)
<1> DEFINE Sort(T) == Sorting!Fold(0, <<>>, T)
           Bad == {T \in SUBSET events : ~Listing(Sort(T), T)}
<1> SUFFICES ASSUME Bad # {} PROVE FALSE
  BY SortIsFold
<1>1. PICK T \in Bad : IsFiniteSet(T) /\ \A x \in T : T \ {x} \notin Bad
  <2>1. Bad \in SUBSET SUBSET events
    OBVIOUS
  <2> HIDE DEF Bad
  <2> QED BY <2>1, MinimalIn
<1>2. T \in SUBSET events /\ ~Listing(Sort(T), T)
  OBVIOUS
<1>3. T # {}
  <2>1. Sort({}) = <<>>
    BY Sorting!FoldOfNone
  <2>2. Listing(<<>>, {})
    BY DEF Listing
  <2> QED BY <2>1, <2>2, <1>2
<1> DEFINE e == SomeOf(T)
           R == T \ {e}
<1>4. e \in T /\ Sort(T) = PutInOrder(e, Sort(R))
  <2>1. Sorting!Fold(0, <<>>, T) = SortStep(0, Sorting!Fold(0, <<>>, T \ {SomeOf(T)}), SomeOf(T))
    BY <1>1, <1>3, SortPicks, SortFinite, Sorting!FoldUnfolds
  <2> QED BY <2>1, <1>3, SomeIn DEF SortStep
<1> HIDE DEF e
<1>5. Listing(Sort(R), R)
  <2>1. R \notin Bad /\ R \in SUBSET events
    BY <1>1, <1>2, <1>4
  <2> QED BY <2>1
<1> HIDE DEF Sort
<1>6. e \notin R /\ R \cup {e} = T
  BY <1>4
<1> HIDE DEF R
<1> DEFINE P == {n \in DOMAIN Sort(R) : Comes(Sort(R)[n], e)}
<1>7. 1 + Cardinality(P) \in 1 .. Len(Sort(R)) + 1
  <2>1. DOMAIN Sort(R) = 1 .. Len(Sort(R)) /\ Len(Sort(R)) \in Nat
    BY <1>5 DEF Listing
  <2>2. P \in SUBSET DOMAIN Sort(R)
    OBVIOUS
  <2> HIDE DEF P
  <2> QED BY <2>1, <2>2, PlacesCount
<1>8. PutInOrder(e, Sort(R)) = InsertAt(Sort(R), 1 + Cardinality(P), e)
  BY DEF PutInOrder
<1> HIDE DEF P
<1>9. Listing(InsertAt(Sort(R), 1 + Cardinality(P), e), R \cup {e})
  BY <1>5, <1>6, <1>7, ListsOneMore
<1> QED BY <1>2, <1>4, <1>6, <1>8, <1>9

-----------------------------------------------------------------------------
(* The replay, operation by operation.                                       *)

Replayed(events, ledger, n) == Apply(ledger, events[n])
Play == INSTANCE FoldProofs WITH Step <- Replayed, Pick <- Max

After(events, n) == FoldLeft(Apply, EmptyLedger, SubSeq(events, 1, n))

\* The greatest of some of the numbers up to n.
LEMMA MaxPicks ==
  ASSUME NEW N \in Nat, NEW s \in SUBSET (1 .. N), s # {}
  PROVE  Max(s) \in s /\ \A n \in s : n <= Max(s)
<1> DEFINE Gaps == {N - n : n \in s}
<1>1. Gaps \in SUBSET Nat /\ Gaps # {}
  <2>1. \A n \in s : N - n \in Nat
    OBVIOUS
  <2> QED BY <2>1
<1>2. PICK g \in Gaps : \A h \in Gaps : g <= h
  <2> HIDE DEF Gaps
  <2>1. \E g \in Gaps : \A h \in Gaps : g <= h
    BY <1>1, Sums!LeastNat
  <2> QED BY <2>1
<1>3. PICK m \in s : g = N - m
  OBVIOUS
<1>4. \A n \in s : m >= n
  <2> SUFFICES ASSUME NEW n \in s PROVE m >= n
    OBVIOUS
  <2>1. N - m <= N - n
    BY <1>2, <1>3
  <2> QED BY <2>1
<1>5. Max(s) \in s /\ \A n \in s : Max(s) >= n
  BY <1>4, Zenon DEF Max
<1> QED BY <1>5

LEMMA PlayFinite == \A S : Play!IsFiniteSet(S) <=> IsFiniteSet(S)
BY DEF IsFiniteSet, Play!IsFiniteSet

LEMMA PlayPicks ==
  ASSUME NEW N \in Nat
  PROVE  Play!Picks(1 .. N)
BY MaxPicks DEF Play!Picks

LEMMA LeftIsFold ==
  ASSUME NEW events
  PROVE  FoldLeft(Apply, EmptyLedger, events) = Play!Fold(events, EmptyLedger, DOMAIN events)
BY DEF FoldLeft, MapThenFoldSet, Play!Fold, Play!FoldTable, Play!FoldStep, Replayed

LEMMA AfterNone ==
  ASSUME NEW T, NEW events \in Seq(T)
  PROVE  After(events, 0) = EmptyLedger
<1>1. DOMAIN SubSeq(events, 1, 0) = {}
  OBVIOUS
<1> QED BY <1>1, LeftIsFold, Play!FoldOfNone DEF After

LEMMA AfterNext ==
  ASSUME NEW T, NEW events \in Seq(T), NEW n \in 1 .. Len(events)
  PROVE  After(events, n) = Apply(After(events, n - 1), events[n])
<1> DEFINE s == SubSeq(events, 1, n)
           t == SubSeq(events, 1, n - 1)
<1>0. Len(events) \in Nat /\ n \in 1 .. Len(events) /\ n \in Nat /\ n - 1 \in Nat
  OBVIOUS
<1>1. DOMAIN s = 1 .. n /\ DOMAIN t = 1 .. n - 1 /\ n \in Nat /\ n - 1 \in Nat
  <2>1. Len(s) = n /\ s \in Seq(T)
    BY <1>0
  <2>2. Len(t) = n - 1 /\ t \in Seq(T)
    BY <1>0
  <2> HIDE DEF s, t
  <2> QED BY <1>0, <2>1, <2>2
<1>2. s[n] = events[n] /\ \A m \in 1 .. n - 1 : s[m] = t[m]
  <2>1. \A m \in 1 .. n : s[m] = events[m]
    BY <1>0
  <2>2. \A m \in 1 .. n - 1 : t[m] = events[m]
    BY <1>0
  <2> HIDE DEF s, t
  <2> QED BY <1>0, <2>1, <2>2
<1> HIDE DEF s, t
<1>3. /\ IsFiniteSet(1 .. n) /\ Play!Picks(1 .. n) /\ 1 .. n # {}
      /\ IsFiniteSet(1 .. n - 1) /\ Play!Picks(1 .. n - 1)
  <2>1. n \in 1 .. n
    BY <1>0
  <2>2. IsFiniteSet(1 .. n) /\ IsFiniteSet(1 .. n - 1)
    BY <1>0, FS_Interval
  <2>3. Play!Picks(1 .. n) /\ Play!Picks(1 .. n - 1)
    BY <1>0, PlayPicks
  <2> QED BY <2>1, <2>2, <2>3
<1>4. Max(1 .. n) = n /\ (1 .. n) \ {n} = 1 .. n - 1
  <2>1. 1 .. n \in SUBSET (1 .. n) /\ n \in 1 .. n
    BY <1>0
  <2>2. Max(1 .. n) \in 1 .. n /\ \A m \in 1 .. n : m <= Max(1 .. n)
    BY <1>0, <2>1, MaxPicks
  <2> DEFINE top == Max(1 .. n)
  <2>3. top \in 1 .. n /\ n <= top
    BY <2>1, <2>2
  <2> HIDE DEF top
  <2>4. top = n
    BY <1>0, <2>3
  <2> QED BY <1>0, <2>4 DEF top
<1>5. Play!Fold(s, EmptyLedger, 1 .. n)
        = Replayed(s, Play!Fold(s, EmptyLedger, (1 .. n) \ {Max(1 .. n)}), Max(1 .. n))
  BY <1>3, PlayFinite, Play!FoldUnfolds
<1>6. Play!Fold(s, EmptyLedger, 1 .. n - 1) = Play!Fold(t, EmptyLedger, 1 .. n - 1)
  <2>1. \A m \in 1 .. n - 1 : \A ledger : Replayed(s, ledger, m) = Replayed(t, ledger, m)
    BY <1>2 DEF Replayed
  <2> QED BY <1>3, <2>1, PlayFinite, Play!FoldAgrees
<1>7. Play!Fold(s, EmptyLedger, 1 .. n) = Apply(Play!Fold(t, EmptyLedger, 1 .. n - 1), events[n])
  BY <1>2, <1>4, <1>5, <1>6 DEF Replayed
<1> QED BY <1>1, <1>7, LeftIsFold DEF After, s, t

LEMMA AfterAll ==
  ASSUME NEW T, NEW events \in Seq(T)
  PROVE  FoldLeft(Apply, EmptyLedger, events) = After(events, Len(events))
<1>1. SubSeq(events, 1, Len(events)) = events
  OBVIOUS
<1> QED BY <1>1, LeftIsFold DEF After

-----------------------------------------------------------------------------
(* Divisions that leave no remainder.                                        *)

LEMMA DividedBack ==
  ASSUME NEW a \in Int, NEW b \in Int, b > 0
  PROVE  a \div b \in Int /\ (a % b = 0 => b * (a \div b) = a)
<1>1. a \div b \in Int /\ a = b * (a \div b) + (a % b)
  OBVIOUS
<1> DEFINE q == a \div b
<1>2. q \in Int /\ a = b * q + (a % b)
  BY <1>1
<1> HIDE DEF q
<1>3. ASSUME a % b = 0 PROVE b * q = a
  <2>1. b * q \in Int /\ a = b * q + 0
    BY <1>2, <1>3
  <2> QED BY <2>1
<1> QED BY <1>2, <1>3 DEF q

LEMMA DividedInOrder ==
  ASSUME NEW a \in Nat, NEW c \in Nat, a <= c, NEW b \in Int, b > 0
  PROVE  a \div b \in Nat /\ c \div b \in Nat /\ a \div b <= c \div b
<1> DEFINE q == a \div b
           r == c \div b
<1>1. /\ q \in Int /\ r \in Int /\ a % b \in 0 .. b - 1 /\ c % b \in 0 .. b - 1
      /\ a = b * q + (a % b) /\ c = b * r + (c % b)
  OBVIOUS
<1> DEFINE u == a % b
           v == c % b
<1>2. u \in 0 .. b - 1 /\ v \in 0 .. b - 1 /\ q \in Int /\ r \in Int /\ a = b * q + u /\ c = b * r + v
  BY <1>1
<1> HIDE DEF q, r, u, v
<1>3. ASSUME NEW x \in Int, NEW w \in 0 .. b - 1, 0 <= b * x + w PROVE 0 <= x
  <2> SUFFICES ASSUME x <= -1 PROVE FALSE
    OBVIOUS
  <2>1. b * x <= b * (-1)
    OBVIOUS
  <2> QED BY <1>3, <2>1
<1>4. 0 <= q /\ 0 <= r
  BY <1>2, <1>3
<1>5. q <= r
  <2> SUFFICES ASSUME r + 1 <= q PROVE FALSE
    BY <1>2
  <2>1. b * (r + 1) <= b * q
    BY <1>2
  <2>2. b * (r + 1) = b * r + b
    BY <1>2
  <2> QED BY <1>2, <2>1, <2>2
<1> QED BY <1>2, <1>4, <1>5 DEF q, r

\* A split of b for a keeps the cost of a lot: x shares at y each.
LEMMA SplitKeepsCost ==
  ASSUME NEW x \in Nat, NEW y \in Int, NEW a \in Int, NEW b \in Int, a > 0, b > 0,
         (x * a) % b = 0, (y * b) % a = 0
  PROVE  ((x * a) \div b) * ((y * b) \div a) = x * y
<1> DEFINE X == (x * a) \div b
           Y == (y * b) \div a
<1>1. x * a \in Int /\ y * b \in Int
  OBVIOUS
<1>2. X \in Int /\ b * X = x * a
  BY <1>1, DividedBack
<1>3. Y \in Int /\ a * Y = y * b
  BY <1>1, DividedBack
<1> HIDE DEF X, Y
<1>4. (b * X) * (a * Y) = (x * a) * (y * b)
  BY <1>2, <1>3
<1>5. (b * X) * (a * Y) = (a * b) * (X * Y)
  BY <1>2, <1>3
<1>6. (x * a) * (y * b) = (a * b) * (x * y)
  OBVIOUS
<1> DEFINE k == a * b
           u == X * Y
           v == x * y
<1>7. k \in Int /\ k > 0 /\ u \in Int /\ v \in Int
  BY <1>2, <1>3
<1>8. k * u = k * v
  BY <1>4, <1>5, <1>6
<1> HIDE DEF k, u, v
<1>9. u = v
  BY <1>7, <1>8
<1> QED BY <1>9 DEF u, v, X, Y

-----------------------------------------------------------------------------
(* The lots of a holding.                                                    *)

LotRow ==
  {lot \in [opened : Int, original : Nat, open : Nat, cost : Int, by : Int, estimated : BOOLEAN,
            closed : Int] : lot.open <= lot.original}

LEMMA SumUpTo ==
  ASSUME NEW f, NEW n \in Nat, \A m \in 1 .. n + 1 : f[m] \in Int
  PROVE  SumFunctionOnSet(f, 1 .. n + 1) = SumFunctionOnSet(f, 1 .. n) + f[n + 1]
<1>1. IsFiniteSet(1 .. n)
  BY FS_Interval
<1>2. (1 .. n) \cup {n + 1} = 1 .. n + 1 /\ n + 1 \notin 1 .. n
  OBVIOUS
<1>3. \A m \in (1 .. n) \cup {n + 1} : f[m] \in Int
  BY <1>2
<1> DEFINE S == 1 .. n
           x == n + 1
<1>4. SumFunctionOnSet(f, S \cup {x}) = SumFunctionOnSet(f, S) + f[x]
  <2>1. IsFiniteSet(S) /\ x \notin S /\ \A m \in S \cup {x} : f[m] \in Int
    BY <1>1, <1>2, <1>3
  <2> HIDE DEF S, x
  <2> QED BY <2>1, SumWithOne
<1> QED BY <1>2, <1>4, Zenon

\* One more term, put in anywhere.
PutIn(f, g, N, p) ==
  /\ N \in Nat /\ p \in 1 .. N + 1 /\ g[p] \in Int
  /\ \A n \in 1 .. N : f[n] \in Int
  /\ \A n \in 1 .. N : n < p => g[n] = f[n]
  /\ \A n \in 1 .. N : p <= n => g[n + 1] = f[n]

LEMMA SumOfInserted ==
  ASSUME NEW f, NEW g, NEW N, NEW p, PutIn(f, g, N, p)
  PROVE  SumFunctionOnSet(g, 1 .. N + 1) = SumFunctionOnSet(f, 1 .. N) + g[p]
<1>0. /\ N \in Nat /\ p \in 1 .. N + 1 /\ g[p] \in Int
      /\ \A n \in 1 .. N : f[n] \in Int
      /\ \A n \in 1 .. N : n < p => g[n] = f[n]
      /\ \A n \in 1 .. N : p <= n => g[n + 1] = f[n]
  BY DEF PutIn
<1> DEFINE R == 1 .. N + 1
           S == R \ {p}
           To == [n \in 1 .. N |-> IF n < p THEN n ELSE n + 1]
<1>1. IsFiniteSet(1 .. N) /\ IsFiniteSet(R) /\ IsFiniteSet(S)
  <2>1. IsFiniteSet(1 .. N) /\ IsFiniteSet(R)
    BY <1>0, FS_Interval
  <2> HIDE DEF R
  <2> QED BY <2>1, FS_Subset
<1>2. To \in [1 .. N -> S]
  BY <1>0
<1>3. \A m, n \in 1 .. N : To[m] = To[n] => m = n
  BY <1>0
<1>4. ASSUME NEW k \in S PROVE \E n \in 1 .. N : To[n] = k
  <2>1. CASE k < p
    <3>1. k \in 1 .. N /\ To[k] = k
      BY <1>0, <2>1
    <3> QED BY <3>1
  <2>2. CASE p < k
    <3>1. k - 1 \in 1 .. N /\ To[k - 1] = k
      BY <1>0, <2>2
    <3> QED BY <3>1
  <2> QED BY <1>0, <2>1, <2>2
<1>5. \A n \in 1 .. N : f[n] = g[To[n]] /\ f[n] \in Int
  BY <1>0
<1>6. p \in R /\ g[p] \in Int
  BY <1>0
<1> HIDE DEF To, R
<1>7. \A k \in R : g[k] \in Int
  <2> SUFFICES ASSUME NEW k \in R, k # p PROVE g[k] \in Int
    BY <1>6
  <2>1. PICK n \in 1 .. N : To[n] = k
    BY <1>4
  <2> QED BY <1>5, <2>1
<1>8. SumFunctionOnSet(f, 1 .. N) = SumFunctionOnSet(g, S)
  <2> DEFINE D == 1 .. N
  <2>1. /\ IsFiniteSet(D) /\ To \in [D -> S]
        /\ \A m, n \in D : To[m] = To[n] => m = n
        /\ \A k \in S : \E n \in D : To[n] = k
        /\ \A n \in D : f[n] = g[To[n]] /\ f[n] \in Int
    BY <1>1, <1>2, <1>3, <1>4, <1>5
  <2> HIDE DEF D, S
  <2>2. SumFunctionOnSet(f, D) = SumFunctionOnSet(g, S)
    BY <2>1, SumRenamed
  <2> QED BY <2>2 DEF D
<1>9. SumFunctionOnSet(g, R) = g[p] + SumFunctionOnSet(g, R \ {p})
  BY <1>1, <1>6, <1>7, SumTakesOut
<1>10. SumFunctionOnSet(g, S) \in Int /\ S = R \ {p}
  <2>1. \A k \in S : g[k] \in Int
    BY <1>7
  <2>2. S = R \ {p}
    OBVIOUS
  <2> HIDE DEF S
  <2> QED BY <1>1, <2>1, <2>2, SumIsInt
<1> HIDE DEF S
<1>11. SumFunctionOnSet(g, R) = SumFunctionOnSet(f, 1 .. N) + g[p]
  BY <1>6, <1>8, <1>9, <1>10
<1> QED BY <1>11 DEF R

\* The terms of the cost of a holding.
Costs(lots) == [n \in DOMAIN lots |-> lots[n].open * lots[n].cost]

LEMMA LotFields ==
  ASSUME NEW lot \in LotRow
  PROVE  /\ lot.opened \in Int /\ lot.original \in Nat /\ lot.open \in Nat /\ lot.cost \in Int
         /\ lot.by \in Int /\ lot.estimated \in BOOLEAN /\ lot.closed \in Int
         /\ lot.open <= lot.original /\ lot.open * lot.cost \in Int
<1>1. /\ lot.opened \in Int /\ lot.original \in Nat /\ lot.open \in Nat /\ lot.cost \in Int
      /\ lot.by \in Int /\ lot.closed \in Int /\ lot.open <= lot.original
  BY DEF LotRow
<1>2. lot.estimated \in BOOLEAN
  BY Zenon DEF LotRow
<1> QED BY <1>1, <1>2

LEMMA BasisIs ==
  ASSUME NEW lots \in Seq(LotRow)
  PROVE  /\ Basis(lots) = SumFunctionOnSet(Costs(lots), 1 .. Len(lots))
         /\ \A n \in 1 .. Len(lots) : Costs(lots)[n] = lots[n].open * lots[n].cost
         /\ \A n \in 1 .. Len(lots) : Costs(lots)[n] \in Int /\ lots[n] \in LotRow
         /\ Basis(lots) \in Int
<1>1. DOMAIN Costs(lots) = 1 .. Len(lots) /\ DOMAIN lots = 1 .. Len(lots)
  BY DEF Costs
<1>2. Basis(lots) = SumFunctionOnSet(Costs(lots), 1 .. Len(lots))
  BY <1>1, Zenon DEF Basis, SumFunction, Costs
<1>3. \A n \in 1 .. Len(lots) : Costs(lots)[n] = lots[n].open * lots[n].cost /\ lots[n] \in LotRow
  BY DEF Costs
<1>4. \A n \in 1 .. Len(lots) : Costs(lots)[n] \in Int
  BY <1>3, LotFields
<1>5. SumFunctionOnSet(Costs(lots), 1 .. Len(lots)) \in Int
  <2>1. IsFiniteSet(1 .. Len(lots))
    BY FS_Interval
  <2> QED BY <1>4, <2>1, SumIsInt
<1> QED BY <1>2, <1>3, <1>4, <1>5

\* A lot opened in a holding adds its cost to it.
LEMMA InsertAddsCost ==
  ASSUME NEW lots \in Seq(LotRow), NEW lot \in LotRow
  PROVE  /\ Insert(lots, lot) \in Seq(LotRow)
         /\ Basis(Insert(lots, lot)) = Basis(lots) + lot.open * lot.cost
<1> DEFINE P == {n \in DOMAIN lots : lots[n].opened <= lot.opened}
           p == 1 + Cardinality(P)
           N == Len(lots)
           t == InsertAt(lots, p, lot)
<1>1. p \in 1 .. N + 1
  <2>1. DOMAIN lots = 1 .. Len(lots) /\ Len(lots) \in Nat /\ P \in SUBSET DOMAIN lots
    OBVIOUS
  <2> HIDE DEF P
  <2> QED BY <2>1, PlacesCount
<1>2. Insert(lots, lot) = t
  BY DEF Insert
<1> HIDE DEF p
<1>3. /\ t \in Seq(LotRow) /\ Len(t) = N + 1 /\ t[p] = lot
      /\ \A n \in 1 .. N : n < p => t[n] = lots[n]
      /\ \A n \in 1 .. N : p <= n => t[n + 1] = lots[n]
  BY <1>1, InsertAtIs
<1> HIDE DEF t
<1>4. N \in Nat /\ \A n \in 1 .. N : n \in 1 .. N + 1 /\ n + 1 \in 1 .. N + 1
  OBVIOUS
<1>5. /\ Basis(lots) = SumFunctionOnSet(Costs(lots), 1 .. N)
      /\ \A n \in 1 .. N : Costs(lots)[n] = lots[n].open * lots[n].cost
      /\ \A n \in 1 .. N : Costs(lots)[n] \in Int
  BY BasisIs
<1>6. /\ Basis(t) = SumFunctionOnSet(Costs(t), 1 .. N + 1)
      /\ \A n \in 1 .. N + 1 : Costs(t)[n] = t[n].open * t[n].cost
      /\ \A n \in 1 .. N + 1 : Costs(t)[n] \in Int
  BY <1>3, BasisIs
<1> HIDE DEF N
<1>7. /\ \A n \in 1 .. N : n < p => Costs(t)[n] = Costs(lots)[n]
      /\ \A n \in 1 .. N : p <= n => Costs(t)[n + 1] = Costs(lots)[n]
      /\ Costs(t)[p] = lot.open * lot.cost /\ Costs(t)[p] \in Int
  BY <1>1, <1>3, <1>4, <1>5, <1>6
<1>8. SumFunctionOnSet(Costs(t), 1 .. N + 1) = SumFunctionOnSet(Costs(lots), 1 .. N) + Costs(t)[p]
  <2> DEFINE f == Costs(lots)
             g == Costs(t)
  <2>1. PutIn(f, g, N, p)
    BY <1>1, <1>4, <1>5, <1>7 DEF PutIn
  <2> HIDE DEF f, g
  <2>2. SumFunctionOnSet(g, 1 .. N + 1) = SumFunctionOnSet(f, 1 .. N) + g[p]
    BY <2>1, SumOfInserted
  <2> QED BY <2>2 DEF f, g
<1> QED BY <1>2, <1>3, <1>5, <1>6, <1>7, <1>8

LEMMA NewLotIsLot ==
  ASSUME NEW opened \in Int, NEW quantity \in Nat, NEW cost \in Int, NEW by \in Int,
         NEW estimated \in BOOLEAN
  PROVE  /\ NewLot(opened, quantity, cost, by, estimated) \in LotRow
         /\ NewLot(opened, quantity, cost, by, estimated).open = quantity
         /\ NewLot(opened, quantity, cost, by, estimated).cost = cost
BY DEF NewLot, LotRow

-----------------------------------------------------------------------------
(* What a disposal takes from the lots of a holding, first in, first out.    *)

Opens(lots) == [n \in DOMAIN lots |-> lots[n].open]
Given(lots, taken) == [n \in DOMAIN lots |-> taken[n] * lots[n].cost]
Reduced(lots, taken, on) ==
  [n \in DOMAIN lots |->
     [lots[n] EXCEPT !.open = @ - taken[n],
                     !.closed = IF taken[n] > 0 /\ taken[n] = lots[n].open THEN on ELSE @]]

\* Of no lot more than it has, and of all together the quantity, if they have it.
LEMMA TakenFits ==
  ASSUME NEW lots \in Seq(LotRow), NEW quantity \in Nat
  PROVE  /\ DOMAIN Taken(lots, quantity) = 1 .. Len(lots)
         /\ \A n \in 1 .. Len(lots) : Taken(lots, quantity)[n] \in 0 .. lots[n].open
         /\ Open(lots) >= quantity => SumFunctionOnSet(Taken(lots, quantity), 1 .. Len(lots)) = quantity
<1> DEFINE t == Taken(lots, quantity)
           o == Opens(lots)
           N == Len(lots)
           SumO(n) == SumFunctionOnSet(o, 1 .. n)
           SumT(n) == SumFunctionOnSet(t, 1 .. n)
<1>0. N \in Nat /\ DOMAIN lots = 1 .. N /\ \A n \in 1 .. N : lots[n] \in LotRow
  OBVIOUS
<1>1. \A n \in 1 .. N : o[n] = lots[n].open /\ o[n] \in Nat
  BY <1>0, LotFields DEF Opens
<1>2. ASSUME NEW n \in 0 .. N PROVE SumO(n) \in Int
  <2> DEFINE D == 1 .. n
  <2>1. IsFiniteSet(D)
    BY <1>0, FS_Interval
  <2>2. \A m \in D : m \in 1 .. N
    BY <1>0
  <2>3. \A m \in D : o[m] \in Int
    <3> HIDE DEF D, N, o
    <3> QED BY <1>1, <2>2
  <2> HIDE DEF D, N, o
  <2>4. SumFunctionOnSet(o, D) \in Int
    BY <2>1, <2>3, SumIsInt
  <2> QED BY <2>4, Zenon DEF D, SumO
<1>3. Open(lots) = SumO(N)
  BY <1>0, Zenon DEF Open, SumFunction, Opens
<1>4. ASSUME NEW n \in 1 .. N
      PROVE  /\ SumO(n - 1) \in Int /\ o[n] \in Nat
             /\ t[n] = LET left == quantity - SumO(n - 1)
                       IN IF left <= 0 THEN 0 ELSE IF o[n] < left THEN o[n] ELSE left
  <2>1. n - 1 \in 0 .. N
    BY <1>0
  <2>2. OpenBefore(lots, n) = SumO(n - 1)
    BY Zenon DEF OpenBefore, Opens
  <2>3. t[n] = LET left == quantity - OpenBefore(lots, n)
               IN IF left <= 0 THEN 0 ELSE IF lots[n].open < left THEN lots[n].open ELSE left
    BY <1>0 DEF Taken
  <2> HIDE DEF SumO, t, o
  <2> QED BY <1>1, <1>2, <2>1, <2>2, <2>3
<1>5. DOMAIN t = 1 .. N
  BY <1>0 DEF Taken
<1> HIDE DEF t, o, N
<1>6. ASSUME NEW n \in 1 .. N PROVE t[n] \in 0 .. o[n]
  <2> DEFINE left == quantity - SumO(n - 1)
  <2>1. left \in Int /\ o[n] \in Nat /\ t[n] = IF left <= 0 THEN 0 ELSE IF o[n] < left THEN o[n] ELSE left
    BY <1>4
  <2> HIDE DEF left
  <2> QED BY <2>1
<1>7. ASSUME NEW n \in 1 .. N
      PROVE  SumO(n) = SumO(n - 1) + o[n] /\ SumT(n) = SumT(n - 1) + t[n]
  <2> DEFINE k == n - 1
  <2>1. k \in Nat /\ k + 1 = n /\ \A m \in 1 .. k + 1 : o[m] \in Int /\ t[m] \in Int
    BY <1>0, <1>1, <1>6
  <2> HIDE DEF k
  <2>2. /\ SumFunctionOnSet(o, 1 .. k + 1) = SumFunctionOnSet(o, 1 .. k) + o[k + 1]
        /\ SumFunctionOnSet(t, 1 .. k + 1) = SumFunctionOnSet(t, 1 .. k) + t[k + 1]
    BY <2>1, SumUpTo
  <2>3. /\ SumFunctionOnSet(o, 1 .. n) = SumFunctionOnSet(o, 1 .. k) + o[n]
        /\ SumFunctionOnSet(t, 1 .. n) = SumFunctionOnSet(t, 1 .. k) + t[n]
    BY <2>1, <2>2, Zenon
  <2> QED BY <2>3, Zenon DEF k
<1>8. SumO(0) = 0 /\ SumT(0) = 0
  <2>1. 1 .. 0 = {}
    OBVIOUS
  <2> QED BY <2>1, SumOfNone, Zenon
<1> HIDE DEF SumO, SumT
<1> DEFINE Holds(n) == SumT(n) = IF SumO(n) <= quantity THEN SumO(n) ELSE quantity
           Bad == {n \in 0 .. N : ~Holds(n)}
<1>9. Bad = {}
  <2> SUFFICES ASSUME Bad # {} PROVE FALSE
    OBVIOUS
  <2>1. PICK n \in Bad : \A m \in Bad : n <= m
    <3>1. Bad \in SUBSET Nat
      BY <1>0
    <3> HIDE DEF Bad
    <3> QED BY <3>1, Sums!LeastNat
  <2>2. n \in 0 .. N /\ ~Holds(n)
    OBVIOUS
  <2>3. n # 0
    BY <1>8, <2>2
  <2>4. n \in 1 .. N /\ n - 1 \in 0 .. N /\ ~(n <= n - 1)
    BY <1>0, <2>2, <2>3
  <2>5. Holds(n - 1)
    <3>1. n - 1 \notin Bad
      BY <2>1, <2>4
    <3> QED BY <2>4, <3>1
  <2> DEFINE left == quantity - SumO(n - 1)
  <2>6. /\ SumO(n - 1) \in Int /\ o[n] \in Nat
        /\ t[n] = IF left <= 0 THEN 0 ELSE IF o[n] < left THEN o[n] ELSE left
        /\ SumO(n) = SumO(n - 1) + o[n] /\ SumT(n) = SumT(n - 1) + t[n]
    BY <1>4, <1>7, <2>4
  <2>7. ~Holds(n)
    BY <2>2
  <2> HIDE DEF Bad
  <2> QED BY <2>5, <2>6, <2>7
<1>10. Holds(N)
  BY <1>0, <1>9
<1>11. Open(lots) >= quantity => SumT(N) = quantity
  BY <1>0, <1>2, <1>3, <1>10
<1>12. \A n \in 1 .. N : t[n] \in 0 .. lots[n].open
  BY <1>1, <1>6
<1> QED BY <1>5, <1>11, <1>12 DEF t, N, SumT

LEMMA ReducedGives ==
  ASSUME NEW lots \in Seq(LotRow), NEW taken, NEW on \in Int,
         \A n \in 1 .. Len(lots) : taken[n] \in 0 .. lots[n].open
  PROVE  /\ Reduced(lots, taken, on) \in Seq(LotRow)
         /\ Basis(Reduced(lots, taken, on))
              = Basis(lots) - SumFunctionOnSet(Given(lots, taken), 1 .. Len(lots))
         /\ \A n \in 1 .. Len(lots) : Given(lots, taken)[n] = taken[n] * lots[n].cost
         /\ \A n \in 1 .. Len(lots) : Given(lots, taken)[n] \in Int
<1> DEFINE left == Reduced(lots, taken, on)
           N == Len(lots)
           g == Given(lots, taken)
<1>0. N \in Nat /\ DOMAIN lots = 1 .. N /\ \A n \in 1 .. N : lots[n] \in LotRow
  OBVIOUS
<1>1. ASSUME NEW n \in 1 .. N
      PROVE  /\ left[n] \in LotRow /\ left[n].open = lots[n].open - taken[n] /\ left[n].cost = lots[n].cost
             /\ g[n] = taken[n] * lots[n].cost
  <2> DEFINE lot == lots[n]
             c == IF taken[n] > 0 /\ taken[n] = lots[n].open THEN on ELSE lot.closed
  <2>1. left[n] = [lot EXCEPT !.open = lot.open - taken[n], !.closed = c]
    BY <1>0 DEF Reduced
  <2>2. lot \in LotRow /\ lot.open \in Nat /\ taken[n] \in 0 .. lot.open /\ lot.closed \in Int /\ lot.open <= lot.original /\ lot.original \in Nat
    BY <1>0, LotFields
  <2>3. c \in Int /\ lot.open - taken[n] \in Nat /\ lot.open - taken[n] <= lot.original
    BY <2>2
  <2>4. g[n] = taken[n] * lots[n].cost
    BY <1>0 DEF Given
  <2> HIDE DEF c, lot
  <2> DEFINE u == lot.open - taken[n]
  <2>5. u \in Nat /\ u <= lot.original /\ left[n] = [lot EXCEPT !.open = u, !.closed = c]
    BY <2>1, <2>3
  <2> HIDE DEF u
  <2>6. left[n] \in LotRow /\ left[n].open = u /\ left[n].cost = lot.cost
    BY <2>2, <2>3, <2>5 DEF LotRow
  <2> QED BY <2>4, <2>6 DEF lot, u
<1>2. left \in Seq(LotRow) /\ Len(left) = N
  <2>1. left = [n \in 1 .. N |-> left[n]]
    BY <1>0 DEF Reduced
  <2> HIDE DEF left, N
  <2> QED BY <1>0, <1>1, <2>1
<1> HIDE DEF left, g
<1>3. /\ Basis(lots) = SumFunctionOnSet(Costs(lots), 1 .. N)
      /\ \A n \in 1 .. N : Costs(lots)[n] = lots[n].open * lots[n].cost
      /\ \A n \in 1 .. N : Costs(lots)[n] \in Int
  BY BasisIs
<1>4. /\ Basis(left) = SumFunctionOnSet(Costs(left), 1 .. N)
      /\ \A n \in 1 .. N : Costs(left)[n] = left[n].open * left[n].cost
      /\ \A n \in 1 .. N : Costs(left)[n] \in Int
  BY <1>2, BasisIs
<1> HIDE DEF N
<1>5. ASSUME NEW n \in 1 .. N PROVE g[n] \in Int /\ Costs(lots)[n] = Costs(left)[n] + g[n]
  <2>1. /\ lots[n].open \in Int /\ lots[n].cost \in Int /\ taken[n] \in Int
    BY <1>0, LotFields DEF N
  <2> DEFINE a == lots[n].open
             b == taken[n]
             c == lots[n].cost
  <2>2. a \in Int /\ b \in Int /\ c \in Int /\ g[n] = b * c
        /\ Costs(lots)[n] = a * c /\ Costs(left)[n] = (a - b) * c
    BY <1>1, <1>3, <1>4, <2>1
  <2> HIDE DEF a, b, c
  <2>3. (a - b) * c + b * c = a * c /\ b * c \in Int
    BY <2>2
  <2> QED BY <2>2, <2>3
<1> DEFINE D == 1 .. N
<1>6. /\ IsFiniteSet(D)
      /\ \A n \in D : Costs(left)[n] \in Int /\ g[n] \in Int /\ Costs(lots)[n] = Costs(left)[n] + g[n]
  BY <1>0, <1>4, <1>5, FS_Interval
<1>7. Basis(lots) = SumFunctionOnSet(Costs(lots), D) /\ Basis(left) = SumFunctionOnSet(Costs(left), D)
  BY <1>3, <1>4
<1> HIDE DEF D
<1>8. SumFunctionOnSet(Costs(lots), D) = SumFunctionOnSet(Costs(left), D) + SumFunctionOnSet(g, D)
  BY <1>6, SumsAdd
<1>9. SumFunctionOnSet(g, D) \in Int /\ SumFunctionOnSet(Costs(left), D) \in Int
  BY <1>6, SumIsInt
<1>10. Basis(left) = Basis(lots) - SumFunctionOnSet(g, D)
  BY <1>7, <1>8, <1>9
<1> QED BY <1>1, <1>2, <1>5, <1>10 DEF left, g, N, D

-----------------------------------------------------------------------------
(* What a split makes of them.                                               *)

LEMMA DividedKeeps ==
  ASSUME NEW lots \in Seq(LotRow), NEW e, e.quantity \in Int, e.per \in Int, e.quantity > 0, e.per > 0
  PROVE  /\ Divided(lots, e) \in Seq(LotRow)
         /\ (\A n \in DOMAIN lots : /\ (lots[n].open * e.quantity) % e.per = 0
                                    /\ (lots[n].cost * e.per) % e.quantity = 0)
              => Basis(Divided(lots, e)) = Basis(lots)
<1> DEFINE new == Divided(lots, e)
           N == Len(lots)
           q == e.quantity
           p == e.per
<1>0. N \in Nat /\ DOMAIN lots = 1 .. N /\ \A n \in 1 .. N : lots[n] \in LotRow
  OBVIOUS
<1>1. q \in Int /\ p \in Int /\ q > 0 /\ p > 0
  OBVIOUS
<1>2. ASSUME NEW n \in 1 .. N
      PROVE  /\ new[n] \in LotRow /\ new[n].open = (lots[n].open * q) \div p
             /\ new[n].cost = (lots[n].cost * p) \div q
  <2> DEFINE lot == lots[n]
             o == lot.open
             i == lot.original
             c == lot.cost
             o2 == (o * q) \div p
             i2 == (i * q) \div p
             c2 == (c * p) \div q
  <2>1. new[n] = [lot EXCEPT !.original = i2, !.open = o2, !.cost = c2]
    BY <1>0 DEF Divided
  <2>2. lot \in LotRow /\ o \in Nat /\ i \in Nat /\ c \in Int /\ o <= i
    BY <1>0, LotFields
  <2> HIDE DEF lot, o, i, c, q, p, new
  <2>3. o * q \in Nat /\ i * q \in Nat /\ o * q <= i * q
    BY <1>1, <2>2
  <2>4. o2 \in Nat /\ i2 \in Nat /\ o2 <= i2
    BY <1>1, <2>3, DividedInOrder
  <2>5. c2 \in Int
    <3>1. c * p \in Int
      BY <1>1, <2>2
    <3> QED BY <1>1, <3>1, DividedBack
  <2> HIDE DEF o2, i2, c2
  <2>6. new[n] \in LotRow /\ new[n].open = o2 /\ new[n].cost = c2
    BY <2>1, <2>2, <2>4, <2>5 DEF LotRow
  <2> QED BY <2>6 DEF o2, c2, o, c, lot
<1>3. new \in Seq(LotRow) /\ Len(new) = N
  <2>1. new = [n \in 1 .. N |-> new[n]]
    BY <1>0 DEF Divided
  <2> HIDE DEF new, N
  <2> QED BY <1>0, <1>2, <2>1
<1>4. ASSUME \A n \in DOMAIN lots : (lots[n].open * q) % p = 0 /\ (lots[n].cost * p) % q = 0
      PROVE  Basis(new) = Basis(lots)
  <2>1. /\ Basis(lots) = SumFunctionOnSet(Costs(lots), 1 .. N)
        /\ \A n \in 1 .. N : Costs(lots)[n] = lots[n].open * lots[n].cost
    BY BasisIs
  <2>2. /\ Basis(new) = SumFunctionOnSet(Costs(new), 1 .. N)
        /\ \A n \in 1 .. N : Costs(new)[n] = new[n].open * new[n].cost
    BY <1>3, BasisIs
  <2>3. ASSUME NEW n \in 1 .. N PROVE Costs(new)[n] = Costs(lots)[n]
    <3> DEFINE x == lots[n].open
               y == lots[n].cost
    <3>1. x \in Nat /\ y \in Int /\ (x * q) % p = 0 /\ (y * p) % q = 0
      BY <1>0, <1>4, LotFields
    <3>2. /\ Costs(new)[n] = ((x * q) \div p) * ((y * p) \div q) /\ Costs(lots)[n] = x * y
      BY <1>2, <2>1, <2>2
    <3> HIDE DEF x, y, q, p
    <3>3. ((x * q) \div p) * ((y * p) \div q) = x * y
      BY <1>1, <3>1, SplitKeepsCost
    <3> QED BY <3>2, <3>3
  <2> DEFINE D == 1 .. N
  <2>4. IsFiniteSet(D) /\ \A n \in D : Costs(new)[n] = Costs(lots)[n]
    BY <1>0, <2>3, FS_Interval
  <2>5. Basis(lots) = SumFunctionOnSet(Costs(lots), D) /\ Basis(new) = SumFunctionOnSet(Costs(new), D)
    BY <2>1, <2>2
  <2> HIDE DEF D, new
  <2> QED BY <2>4, <2>5, SumAgrees
<1> QED BY <1>3, <1>4

-----------------------------------------------------------------------------
(* The ledger of a replay.                                                   *)

Holdings == Accounts \X Instruments

DoneRow ==
  [account : Accounts, instrument : Instruments, by : Int, n : Nat, quantity : Int, cost : Int,
   on : Int, sale : BOOLEAN, gain : Int]

Ledgers ==
  [ok : BOOLEAN, lots : [Holdings -> Seq(LotRow)], done : SUBSET DoneRow,
   cash : UNION {[K -> Int] : K \in SUBSET (Accounts \X STRING)},
   touched : UNION {[K -> Int] : K \in SUBSET Holdings}]

\* A ledger that differs from another in its cash and its touched holdings only.
SameHoldings(l, m) == m \in Ledgers /\ m.ok = l.ok /\ m.lots = l.lots /\ m.done = l.done

LEMMA AdjustKeeps ==
  ASSUME NEW l \in Ledgers, NEW a \in Accounts, NEW currency \in STRING, NEW delta \in Int
  PROVE  SameHoldings(l, AdjustCash(l, a, currency, delta))
<1> DEFINE k == <<a, currency>>
           cash == l.cash
           K == DOMAIN cash \cup {k}
           c == [j \in K |-> (IF j \in DOMAIN cash THEN cash[j] ELSE 0) + (IF j = k THEN delta ELSE 0)]
<1>1. DOMAIN cash \in SUBSET (Accounts \X STRING) /\ \A j \in DOMAIN cash : cash[j] \in Int
  BY DEF Ledgers
<1>2. k \in Accounts \X STRING
  OBVIOUS
<1> HIDE DEF cash, k
<1>3. K \in SUBSET (Accounts \X STRING)
  BY <1>1, <1>2
<1>4. c \in [K -> Int]
  <2> HIDE DEF K
  <2>1. \A j \in K : (IF j \in DOMAIN cash THEN cash[j] ELSE 0) + (IF j = k THEN delta ELSE 0) \in Int
    BY <1>1
  <2> QED BY <2>1
<1>5. AdjustCash(l, a, currency, delta) = IF delta = 0 THEN l ELSE [l EXCEPT !.cash = c]
  BY Zenon DEF AdjustCash, cash, k
<1> HIDE DEF c, K
<1>6. c \in UNION {[X -> Int] : X \in SUBSET (Accounts \X STRING)}
  BY <1>3, <1>4
<1>7. [l EXCEPT !.cash = c] \in Ledgers
  BY <1>6 DEF Ledgers
<1> QED BY <1>5, <1>7 DEF SameHoldings, Ledgers

LEMMA TouchKeeps ==
  ASSUME NEW l \in Ledgers, NEW a \in Accounts, NEW instrument \in Instruments, NEW on \in Int
  PROVE  SameHoldings(l, TouchPosition(l, a, instrument, on))
<1> DEFINE k == <<a, instrument>>
           touched == l.touched
           K == DOMAIN touched \cup {k}
           c == [j \in K |-> IF j = k /\ (j \in DOMAIN touched => touched[j] < on) THEN on ELSE touched[j]]
<1>1. DOMAIN touched \in SUBSET Holdings /\ \A j \in DOMAIN touched : touched[j] \in Int
  BY DEF Ledgers
<1>2. k \in Holdings
  BY DEF Holdings
<1>3. TouchPosition(l, a, instrument, on) = [l EXCEPT !.touched = c]
  BY Zenon DEF TouchPosition
<1> HIDE DEF touched, k
<1>4. K \in SUBSET Holdings
  BY <1>1, <1>2
<1>5. c \in [K -> Int]
  <2>1. \A j \in K : (IF j = k /\ (j \in DOMAIN touched => touched[j] < on) THEN on ELSE touched[j]) \in Int
    BY <1>1
  <2> HIDE DEF K
  <2> QED BY <2>1
<1> HIDE DEF c, K
<1>6. c \in UNION {[X -> Int] : X \in SUBSET Holdings}
  BY <1>4, <1>5
<1>7. [l EXCEPT !.touched = c] \in Ledgers
  BY <1>6 DEF Ledgers
<1> QED BY <1>3, <1>7 DEF SameHoldings, Ledgers

-----------------------------------------------------------------------------
(* What the holdings cost.                                                   *)

Bases(lots) == [h \in DOMAIN lots |-> Basis(lots[h])]

LEMMA HeldIs ==
  ASSUME NEW lots \in [Holdings -> Seq(LotRow)]
  PROVE  /\ Held(lots) = SumFunctionOnSet(Bases(lots), Holdings)
         /\ IsFiniteSet(Holdings)
         /\ \A h \in Holdings : Bases(lots)[h] = Basis(lots[h]) /\ Bases(lots)[h] \in Int
         /\ Held(lots) \in Int
<1>1. IsFiniteSet(Holdings)
  BY BookAssumption, FS_Product DEF Holdings
<1>2. Held(lots) = SumFunctionOnSet(Bases(lots), Holdings)
  BY Zenon DEF Held, SumFunction, Bases
<1>3. \A h \in Holdings : Bases(lots)[h] = Basis(lots[h]) /\ Bases(lots)[h] \in Int
  BY BasisIs DEF Bases
<1> HIDE DEF Holdings
<1>4. SumFunctionOnSet(Bases(lots), Holdings) \in Int
  BY <1>1, <1>3, SumIsInt
<1> QED BY <1>1, <1>2, <1>3, <1>4

LEMMA HeldDiffersAt ==
  ASSUME NEW lots \in [Holdings -> Seq(LotRow)], NEW h \in Holdings, NEW s \in Seq(LotRow)
  PROVE  /\ [lots EXCEPT ![h] = s] \in [Holdings -> Seq(LotRow)]
         /\ Held([lots EXCEPT ![h] = s]) = Held(lots) - Basis(lots[h]) + Basis(s)
<1> DEFINE new == [lots EXCEPT ![h] = s]
<1>1. new \in [Holdings -> Seq(LotRow)] /\ new[h] = s /\ \A k \in Holdings \ {h} : new[k] = lots[k]
  OBVIOUS
<1> HIDE DEF new
<1>2. \A k \in Holdings : Bases(lots)[k] \in Int /\ Bases(new)[k] \in Int
  BY <1>1, HeldIs
<1>3. \A k \in Holdings \ {h} : Bases(lots)[k] = Bases(new)[k]
  BY <1>1, HeldIs
<1>4. SumFunctionOnSet(Bases(new), Holdings)
        = SumFunctionOnSet(Bases(lots), Holdings) - Bases(lots)[h] + Bases(new)[h]
  <2>1. IsFiniteSet(Holdings)
    BY HeldIs
  <2>2. DifferAt(Bases(lots), Bases(new), Holdings, h)
    <3> HIDE DEF Holdings
    <3> QED BY <1>2, <1>3, <2>1 DEF DifferAt
  <2> HIDE DEF Holdings
  <2> QED BY <2>2, SumsDifferAt
<1>5. /\ Held(new) = SumFunctionOnSet(Bases(new), Holdings) /\ Bases(new)[h] = Basis(s)
      /\ Held(lots) = SumFunctionOnSet(Bases(lots), Holdings) /\ Bases(lots)[h] = Basis(lots[h])
  BY <1>1, HeldIs
<1>6. Held(new) = Held(lots) - Basis(lots[h]) + Basis(s)
  BY <1>4, <1>5
<1> QED BY <1>1, <1>6 DEF new

LEMMA OpenLotAdds ==
  ASSUME NEW l \in Ledgers, NEW a \in Accounts, NEW instrument \in Instruments, NEW lot \in LotRow
  PROVE  LET m == OpenLot(l, a, instrument, lot)
         IN /\ m \in Ledgers /\ m.ok = l.ok /\ m.done = l.done
            /\ Held(m.lots) = Held(l.lots) + lot.open * lot.cost
<1> DEFINE h == <<a, instrument>>
           m == OpenLot(l, a, instrument, lot)
           s == Insert(l.lots[h], lot)
<1>1. h \in Holdings /\ l.lots \in [Holdings -> Seq(LotRow)] /\ l.lots[h] \in Seq(LotRow)
  BY DEF Holdings, Ledgers
<1>2. m = [l EXCEPT !.lots = [l.lots EXCEPT ![h] = s]]
  BY DEF OpenLot
<1>3. s \in Seq(LotRow) /\ Basis(s) = Basis(l.lots[h]) + lot.open * lot.cost
  BY <1>1, InsertAddsCost
<1> HIDE DEF h, s
<1> DEFINE new == [l.lots EXCEPT ![h] = s]
<1>4. new \in [Holdings -> Seq(LotRow)] /\ Held(new) = Held(l.lots) - Basis(l.lots[h]) + Basis(s)
  BY <1>1, <1>3, HeldDiffersAt
<1> HIDE DEF new
<1>5. m = [l EXCEPT !.lots = new]
  BY <1>2 DEF new
<1>6. m \in Ledgers /\ m.ok = l.ok /\ m.done = l.done /\ m.lots = new
  BY <1>4, <1>5 DEF Ledgers
<1>7. Basis(l.lots[h]) \in Int /\ Held(l.lots) \in Int /\ lot.open * lot.cost \in Int
  BY <1>1, BasisIs, HeldIs, LotFields
<1>8. Held(new) = Held(l.lots) + lot.open * lot.cost
  <2> DEFINE d == Basis(l.lots[h])
             b == lot.open * lot.cost
             c == Held(l.lots)
  <2>1. d \in Int /\ b \in Int /\ c \in Int /\ Basis(s) = d + b /\ Held(new) = c - d + Basis(s)
    BY <1>3, <1>4, <1>7
  <2> HIDE DEF d, b, c
  <2>2. Held(new) = c + b
    BY <2>1
  <2> QED BY <2>2 DEF b, c
<1> QED BY <1>6, <1>8

-----------------------------------------------------------------------------
(* The lots a transfer reopens at its destination.                           *)

ReopenStep(d, l, n) ==
  LET m == d.places[n]
  IN IF d.taken[m] = 0 THEN l
     ELSE TouchPosition(
            OpenLot(l, d.e.to, d.e.instrument,
                    NewLot(d.lots[m].opened, d.taken[m], d.lots[m].cost, d.e.id, d.lots[m].estimated)),
            d.e.to, d.e.instrument, d.e.on)

Opening == INSTANCE FoldProofs WITH Step <- ReopenStep, Pick <- Max
Job(e, lots, taken) == [e |-> e, lots |-> lots, taken |-> taken, places |-> [n \in DOMAIN lots |-> n]]

LEMMA ReopenIsFold ==
  ASSUME NEW l, NEW e, NEW lots, NEW taken
  PROVE  Reopen(l, e, lots, taken) = Opening!Fold(Job(e, lots, taken), l, DOMAIN [n \in DOMAIN lots |-> n])
BY DEF Reopen, FoldLeft, MapThenFoldSet, Opening!Fold, Opening!FoldTable, Opening!FoldStep, ReopenStep, Job

LEMMA OpeningFinite == \A S : Opening!IsFiniteSet(S) <=> IsFiniteSet(S)
BY DEF IsFiniteSet, Opening!IsFiniteSet

LEMMA OpeningPicks ==
  ASSUME NEW N \in Nat
  PROVE  Opening!Picks(1 .. N)
BY MaxPicks DEF Opening!Picks

\* One lot reopened adds what the disposal took of it.
LEMMA ReopenOne ==
  ASSUME NEW l \in Ledgers, NEW e, IsOperation(e), e.to \in Accounts, e.instrument \in Instruments,
         NEW lots \in Seq(LotRow), NEW taken, NEW n \in 1 .. Len(lots), taken[n] \in 0 .. lots[n].open
  PROVE  LET m == ReopenStep(Job(e, lots, taken), l, n)
         IN /\ m \in Ledgers /\ m.ok = l.ok /\ m.done = l.done
            /\ Held(m.lots) = Held(l.lots) + taken[n] * lots[n].cost
<1> DEFINE lot == NewLot(lots[n].opened, taken[n], lots[n].cost, e.id, lots[n].estimated)
           o == OpenLot(l, e.to, e.instrument, lot)
           m == ReopenStep(Job(e, lots, taken), l, n)
<1>0. lots[n] \in LotRow /\ n \in DOMAIN lots
  OBVIOUS
<1>1. /\ lots[n].opened \in Int /\ lots[n].cost \in Int /\ lots[n].estimated \in BOOLEAN /\ taken[n] \in Nat
      /\ e.id \in Int /\ e.on \in Int
  BY <1>0, LotFields DEF IsOperation
<1>2. m = IF taken[n] = 0 THEN l ELSE TouchPosition(o, e.to, e.instrument, e.on)
  BY <1>0 DEF ReopenStep, Job
<1>3. lot \in LotRow /\ lot.open = taken[n] /\ lot.cost = lots[n].cost
  BY <1>1, NewLotIsLot
<1> HIDE DEF lot
<1>4. o \in Ledgers /\ o.ok = l.ok /\ o.done = l.done /\ Held(o.lots) = Held(l.lots) + lot.open * lot.cost
  BY <1>3, OpenLotAdds
<1> HIDE DEF o, m
<1>5. SameHoldings(o, TouchPosition(o, e.to, e.instrument, e.on))
  BY <1>1, <1>4, TouchKeeps
<1>6. CASE taken[n] = 0
  <2>1. taken[n] * lots[n].cost = 0 /\ Held(l.lots) \in Int
    <3>1. l.lots \in [Holdings -> Seq(LotRow)]
      BY DEF Ledgers
    <3> QED BY <1>1, <1>6, <3>1, HeldIs
  <2>2. m = l
    BY <1>2, <1>6
  <2> QED BY <2>1, <2>2 DEF m
<1>7. CASE taken[n] # 0
  <2>1. m = TouchPosition(o, e.to, e.instrument, e.on)
    BY <1>2, <1>7
  <2>2. m \in Ledgers /\ m.ok = o.ok /\ m.lots = o.lots /\ m.done = o.done
    BY <1>5, <2>1 DEF SameHoldings
  <2>3. Held(m.lots) = Held(l.lots) + taken[n] * lots[n].cost
    BY <1>3, <1>4, <2>2
  <2> QED BY <1>4, <2>2, <2>3 DEF m
<1> QED BY <1>6, <1>7

LEMMA ReopenAdds ==
  ASSUME NEW l \in Ledgers, NEW e, IsOperation(e), e.to \in Accounts, e.instrument \in Instruments,
         NEW lots \in Seq(LotRow), NEW taken, \A n \in 1 .. Len(lots) : taken[n] \in 0 .. lots[n].open
  PROVE  LET m == Reopen(l, e, lots, taken)
         IN /\ m \in Ledgers /\ m.ok = l.ok /\ m.done = l.done
            /\ Held(m.lots) = Held(l.lots) + SumFunctionOnSet(Given(lots, taken), 1 .. Len(lots))
<1> DEFINE N == Len(lots)
           g == Given(lots, taken)
           After1(T) == Opening!Fold(Job(e, lots, taken), l, T)
           Good(T) == LET m == After1(T)
                      IN /\ m \in Ledgers /\ m.ok = l.ok /\ m.done = l.done
                         /\ Held(m.lots) = Held(l.lots) + SumFunctionOnSet(g, T)
           D == 1 .. N
           Bad == {T \in SUBSET D : ~Good(T)}
<1>0. N \in Nat /\ DOMAIN lots = D /\ IsFiniteSet(D) /\ Opening!Picks(D)
  BY FS_Interval, OpeningPicks
<1>1. \A n \in D : g[n] = taken[n] * lots[n].cost /\ g[n] \in Int /\ n \in 1 .. Len(lots)
  BY ReducedGives, 0 \in Int
<1>2. l.lots \in [Holdings -> Seq(LotRow)] /\ Held(l.lots) \in Int
  BY HeldIs DEF Ledgers
<1> HIDE DEF g, D, N
<1>3. Good({})
  <2>1. After1({}) = l /\ SumFunctionOnSet(g, {}) = 0
    BY Opening!FoldOfNone, SumOfNone
  <2> QED BY <1>2, <2>1
<1>4. Bad = {}
  <2> SUFFICES ASSUME Bad # {} PROVE FALSE
    OBVIOUS
  <2>1. PICK T \in Bad : IsFiniteSet(T) /\ \A x \in T : T \ {x} \notin Bad
    <3>1. Bad \in SUBSET SUBSET D
      OBVIOUS
    <3> HIDE DEF Bad
    <3> QED BY <1>0, <3>1, MinimalIn
  <2>2. T \in SUBSET D /\ ~Good(T) /\ T # {}
    BY <1>3
  <2> DEFINE n == Max(T)
             R == T \ {n}
  <2>3. Opening!Picks(T)
    BY <1>0, <2>2 DEF Opening!Picks
  <2>4. n \in T /\ After1(T) = ReopenStep(Job(e, lots, taken), After1(R), n)
    <3>1. Max(T) \in T
      BY <2>2, <2>3 DEF Opening!Picks
    <3>2. Opening!Fold(Job(e, lots, taken), l, T)
            = ReopenStep(Job(e, lots, taken), Opening!Fold(Job(e, lots, taken), l, T \ {Max(T)}), Max(T))
      BY <2>1, <2>2, <2>3, OpeningFinite, Opening!FoldUnfolds
    <3> QED BY <3>1, <3>2
  <2> HIDE DEF n
  <2>5. Good(R) /\ n \in D
    <3>1. R \notin Bad /\ R \in SUBSET D
      BY <2>1, <2>2, <2>4
    <3> HIDE DEF Good
    <3> QED BY <2>2, <2>4, <3>1
  <2>6. SumFunctionOnSet(g, T) = g[n] + SumFunctionOnSet(g, R) /\ SumFunctionOnSet(g, R) \in Int
    <3>1. \A x \in T : g[x] \in Int
      BY <1>1, <2>2
    <3>2. IsFiniteSet(R) /\ \A x \in R : g[x] \in Int
      BY <2>1, <3>1, FS_Subset
    <3> HIDE DEF Bad
    <3>3. SumFunctionOnSet(g, T) = g[n] + SumFunctionOnSet(g, T \ {n})
      <4> HIDE DEF R, D, Good
      <4>1. IsFiniteSet(T) /\ n \in T
        BY <2>1, <2>4
      <4> QED BY ONLY <4>1, <3>1, SumTakesOut
    <3>4. SumFunctionOnSet(g, R) \in Int
      <4> HIDE DEF R
      <4> QED BY <3>2, SumIsInt
    <3> QED BY <3>3, <3>4, Zenon
  <2> HIDE DEF After1, R, Bad
  <2> DEFINE a == After1(R)
             b == After1(T)
  <2>7. b \in Ledgers /\ b.ok = a.ok /\ b.done = a.done /\ Held(b.lots) = Held(a.lots) + taken[n] * lots[n].cost
    <3>1. a \in Ledgers /\ n \in 1 .. Len(lots) /\ b = ReopenStep(Job(e, lots, taken), a, n)
      BY <1>1, <2>4, <2>5
    <3> HIDE DEF a, b
    <3> QED BY <3>1, ReopenOne
  <2>8. taken[n] * lots[n].cost = g[n] /\ g[n] \in Int
    BY <1>1, <2>5
  <2>9. Held(b.lots) = Held(l.lots) + SumFunctionOnSet(g, T)
    <3> DEFINE x == SumFunctionOnSet(g, R)
               y == g[n]
               z == Held(l.lots)
    <3>1. x \in Int /\ y \in Int /\ z \in Int /\ SumFunctionOnSet(g, T) = y + x
          /\ Held(a.lots) = z + x /\ Held(b.lots) = Held(a.lots) + y
      BY <1>2, <2>5, <2>6, <2>7, <2>8
    <3> HIDE DEF x, y, z
    <3>2. Held(b.lots) = z + SumFunctionOnSet(g, T)
      BY <3>1
    <3> QED BY <3>2 DEF z
  <2> QED BY <2>2, <2>5, <2>7, <2>9
<1>5. Reopen(l, e, lots, taken) = After1(D)
  <2>1. DOMAIN [n \in DOMAIN lots |-> n] = D
    BY <1>0
  <2> QED BY <2>1, ReopenIsFold
<1>6. Good(D)
  BY <1>4
<1> QED BY <1>5, <1>6 DEF D, g, N

-----------------------------------------------------------------------------
(* The realizations of a disposal.                                           *)

\* The row of the realizations for what a disposal took of a lot.
SoldOf(e, lots, taken, n) ==
  [account |-> e.account, instrument |-> e.instrument, by |-> e.id, n |-> n,
   quantity |-> taken[n], cost |-> lots[n].cost, on |-> e.on, sale |-> (e.type = "SELL"),
   gain |-> IF e.type = "SELL" THEN taken[n] * ((e.amount - e.charges) \div e.quantity - lots[n].cost)
            ELSE 0]

SoldBy(e, lots, taken) == {SoldOf(e, lots, taken, n) : n \in {m \in DOMAIN lots : taken[m] > 0}}

Gains(e, lots, taken) ==
  [n \in DOMAIN lots |-> taken[n] * ((e.amount - e.charges) \div e.quantity - lots[n].cost)]

LEMMA SoldRows ==
  ASSUME NEW e, IsOperation(e), e.instrument \in Instruments, e.quantity > 0,
         NEW lots \in Seq(LotRow), NEW taken, \A n \in 1 .. Len(lots) : taken[n] \in 0 .. lots[n].open
  PROVE  /\ SoldBy(e, lots, taken) \in SUBSET DoneRow /\ IsFiniteSet(SoldBy(e, lots, taken))
         /\ \A r \in SoldBy(e, lots, taken) : r.by = e.id /\ r.sale = (e.type = "SELL")
         /\ CostOf(SoldBy(e, lots, taken)) = SumFunctionOnSet(Given(lots, taken), 1 .. Len(lots))
         /\ e.type = "SELL" =>
              GainOf(SoldBy(e, lots, taken)) = SumFunctionOnSet(Gains(e, lots, taken), 1 .. Len(lots))
<1> DEFINE D == 1 .. Len(lots)
           P == {m \in DOMAIN lots : taken[m] > 0}
           u == (e.amount - e.charges) \div e.quantity
           Row(n) == SoldOf(e, lots, taken, n)
           b == [n \in P |-> Row(n)]
           sold == SoldBy(e, lots, taken)
           g == Given(lots, taken)
           k == Gains(e, lots, taken)
<1>1. /\ e.account \in Accounts /\ e.id \in Int /\ e.on \in Int /\ e.amount \in Int /\ e.charges \in Int
      /\ e.quantity \in Int
  BY DEF IsOperation
<1>2. u \in Int
  BY <1>1, DividedBack
<1>3. IsFiniteSet(D) /\ P \in SUBSET D /\ \A n \in D : n \in 1 .. Len(lots) /\ n \in DOMAIN lots /\ n \in Nat
  <2>1. Len(lots) \in Nat /\ DOMAIN lots = D
    OBVIOUS
  <2>2. IsFiniteSet(D)
    BY <2>1, FS_Interval
  <2>3. \A n \in D : n \in 1 .. Len(lots) /\ n \in Nat
    BY <2>1
  <2> HIDE DEF D
  <2> QED BY <2>1, <2>2, <2>3
<1>4. \A n \in D : lots[n].cost \in Int /\ taken[n] \in Nat /\ g[n] = taken[n] * lots[n].cost /\ g[n] \in Int
  <2>1. \A n \in D : lots[n] \in LotRow
    OBVIOUS
  <2>2. \A n \in 1 .. Len(lots) : g[n] = taken[n] * lots[n].cost /\ g[n] \in Int
    BY ReducedGives, 0 \in Int
  <2>3. \A n \in D : lots[n].cost \in Int /\ lots[n].open \in Nat
    BY <2>1, LotFields
  <2> QED BY <2>2, <2>3
<1>5. \A n \in D : (n \in P <=> taken[n] > 0) /\ k[n] = taken[n] * (u - lots[n].cost)
  BY <1>3 DEF Gains
<1>6. ASSUME NEW n \in D PROVE k[n] \in Int
  <2>1. lots[n].cost \in Int /\ taken[n] \in Int
    BY <1>4
  <2> DEFINE x == lots[n].cost
             y == taken[n]
  <2>2. x \in Int /\ y \in Int /\ k[n] = y * (u - x)
    BY <1>5, <2>1
  <2> HIDE DEF x, y, u, k
  <2> QED BY <1>2, <2>2
<1>7. sold = {Row(n) : n \in P}
  BY Zenon DEF SoldBy
<1>8. ASSUME NEW n \in D
      PROVE  /\ Row(n) \in DoneRow /\ Row(n).by = e.id /\ Row(n).sale = (e.type = "SELL") /\ Row(n).n = n
             /\ Row(n).quantity * Row(n).cost = g[n]
             /\ e.type = "SELL" => Row(n).gain = k[n]
  <2> DEFINE x == lots[n].cost
             y == taken[n]
             sale == e.type = "SELL"
             z == IF sale THEN k[n] ELSE 0
  <2>1. x \in Int /\ y \in Int /\ z \in Int /\ sale \in BOOLEAN /\ y * x = g[n] /\ n \in Nat
    BY <1>3, <1>4, <1>6
  <2>2. Row(n) = [account |-> e.account, instrument |-> e.instrument, by |-> e.id, n |-> n,
                  quantity |-> y, cost |-> x, on |-> e.on, sale |-> sale, gain |-> z]
    <3>1. k[n] = taken[n] * ((e.amount - e.charges) \div e.quantity - lots[n].cost)
      BY <1>5
    <3> QED BY <3>1, Zenon DEF SoldOf
  <2> HIDE DEF x, y, sale, k, Row
  <2>3. Row(n) \in DoneRow
    <3> HIDE DEF z
    <3> QED BY <1>1, <2>1, <2>2 DEF DoneRow
  <2>4. Row(n).by = e.id /\ Row(n).n = n /\ Row(n).quantity = y /\ Row(n).cost = x /\ Row(n).gain = z
    BY <2>2
  <2>5. Row(n).sale = sale
    BY <2>2
  <2> QED BY <2>1, <2>3, <2>4, <2>5 DEF sale
<1> HIDE DEF Row, P, g, k, sold, D
<1>9. sold \in SUBSET DoneRow /\ \A r \in sold : r.by = e.id /\ r.sale = (e.type = "SELL")
  <2>1. \A r \in sold : \E n \in P : r = Row(n)
    BY <1>7
  <2>2. \A n \in P : Row(n) \in DoneRow /\ Row(n).by = e.id /\ Row(n).sale = (e.type = "SELL")
    BY <1>3, <1>8
  <2>3. \A r \in sold : r \in DoneRow /\ r.by = e.id /\ r.sale = (e.type = "SELL")
    BY <2>1, <2>2, Zenon
  <2> QED BY <2>3
<1>10. IsFiniteSet(P)
  BY <1>3, FS_Subset
<1>11. /\ b \in [P -> sold] /\ \A x, y \in P : b[x] = b[y] => x = y
       /\ \A r \in sold : \E n \in P : b[n] = r
       /\ \A n \in P : b[n] = Row(n)
  <2>1. \A n \in P : b[n] = Row(n) /\ Row(n) \in sold /\ Row(n).n = n
    BY <1>3, <1>7, <1>8
  <2>2. \A r \in sold : \E n \in P : Row(n) = r
    BY <1>7
  <2>3. b \in [P -> sold]
    BY <2>1
  <2> HIDE DEF b
  <2> QED BY <2>1, <2>2, <2>3
<1>12. IsFiniteSet(sold)
  <2>1. b \in Surjection(P, sold)
    BY <1>11 DEF Surjection
  <2> QED BY <1>10, <2>1, FS_Surjection
<1> HIDE DEF b
<1>13. CostOf(sold) = SumFunctionOnSet(g, D)
  <2> DEFINE c == [r \in sold |-> r.quantity * r.cost]
  <2>1. \A n \in P : g[n] = c[b[n]] /\ g[n] \in Int
    BY <1>3, <1>4, <1>8, <1>11
  <2>2. SumFunctionOnSet(g, P) = SumFunctionOnSet(c, sold)
    <3> HIDE DEF c
    <3> QED BY <1>10, <1>11, <2>1, SumRenamed
  <2>3. \A n \in D \ P : g[n] = 0
    <3> SUFFICES ASSUME NEW n \in D \ P PROVE g[n] = 0
      OBVIOUS
    <3>1. taken[n] = 0 /\ lots[n].cost \in Int /\ g[n] = taken[n] * lots[n].cost
      BY <1>4, <1>5
    <3> QED BY <3>1
  <2>4. SumFunctionOnSet(g, D) = SumFunctionOnSet(g, P)
    <3>1. \A n \in P : g[n] = g[n] /\ g[n] \in Int
      BY <1>3, <1>4
    <3>2. IsFiniteSet(D) /\ P \in SUBSET D
      BY <1>3
    <3> HIDE DEF c
    <3> QED BY ONLY <2>3, <3>1, <3>2, SumWhere
  <2>5. CostOf(sold) = SumFunctionOnSet(c, sold)
    BY Zenon DEF CostOf, SumFunction
  <2> QED BY <2>2, <2>4, <2>5
<1>14. ASSUME e.type = "SELL" PROVE GainOf(sold) = SumFunctionOnSet(k, D)
  <2> DEFINE c == [r \in sold |-> r.gain]
  <2>1. \A n \in P : k[n] = c[b[n]] /\ k[n] \in Int
    BY <1>3, <1>6, <1>8, <1>11, <1>14
  <2>2. SumFunctionOnSet(k, P) = SumFunctionOnSet(c, sold)
    <3> HIDE DEF c
    <3> QED BY <1>10, <1>11, <2>1, SumRenamed
  <2>3. \A n \in D \ P : k[n] = 0
    <3> SUFFICES ASSUME NEW n \in D \ P PROVE k[n] = 0
      OBVIOUS
    <3>1. taken[n] = 0 /\ lots[n].cost \in Int /\ k[n] = taken[n] * (u - lots[n].cost)
      BY <1>4, <1>5
    <3> QED BY <1>2, <3>1
  <2>4. SumFunctionOnSet(k, D) = SumFunctionOnSet(k, P)
    <3>1. \A n \in P : k[n] = k[n] /\ k[n] \in Int
      BY <1>3, <1>6
    <3>2. IsFiniteSet(D) /\ P \in SUBSET D
      BY <1>3
    <3> HIDE DEF c
    <3> QED BY ONLY <2>3, <3>1, <3>2, SumWhere
  <2>5. GainOf(sold) = SumFunctionOnSet(c, sold)
    BY Zenon DEF GainOf, SumFunction
  <2> QED BY <2>2, <2>4, <2>5
<1> QED BY <1>9, <1>12, <1>13, <1>14 DEF sold, g, k, D

\* A sale brings in what it took cost and the gain on it.
LEMMA GainsAre ==
  ASSUME NEW e, IsOperation(e), e.quantity > 0, (e.amount - e.charges) % e.quantity = 0,
         NEW lots \in Seq(LotRow), NEW taken, \A n \in 1 .. Len(lots) : taken[n] \in 0 .. lots[n].open,
         SumFunctionOnSet(taken, 1 .. Len(lots)) = e.quantity
  PROVE  SumFunctionOnSet(Gains(e, lots, taken), 1 .. Len(lots))
           = (e.amount - e.charges) - SumFunctionOnSet(Given(lots, taken), 1 .. Len(lots))
<1> DEFINE D == 1 .. Len(lots)
           net == e.amount - e.charges
           u == net \div e.quantity
           g == Given(lots, taken)
           k == Gains(e, lots, taken)
           f == [n \in D |-> u * taken[n]]
<1>1. net \in Int /\ e.quantity \in Int
  BY DEF IsOperation
<1>2. u \in Int /\ e.quantity * u = net
  <2>1. net % e.quantity = 0
    OBVIOUS
  <2> HIDE DEF net
  <2> QED BY <1>1, <2>1, DividedBack
<1>3. IsFiniteSet(D) /\ \A n \in D : n \in 1 .. Len(lots) /\ n \in DOMAIN lots
  <2>1. Len(lots) \in Nat /\ DOMAIN lots = D
    OBVIOUS
  <2>2. IsFiniteSet(D)
    BY <2>1, FS_Interval
  <2> QED BY <2>1, <2>2
<1>4. \A n \in D : lots[n].cost \in Int /\ taken[n] \in Int /\ g[n] = taken[n] * lots[n].cost /\ g[n] \in Int
  <2>1. \A n \in D : lots[n] \in LotRow
    OBVIOUS
  <2>2. \A n \in 1 .. Len(lots) : g[n] = taken[n] * lots[n].cost /\ g[n] \in Int
    BY ReducedGives, 0 \in Int
  <2>3. \A n \in D : lots[n].cost \in Int /\ lots[n].open \in Nat
    BY <2>1, LotFields
  <2> SUFFICES ASSUME NEW n \in D
               PROVE  lots[n].cost \in Int /\ taken[n] \in Int /\ g[n] = taken[n] * lots[n].cost /\ g[n] \in Int
    OBVIOUS
  <2>4. lots[n].cost \in Int /\ lots[n].open \in Nat
    BY <2>3
  <2>5. taken[n] \in 0 .. lots[n].open
    OBVIOUS
  <2>6. taken[n] \in Int
    BY <2>4, <2>5
  <2> QED BY <2>2, <2>4, <2>6
<1>5. \A n \in D : k[n] = taken[n] * (u - lots[n].cost)
  BY <1>3 DEF Gains
<1>0. SumFunctionOnSet(taken, D) = e.quantity
  OBVIOUS
<1> HIDE DEF D, g, k, u, net
<1>6. ASSUME NEW n \in D PROVE f[n] = u * taken[n] /\ f[n] \in Int /\ k[n] \in Int /\ f[n] = k[n] + g[n]
  <2> DEFINE x == lots[n].cost
             y == taken[n]
  <2>1. x \in Int /\ y \in Int /\ k[n] = y * (u - x) /\ g[n] = y * x /\ f[n] = u * y
    BY <1>4, <1>5
  <2> HIDE DEF x, y, f
  <2>2. y * (u - x) \in Int /\ y * x \in Int /\ u * y \in Int /\ u * y = y * (u - x) + y * x
    BY <1>2, <2>1
  <2> QED BY <2>1, <2>2 DEF y
<1> HIDE DEF f
<1>7. SumFunctionOnSet(f, D) = SumFunctionOnSet(k, D) + SumFunctionOnSet(g, D)
  BY <1>3, <1>4, <1>6, SumsAdd
<1>8. SumFunctionOnSet(f, D) = u * SumFunctionOnSet(taken, D)
  BY <1>2, <1>3, <1>4, <1>6, SumScaled
<1>9. SumFunctionOnSet(k, D) \in Int /\ SumFunctionOnSet(g, D) \in Int
  BY <1>3, <1>4, <1>6, SumIsInt
<1>10. u * e.quantity = net
  BY <1>1, <1>2
<1>11. SumFunctionOnSet(k, D) = net - SumFunctionOnSet(g, D)
  <2> DEFINE a == SumFunctionOnSet(k, D)
             b == SumFunctionOnSet(g, D)
  <2>1. a \in Int /\ b \in Int /\ net \in Int /\ net = a + b
    BY <1>0, <1>1, <1>7, <1>8, <1>9, <1>10
  <2> HIDE DEF a, b
  <2>2. a = net - b
    BY <2>1
  <2> QED BY <2>2 DEF a, b
<1> QED BY <1>11 DEF D, net, k, g

-----------------------------------------------------------------------------
(* What one operation does to the ledger.                                    *)

\* The holdings cost that much more, and these realizations are new.
Moves(l, m, e, cost, rows) ==
  /\ m \in Ledgers /\ m.ok = l.ok
  /\ rows \in SUBSET DoneRow /\ IsFiniteSet(rows) /\ m.done = l.done \cup rows
  /\ \A r \in rows : r.by = e.id /\ r.sale = (e.type = "SELL")
  /\ cost \in Int /\ Held(m.lots) = Held(l.lots) + cost

\* What an operation brings into the holdings from outside the book.
Brings(e) ==
  IF e.type = "BUY" THEN e.amount + e.charges
  ELSE IF e.type = "TRANSFER_IN" THEN e.quantity * UnitCost(e) ELSE 0

\* What it brings in is in the holdings or left them; a sale brings in what it
\* took cost and the gain on it.
Balances(e, cost, rows) ==
  /\ Brings(e) = cost + (IF e.type = "SELL" \/ e.to = NoAccount THEN CostOf(rows) ELSE 0)
  /\ IF e.type = "SELL" THEN e.amount - e.charges = CostOf(rows) + GainOf(rows) ELSE TRUE

LEMMA LedgerFields ==
  ASSUME NEW l \in Ledgers
  PROVE  /\ l.ok \in BOOLEAN /\ l.lots \in [Holdings -> Seq(LotRow)] /\ l.done \in SUBSET DoneRow
         /\ Held(l.lots) \in Int /\ [l EXCEPT !.ok = FALSE] \in Ledgers
BY HeldIs DEF Ledgers

LEMMA CostOfNone == CostOf({}) = 0 /\ GainOf({}) = 0
<1> DEFINE c == [r \in {} |-> r.quantity * r.cost]
           g == [r \in {} |-> r.gain]
<1>1. CostOf({}) = SumFunctionOnSet(c, {}) /\ GainOf({}) = SumFunctionOnSet(g, {})
  BY Zenon DEF CostOf, GainOf, SumFunction
<1> HIDE DEF c, g
<1> QED BY <1>1, SumOfNone

LEMMA OperationFields ==
  ASSUME NEW e, IsOperation(e)
  PROVE  /\ e.account \in Accounts /\ e.id \in Int /\ e.on \in Int /\ e.amount \in Int /\ e.charges \in Int
         /\ e.quantity \in Int /\ e.per \in Int /\ e.price \in Int /\ e.settled \in Int
         /\ e.currency \in STRING /\ e.settlement \in STRING
         /\ e.to \in Accounts \cup {NoAccount} /\ e.instrument \in Instruments \cup {NoInstrument}
         /\ e.type \in {"BUY", "SELL", "SPLIT", "TRANSFER_IN", "TRANSFER_OUT"} =>
              e.instrument \in Instruments /\ e.quantity > 0
         /\ e.type = "SPLIT" => e.per > 0
         /\ e.type \in {"BUY", "SELL", "SPLIT", "TRANSFER_IN", "TRANSFER_OUT", "DIVIDEND", "INTEREST",
                        "DEPOSIT", "WITHDRAWAL", "FEE", "TAX", "CURRENCY_EXCHANGE"}
<1>1. e.type \in DOMAIN TypeOrder
  BY DEF IsOperation
<1> QED BY <1>1 DEF IsOperation, TypeOrder

\* A lot opened alone: purchases and entries.
LEMMA OpeningMoves ==
  ASSUME NEW l \in Ledgers, NEW e, IsOperation(e), e.instrument \in Instruments, e.quantity \in Nat,
         e.type # "SELL", NEW cost \in Int, NEW estimated \in BOOLEAN
  PROVE  Moves(l, OpenLot(l, e.account, e.instrument, NewLot(e.on, e.quantity, cost, e.id, estimated)), e,
               e.quantity * cost, {})
<1> DEFINE lot == NewLot(e.on, e.quantity, cost, e.id, estimated)
           m == OpenLot(l, e.account, e.instrument, lot)
<1>1. e.account \in Accounts /\ e.on \in Int /\ e.id \in Int
  BY OperationFields
<1>2. lot \in LotRow /\ lot.open = e.quantity /\ lot.cost = cost
  BY <1>1, NewLotIsLot
<1> HIDE DEF lot
<1>3. m \in Ledgers /\ m.ok = l.ok /\ m.done = l.done /\ Held(m.lots) = Held(l.lots) + lot.open * lot.cost
  BY <1>1, <1>2, OpenLotAdds
<1> HIDE DEF m
<1>4. e.quantity * cost \in Int /\ Held(m.lots) = Held(l.lots) + e.quantity * cost
  BY <1>2, <1>3
<1>5. IsFiniteSet({})
  BY FS_EmptySet
<1>6. Moves(l, m, e, e.quantity * cost, {})
  BY <1>3, <1>4, <1>5 DEF Moves
<1> QED BY <1>6 DEF m, lot

\* Cash and touched holdings move nothing.
LEMMA StillMoves ==
  ASSUME NEW l, NEW m, NEW k, NEW e, NEW cost, NEW rows, Moves(l, m, e, cost, rows), SameHoldings(m, k)
  PROVE  Moves(l, k, e, cost, rows)
BY DEF Moves, SameHoldings

LEMMA NothingMoves ==
  ASSUME NEW l \in Ledgers, NEW k, NEW e, SameHoldings(l, k)
  PROVE  Moves(l, k, e, 0, {})
<1>1. IsFiniteSet({}) /\ Held(l.lots) \in Int
  BY FS_EmptySet, LedgerFields
<1> QED BY <1>1 DEF Moves, SameHoldings

LEMMA BuyMoves ==
  ASSUME NEW l \in Ledgers, NEW e, IsOperation(e), e.type = "BUY"
  PROVE  \E cost : /\ Moves(l, Buy(l, e), e, cost, {})
                   /\ (e.amount + e.charges) % e.quantity = 0 => Balances(e, cost, {})
<1> DEFINE total == e.amount + e.charges
           unit == total \div e.quantity
           m == OpenLot(l, e.account, e.instrument, NewLot(e.on, e.quantity, unit, e.id, FALSE))
           k == AdjustCash(m, e.account, e.currency, -total)
<1>1. /\ total \in Int /\ e.quantity \in Int /\ e.quantity > 0 /\ e.instrument \in Instruments
      /\ e.account \in Accounts /\ e.currency \in STRING /\ -total \in Int
  BY OperationFields
<1>2. unit \in Int /\ (total % e.quantity = 0 => e.quantity * unit = total)
  <2> HIDE DEF total
  <2> QED BY <1>1, DividedBack
<1>3. Buy(l, e) = k
  BY Zenon DEF Buy
<1> HIDE DEF total, unit
<1>4. e.quantity \in Nat /\ e.type # "SELL" /\ FALSE \in BOOLEAN
  BY <1>1
<1>5. Moves(l, m, e, e.quantity * unit, {})
  BY <1>1, <1>2, <1>4, OpeningMoves
<1> HIDE DEF m
<1>6. SameHoldings(m, k)
  <2>1. m \in Ledgers
    BY <1>5 DEF Moves
  <2> QED BY <1>1, <2>1, AdjustKeeps
<1>7. Moves(l, k, e, e.quantity * unit, {})
  BY <1>5, <1>6, StillMoves
<1>8. total % e.quantity = 0 => Balances(e, e.quantity * unit, {})
  <2> SUFFICES ASSUME total % e.quantity = 0 PROVE Balances(e, e.quantity * unit, {})
    OBVIOUS
  <2>1. Brings(e) = total
    BY DEF Brings, total
  <2>2. e.quantity * unit = total /\ CostOf({}) = 0 /\ total \in Int
    BY <1>1, <1>2, CostOfNone
  <2> QED BY <2>1, <2>2 DEF Balances
<1> QED BY <1>3, <1>7, <1>8 DEF total

LEMMA TransferInMoves ==
  ASSUME NEW l \in Ledgers, NEW e, IsOperation(e), e.type = "TRANSFER_IN"
  PROVE  \E cost : Moves(l, TransferIn(l, e), e, cost, {}) /\ Balances(e, cost, {})
<1> DEFINE unit == UnitCost(e)
           estimated == e.price = 0
           m == OpenLot(l, e.account, e.instrument, NewLot(e.on, e.quantity, unit, e.id, estimated))
<1>1. /\ e.quantity \in Int /\ e.quantity > 0 /\ e.instrument \in Instruments /\ e.price \in Int
      /\ e.quantity \in Nat /\ e.type # "SELL"
  BY OperationFields
<1>2. unit \in Int /\ estimated \in BOOLEAN
  <2>1. ClosePrice[e.instrument] \in Int
    BY <1>1, BookAssumption
  <2> QED BY <1>1, <2>1 DEF UnitCost
<1>3. TransferIn(l, e) = m
  BY Zenon DEF TransferIn
<1> HIDE DEF unit, estimated
<1>4. Moves(l, m, e, e.quantity * unit, {})
  BY <1>1, <1>2, OpeningMoves
<1>5. Balances(e, e.quantity * unit, {})
  <2>1. Brings(e) = e.quantity * unit
    BY DEF Brings, unit
  <2>2. e.quantity * unit \in Int /\ CostOf({}) = 0
    BY <1>1, <1>2, CostOfNone
  <2> QED BY <2>1, <2>2 DEF Balances
<1> QED BY <1>3, <1>4, <1>5

LEMMA SplitMoves ==
  ASSUME NEW l \in Ledgers, NEW e, IsOperation(e), e.type = "SPLIT"
  PROVE  /\ Split(l, e) \in Ledgers
         /\ DividesOn(l, e) => Moves(l, Split(l, e), e, 0, {}) /\ Balances(e, 0, {})
<1> DEFINE lots == l.lots
           new == [h \in Holdings |-> IF h[2] = e.instrument THEN Divided(lots[h], e) ELSE lots[h]]
           m == Split(l, e)
<1>1. lots \in [Holdings -> Seq(LotRow)]
  BY LedgerFields
<1>2. e.quantity \in Int /\ e.per \in Int /\ e.quantity > 0 /\ e.per > 0
  BY OperationFields
<1>3. m = [l EXCEPT !.lots = new]
  <2>1. DOMAIN lots = Holdings
    BY <1>1
  <2>2. Split(l, e) = [l EXCEPT !.lots = [h \in DOMAIN lots |->
                         IF h[2] = e.instrument THEN Divided(lots[h], e) ELSE lots[h]]]
    BY Zenon DEF Split
  <2> QED BY <2>1, <2>2, Zenon
<1>4. \A h \in Holdings : lots[h] \in Seq(LotRow) /\ Divided(lots[h], e) \in Seq(LotRow)
  BY <1>1, <1>2, DividedKeeps
<1> HIDE DEF m, lots
<1>5. new \in [Holdings -> Seq(LotRow)] /\ DOMAIN new = Holdings
  <2>1. \A h \in Holdings : (IF h[2] = e.instrument THEN Divided(lots[h], e) ELSE lots[h]) \in Seq(LotRow)
    BY <1>4
  <2> HIDE DEF Holdings
  <2> QED BY <2>1
<1>6. \A h \in Holdings : new[h] = IF h[2] = e.instrument THEN Divided(lots[h], e) ELSE lots[h]
  BY Zenon
<1> HIDE DEF new
<1>7. m \in Ledgers /\ m.ok = l.ok /\ m.done = l.done /\ m.lots = new
  BY <1>3, <1>5 DEF Ledgers
<1>8. ASSUME DividesOn(l, e) PROVE Held(new) = Held(lots)
  <2>1. ASSUME NEW h \in Holdings PROVE Bases(new)[h] = Bases(lots)[h]
    <3>1. Bases(new)[h] = Basis(new[h]) /\ Bases(lots)[h] = Basis(lots[h])
      BY <1>1, <1>5, HeldIs
    <3>2. CASE h[2] # e.instrument
      BY <1>6, <3>1, <3>2
    <3>3. CASE h[2] = e.instrument
      <4>1. \A n \in DOMAIN lots[h] : /\ (lots[h][n].open * e.quantity) % e.per = 0
                                      /\ (lots[h][n].cost * e.per) % e.quantity = 0
        <5>1. h \in DOMAIN l.lots
          BY <1>1 DEF lots
        <5> QED BY <1>8, <3>3, <5>1 DEF DividesOn, lots
      <4>2. Basis(Divided(lots[h], e)) = Basis(lots[h])
        BY <1>2, <1>4, <4>1, DividedKeeps
      <4> QED BY <1>6, <3>1, <3>3, <4>2
    <3> QED BY <3>2, <3>3
  <2>2. /\ Held(new) = SumFunctionOnSet(Bases(new), Holdings) /\ IsFiniteSet(Holdings)
        /\ Held(lots) = SumFunctionOnSet(Bases(lots), Holdings)
    BY <1>1, <1>5, HeldIs
  <2>3. SumFunctionOnSet(Bases(new), Holdings) = SumFunctionOnSet(Bases(lots), Holdings)
    <3> HIDE DEF Holdings
    <3> QED BY <2>1, <2>2, SumAgrees
  <2> QED BY <2>2, <2>3
<1>9. ASSUME DividesOn(l, e) PROVE Moves(l, m, e, 0, {}) /\ Balances(e, 0, {})
  <2>1. Held(m.lots) = Held(l.lots) /\ Held(l.lots) \in Int
    BY <1>7, <1>8, <1>9, LedgerFields DEF lots
  <2>2. IsFiniteSet({}) /\ CostOf({}) = 0
    BY FS_EmptySet, CostOfNone
  <2>3. Moves(l, m, e, 0, {})
    BY <1>7, <2>1, <2>2 DEF Moves
  <2>4. Balances(e, 0, {})
    BY <2>2 DEF Balances, Brings
  <2> QED BY <2>3, <2>4
<1> QED BY <1>7, <1>9 DEF m

\* A disposal: refused, or it takes its quantity off the oldest lots.
LEMMA DisposalMoves ==
  ASSUME NEW l \in Ledgers, NEW e, IsOperation(e), e.type \in {"SELL", "TRANSFER_OUT"}
  PROVE  /\ Disposal(l, e) \in Ledgers
         /\ Disposal(l, e).ok => \E cost, rows : /\ Moves(l, Disposal(l, e), e, cost, rows)
                                                 /\ DividesOn(l, e) => Balances(e, cost, rows)
<1> DEFINE h == <<e.account, e.instrument>>
           lots == l.lots[h]
           taken == Taken(lots, e.quantity)
           net == e.amount - e.charges
           left == Reduced(lots, taken, e.on)
           sold == SoldBy(e, lots, taken)
           given == SumFunctionOnSet(Given(lots, taken), 1 .. Len(lots))
           consumed == [l EXCEPT !.lots[h] = left, !.done = @ \cup sold]
           m == Disposal(l, e)
<1>1. /\ e.quantity \in Nat /\ e.quantity > 0 /\ e.instrument \in Instruments /\ e.account \in Accounts
      /\ e.currency \in STRING /\ net \in Int /\ e.on \in Int /\ e.to \in Accounts \cup {NoAccount}
  BY OperationFields
<1>2. h \in Holdings /\ l.lots \in [Holdings -> Seq(LotRow)] /\ lots \in Seq(LotRow)
  BY <1>1, LedgerFields DEF Holdings
<1>3. m = IF Open(lots) < e.quantity THEN Fails(l)
          ELSE IF e.type = "SELL" THEN AdjustCash(consumed, e.account, e.currency, net)
          ELSE IF e.to = NoAccount THEN consumed
          ELSE Reopen(consumed, e, lots, taken)
  BY Zenon DEF Disposal, Reduced, SoldBy, SoldOf
<1> HIDE DEF lots, m, h
<1>4. /\ \A n \in 1 .. Len(lots) : taken[n] \in 0 .. lots[n].open
      /\ Open(lots) >= e.quantity => SumFunctionOnSet(taken, 1 .. Len(lots)) = e.quantity
  BY <1>1, <1>2, TakenFits
<1>5. Fails(l) \in Ledgers /\ Fails(l).ok = FALSE
  <2>1. [l EXCEPT !.ok = FALSE].ok = FALSE
    BY DEF Ledgers
  <2> QED BY <2>1, LedgerFields DEF Fails
<1> HIDE DEF taken
<1>6. left \in Seq(LotRow) /\ Basis(left) = Basis(lots) - given
  BY <1>1, <1>2, <1>4, ReducedGives
<1>7. /\ sold \in SUBSET DoneRow /\ IsFiniteSet(sold)
      /\ \A r \in sold : r.by = e.id /\ r.sale = (e.type = "SELL")
      /\ CostOf(sold) = given
      /\ e.type = "SELL" => GainOf(sold) = SumFunctionOnSet(Gains(e, lots, taken), 1 .. Len(lots))
  BY <1>1, <1>2, <1>4, SoldRows
<1>8. given \in Int
  <2> DEFINE D == 1 .. Len(lots)
             g == Given(lots, taken)
  <2>1. \A n \in D : g[n] \in Int
    BY <1>2, <1>4, ReducedGives, 0 \in Int
  <2>2. IsFiniteSet(D)
    <3>1. Len(lots) \in Nat
      BY <1>2
    <3> QED BY <3>1, FS_Interval
  <2> HIDE DEF D, g
  <2>3. SumFunctionOnSet(g, D) \in Int
    BY <2>1, <2>2, SumIsInt
  <2> QED BY <2>3 DEF D, g
<1>9. ASSUME ~(Open(lots) < e.quantity), DividesOn(l, e), e.type = "SELL"
      PROVE  GainOf(sold) = net - given
  <2>1. (e.amount - e.charges) % e.quantity = 0
    BY <1>9 DEF DividesOn
  <2>2. Open(lots) >= e.quantity
    <3>1. Open(lots) \in Int
      <4> DEFINE o == Opens(lots)
                 D == 1 .. Len(lots)
      <4>1. \A n \in D : o[n] \in Int
        <5>1. \A n \in D : lots[n] \in LotRow /\ o[n] = lots[n].open
          BY <1>2 DEF Opens
        <5> QED BY <5>1, LotFields
      <4>2. IsFiniteSet(D) /\ DOMAIN o = D
        <5>1. Len(lots) \in Nat /\ DOMAIN lots = 1 .. Len(lots)
          BY <1>2
        <5> QED BY <5>1, FS_Interval DEF Opens
      <4>3. Open(lots) = SumFunctionOnSet(o, D)
        <5>1. Open(lots) = SumFunctionOnSet(o, DOMAIN o)
          BY Zenon DEF Open, SumFunction, Opens
        <5> QED BY <4>2, <5>1, Zenon
      <4> HIDE DEF o, D
      <4> QED BY <4>1, <4>2, <4>3, SumIsInt
    <3> QED BY <1>1, <1>9, <3>1
  <2>3. SumFunctionOnSet(taken, 1 .. Len(lots)) = e.quantity
    BY <1>4, <2>2
  <2>4. SumFunctionOnSet(Gains(e, lots, taken), 1 .. Len(lots)) = (e.amount - e.charges) - given
    BY <1>1, <1>2, <1>4, <2>1, <2>3, GainsAre
  <2> QED BY <1>7, <1>9, <2>4
<1> HIDE DEF left, sold, given, net
<1> DEFINE new == [l.lots EXCEPT ![h] = left]
           done == l.done \cup sold
<1>10. consumed = [l EXCEPT !.lots = new, !.done = done]
  OBVIOUS
<1>11. new \in [Holdings -> Seq(LotRow)] /\ Held(new) = Held(l.lots) - given
  <2>1. new \in [Holdings -> Seq(LotRow)] /\ Held(new) = Held(l.lots) - Basis(lots) + Basis(left)
    BY <1>2, <1>6, HeldDiffersAt DEF lots
  <2>2. Held(l.lots) \in Int /\ Basis(lots) \in Int
    BY <1>2, LedgerFields, BasisIs
  <2> DEFINE a == Held(l.lots)
             b == Basis(lots)
             c == Held(new)
  <2>3. a \in Int /\ b \in Int /\ c = a - b + (b - given)
    BY <1>6, <2>1, <2>2
  <2> HIDE DEF a, b, c
  <2>4. c = a - given
    BY <1>8, <2>3
  <2> QED BY <2>1, <2>4 DEF a, c
<1>12. done \in SUBSET DoneRow
  BY <1>7, LedgerFields
<1> HIDE DEF consumed, new
<1>13. consumed \in Ledgers /\ consumed.ok = l.ok /\ consumed.lots = new /\ consumed.done = done
  <2> HIDE DEF done
  <2> QED BY <1>10, <1>11, <1>12 DEF Ledgers
<1>14. Moves(l, consumed, e, -given, sold)
  <2>1. -given \in Int /\ Held(l.lots) \in Int /\ Held(l.lots) + (-given) = Held(l.lots) - given
    <3> DEFINE a == Held(l.lots)
    <3>1. a \in Int
      BY LedgerFields
    <3> HIDE DEF a
    <3>2. -given \in Int /\ a + (-given) = a - given
      BY <1>8, <3>1
    <3> QED BY <3>1, <3>2 DEF a
  <2> QED BY <1>7, <1>11, <1>13, <2>1 DEF Moves
<1>15. CASE Open(lots) < e.quantity
  BY <1>3, <1>5, <1>15 DEF m
<1>16. CASE ~(Open(lots) < e.quantity) /\ e.type = "SELL"
  <2>1. m = AdjustCash(consumed, e.account, e.currency, net)
    BY <1>3, <1>16
  <2>2. SameHoldings(consumed, m)
    BY <1>1, <1>13, <2>1, AdjustKeeps
  <2>3. Moves(l, m, e, -given, sold)
    BY <1>14, <2>2, StillMoves
  <2>4. ASSUME DividesOn(l, e) PROVE Balances(e, -given, sold)
    <3>1. GainOf(sold) = net - given /\ CostOf(sold) = given /\ Brings(e) = 0
      BY <1>7, <1>9, <1>16, <2>4 DEF Brings
    <3>2. net = given + (net - given) /\ 0 = (-given) + given
      BY <1>1, <1>8
    <3> QED BY <1>16, <3>1, <3>2 DEF Balances, net
  <2>5. m \in Ledgers
    BY <2>2 DEF SameHoldings
  <2> QED BY <2>3, <2>4, <2>5 DEF m
<1>17. CASE ~(Open(lots) < e.quantity) /\ e.type = "TRANSFER_OUT" /\ e.to = NoAccount
  <2>1. m = consumed
    BY <1>3, <1>17
  <2>2. Balances(e, -given, sold)
    <3>1. CostOf(sold) = given /\ Brings(e) = 0 /\ 0 = (-given) + given
      BY <1>7, <1>8, <1>17 DEF Brings
    <3> QED BY <1>17, <3>1 DEF Balances
  <2> QED BY <1>13, <1>14, <2>1, <2>2 DEF m
<1>18. CASE ~(Open(lots) < e.quantity) /\ e.type = "TRANSFER_OUT" /\ e.to # NoAccount
  <2>1. m = Reopen(consumed, e, lots, taken)
    BY <1>3, <1>18
  <2>2. m \in Ledgers /\ m.ok = consumed.ok /\ m.done = consumed.done /\ Held(m.lots) = Held(consumed.lots) + given
    <3>1. e.to \in Accounts
      BY <1>1, <1>18
    <3> QED BY <1>1, <1>2, <1>4, <1>13, <2>1, <3>1, ReopenAdds DEF given
  <2>3. Moves(l, m, e, 0, sold)
    <3>1. Held(m.lots) = Held(l.lots) + 0
      <4> DEFINE a == Held(l.lots)
      <4>1. a \in Int /\ Held(m.lots) = (a - given) + given
        BY <1>11, <1>13, <2>2, LedgerFields
      <4> HIDE DEF a
      <4>2. Held(m.lots) = a + 0
        BY <1>8, <4>1
      <4> QED BY <4>2 DEF a
    <3> QED BY <1>7, <1>13, <2>2, <3>1 DEF Moves
  <2>4. Balances(e, 0, sold)
    BY <1>18 DEF Balances, Brings
  <2> QED BY <2>2, <2>3, <2>4 DEF m
<1> QED BY <1>15, <1>16, <1>17, <1>18

LEMMA ApplyMoves ==
  ASSUME NEW l \in Ledgers, NEW e, IsOperation(e)
  PROVE  /\ Apply(l, e) \in Ledgers
         /\ ~l.ok => Apply(l, e) = l
         /\ Apply(l, e).ok /\ DividesOn(l, e) =>
              \E cost, rows : Moves(l, Apply(l, e), e, cost, rows) /\ Balances(e, cost, rows)
<1> DEFINE after ==
        CASE e.type = "BUY" -> Buy(l, e)
          [] e.type \in {"SELL", "TRANSFER_OUT"} -> Disposal(l, e)
          [] e.type \in {"DIVIDEND", "INTEREST"} ->
               AdjustCash(l, e.account, e.currency, e.amount - e.charges)
          [] e.type = "DEPOSIT" -> AdjustCash(l, e.account, e.currency, e.amount)
          [] e.type \in {"WITHDRAWAL", "FEE", "TAX"} ->
               AdjustCash(l, e.account, e.currency, -e.amount)
          [] e.type = "SPLIT" -> Split(l, e)
          [] e.type = "TRANSFER_IN" -> TransferIn(l, e)
          [] e.type = "CURRENCY_EXCHANGE" -> Exchange(l, e)
           m == IF e.instrument = NoInstrument THEN after
                ELSE TouchPosition(after, e.account, e.instrument, e.on)
           Fine(k) == /\ k \in Ledgers
                      /\ k.ok /\ DividesOn(l, e) =>
                           \E cost, rows : Moves(l, k, e, cost, rows) /\ Balances(e, cost, rows)
<1>1. Apply(l, e) = IF ~l.ok THEN l ELSE m
  BY Zenon DEF Apply
<1>2. /\ e.account \in Accounts /\ e.on \in Int /\ e.amount \in Int /\ e.charges \in Int /\ e.settled \in Int
      /\ e.currency \in STRING /\ e.settlement \in STRING
      /\ e.instrument \in Instruments \cup {NoInstrument}
      /\ e.type \in {"BUY", "SELL", "SPLIT", "TRANSFER_IN", "TRANSFER_OUT", "DIVIDEND", "INTEREST",
                     "DEPOSIT", "WITHDRAWAL", "FEE", "TAX", "CURRENCY_EXCHANGE"}
  BY OperationFields
<1>3. ASSUME NEW k, SameHoldings(l, k), e.type \notin {"BUY", "SELL", "TRANSFER_IN"} PROVE Fine(k)
  <2>1. k \in Ledgers
    BY <1>3 DEF SameHoldings
  <2>2. Moves(l, k, e, 0, {})
    BY <1>3, NothingMoves
  <2>3. Balances(e, 0, {})
    BY <1>3, CostOfNone DEF Balances, Brings
  <2> QED BY <2>1, <2>2, <2>3
<1>4. ASSUME NEW delta \in Int, e.type \notin {"BUY", "SELL", "TRANSFER_IN"},
             after = AdjustCash(l, e.account, e.currency, delta)
      PROVE  Fine(after)
  <2>1. SameHoldings(l, AdjustCash(l, e.account, e.currency, delta))
    BY <1>2, AdjustKeeps
  <2> HIDE DEF after, Fine
  <2> QED BY <1>3, <1>4, <2>1
<1>5. Fine(after)
  <2>1. CASE e.type = "BUY"
    <3>1. after = Buy(l, e)
      BY <2>1
    <3>2. PICK cost : /\ Moves(l, Buy(l, e), e, cost, {})
                      /\ (e.amount + e.charges) % e.quantity = 0 => Balances(e, cost, {})
      BY <2>1, BuyMoves
    <3> HIDE DEF after
    <3>3. DividesOn(l, e) => (e.amount + e.charges) % e.quantity = 0
      BY <2>1 DEF DividesOn
    <3>4. after \in Ledgers
      BY <3>1, <3>2 DEF Moves
    <3> QED BY <3>1, <3>2, <3>3, <3>4
  <2>2. CASE e.type \in {"SELL", "TRANSFER_OUT"}
    <3>1. after = Disposal(l, e)
      BY <2>2
    <3> HIDE DEF after
    <3> QED BY <2>2, <3>1, DisposalMoves
  <2>3. CASE e.type \in {"DIVIDEND", "INTEREST"}
    <3>1. after = AdjustCash(l, e.account, e.currency, e.amount - e.charges)
      BY <2>3
    <3>2. e.amount - e.charges \in Int
      BY <1>2
    <3> HIDE DEF after, Fine
    <3> QED BY <1>4, <2>3, <3>1, <3>2
  <2>4. CASE e.type = "DEPOSIT"
    <3>1. after = AdjustCash(l, e.account, e.currency, e.amount)
      BY <2>4
    <3> HIDE DEF after, Fine
    <3> QED BY <1>2, <1>4, <2>4, <3>1
  <2>5. CASE e.type \in {"WITHDRAWAL", "FEE", "TAX"}
    <3>1. after = AdjustCash(l, e.account, e.currency, -e.amount)
      BY <2>5
    <3>2. -e.amount \in Int
      BY <1>2
    <3> HIDE DEF after, Fine
    <3> QED BY <1>4, <2>5, <3>1, <3>2
  <2>6. CASE e.type = "SPLIT"
    <3>1. after = Split(l, e)
      BY <2>6
    <3> HIDE DEF after
    <3> QED BY <2>6, <3>1, SplitMoves
  <2>7. CASE e.type = "TRANSFER_IN"
    <3>1. after = TransferIn(l, e)
      BY <2>7
    <3>2. PICK cost : Moves(l, TransferIn(l, e), e, cost, {}) /\ Balances(e, cost, {})
      BY <2>7, TransferInMoves
    <3> HIDE DEF after
    <3>3. after \in Ledgers
      BY <3>1, <3>2 DEF Moves
    <3> QED BY <3>1, <3>2, <3>3
  <2>8. CASE e.type = "CURRENCY_EXCHANGE"
    <3> DEFINE k == AdjustCash(l, e.account, e.currency, -(e.amount + e.charges))
               d == -(e.amount + e.charges)
    <3>1. after = AdjustCash(k, e.account, e.settlement, e.settled)
      BY <2>8 DEF Exchange
    <3>2. d \in Int
      BY <1>2
    <3> HIDE DEF after, Fine
    <3>3. SameHoldings(l, k)
      BY <1>2, <3>2, AdjustKeeps
    <3>4. SameHoldings(k, after)
      <4>1. k \in Ledgers
        BY <3>3 DEF SameHoldings
      <4> HIDE DEF k
      <4> QED BY <1>2, <3>1, <4>1, AdjustKeeps
    <3>5. SameHoldings(l, after)
      BY <3>3, <3>4 DEF SameHoldings
    <3> QED BY <1>3, <2>8, <3>5
  <2> HIDE DEF after, Fine
  <2> QED BY <1>2, <2>1, <2>2, <2>3, <2>4, <2>5, <2>6, <2>7, <2>8
<1>6. Fine(m)
  <2>1. CASE e.instrument = NoInstrument
    BY <1>5, <2>1, Zenon
  <2>2. CASE e.instrument # NoInstrument
    <3>1. m = TouchPosition(after, e.account, e.instrument, e.on) /\ e.instrument \in Instruments
      BY <1>2, <2>2
    <3>2. SameHoldings(after, m)
      <4>1. after \in Ledgers
        BY <1>5
      <4> HIDE DEF after, m
      <4> QED BY <1>2, <3>1, <4>1, TouchKeeps
    <3> HIDE DEF after, m
    <3>3. m \in Ledgers /\ m.ok = after.ok
      BY <3>2 DEF SameHoldings
    <3> QED BY <1>5, <3>2, <3>3, StillMoves
  <2> QED BY <2>1, <2>2
<1> HIDE DEF m
<1> QED BY <1>1, <1>6

-----------------------------------------------------------------------------
(* What the operations add up to.                                            *)

\* What SumJoins asks of a function and of its two parts.
Joins(h, f, g) ==
  /\ IsFiniteSet(DOMAIN f) /\ IsFiniteSet(DOMAIN g) /\ DOMAIN f \cap DOMAIN g = {}
  /\ DOMAIN h = DOMAIN f \cup DOMAIN g
  /\ \A x \in DOMAIN f : f[x] = h[x] /\ f[x] \in Int
  /\ \A x \in DOMAIN g : g[x] = h[x] /\ g[x] \in Int

LEMMA SumJoins ==
  ASSUME NEW f, NEW g, NEW h, Joins(h, f, g)
  PROVE  SumFunction(h) = SumFunction(f) + SumFunction(g) /\ SumFunction(f) \in Int /\ SumFunction(g) \in Int
<1> DEFINE S == DOMAIN f
           T == DOMAIN g
<1>0. /\ IsFiniteSet(S) /\ IsFiniteSet(T) /\ S \cap T = {} /\ DOMAIN h = S \cup T
      /\ \A x \in S : f[x] = h[x] /\ f[x] \in Int
      /\ \A x \in T : g[x] = h[x] /\ g[x] \in Int
  BY Zenon DEF Joins
<1>1. /\ SumFunction(f) = SumFunctionOnSet(f, S) /\ SumFunction(g) = SumFunctionOnSet(g, T)
      /\ SumFunction(h) = SumFunctionOnSet(h, S \cup T)
  BY <1>0, Zenon DEF SumFunction
<1> HIDE DEF S, T
<1>2. SumFunctionOnSet(f, S) = SumFunctionOnSet(h, S) /\ SumFunctionOnSet(g, T) = SumFunctionOnSet(h, T)
  BY <1>0, SumAgrees
<1>3. \A x \in S \cup T : h[x] \in Int
  BY <1>0
<1>4. SumFunctionOnSet(h, S \cup T) = SumFunctionOnSet(h, S) + SumFunctionOnSet(h, T)
  BY <1>0, <1>3, SumOfBoth
<1>5. SumFunctionOnSet(f, S) \in Int /\ SumFunctionOnSet(g, T) \in Int
  BY <1>0, SumIsInt
<1> QED BY <1>1, <1>2, <1>4, <1>5, Zenon

\* Two disjoint sets of realizations.
LEMMA RowsJoin ==
  ASSUME NEW S \in SUBSET DoneRow, NEW T \in SUBSET DoneRow, IsFiniteSet(S), IsFiniteSet(T), S \cap T = {}
  PROVE  /\ CostOf(S \cup T) = CostOf(S) + CostOf(T) /\ GainOf(S \cup T) = GainOf(S) + GainOf(T)
         /\ CostOf(S) \in Int /\ CostOf(T) \in Int /\ GainOf(S) \in Int /\ GainOf(T) \in Int
<1> DEFINE c(R) == [r \in R |-> r.quantity * r.cost]
           g(R) == [r \in R |-> r.gain]
<1>1. \A r \in S \cup T : r.quantity * r.cost \in Int /\ r.gain \in Int
  <2>1. \A r \in S \cup T : r.quantity \in Int /\ r.cost \in Int /\ r.gain \in Int
    BY DEF DoneRow
  <2> QED BY <2>1
<1>2. /\ \A x \in S : c(S)[x] = c(S \cup T)[x] /\ c(S)[x] \in Int
      /\ \A x \in T : c(T)[x] = c(S \cup T)[x] /\ c(T)[x] \in Int
      /\ \A x \in S : g(S)[x] = g(S \cup T)[x] /\ g(S)[x] \in Int
      /\ \A x \in T : g(T)[x] = g(S \cup T)[x] /\ g(T)[x] \in Int
  BY <1>1
<1>3. \A R : DOMAIN c(R) = R /\ DOMAIN g(R) = R
  OBVIOUS
<1>4. \A R : CostOf(R) = SumFunction(c(R)) /\ GainOf(R) = SumFunction(g(R))
  BY Zenon DEF CostOf, GainOf
<1>5. Joins(c(S \cup T), c(S), c(T)) /\ Joins(g(S \cup T), g(S), g(T))
  <2> HIDE DEF c, g
  <2> QED BY <1>2, <1>3 DEF Joins
<1> HIDE DEF c, g
<1> QED BY <1>4, <1>5, SumJoins, Zenon

LEMMA SumOfOneMore ==
  ASSUME NEW f, NEW h, NEW e, IsFiniteSet(DOMAIN f), e \notin DOMAIN f, DOMAIN h = DOMAIN f \cup {e},
         \A x \in DOMAIN f : f[x] = h[x] /\ f[x] \in Int, h[e] \in Int
  PROVE  SumFunction(h) = SumFunction(f) + h[e] /\ SumFunction(f) \in Int
<1> DEFINE S == DOMAIN f
<1>0. /\ IsFiniteSet(S) /\ e \notin S /\ DOMAIN h = S \cup {e}
      /\ \A x \in S : f[x] = h[x] /\ f[x] \in Int
  OBVIOUS
<1>1. SumFunction(f) = SumFunctionOnSet(f, S) /\ SumFunction(h) = SumFunctionOnSet(h, S \cup {e})
  BY <1>0, Zenon DEF SumFunction
<1> HIDE DEF S
<1>2. SumFunctionOnSet(f, S) = SumFunctionOnSet(h, S)
  BY <1>0, SumAgrees
<1>3. SumFunctionOnSet(h, S \cup {e}) = SumFunctionOnSet(h, S) + h[e]
  <2>1. \A x \in S \cup {e} : h[x] \in Int
    BY <1>0
  <2> QED BY <1>0, <2>1, SumWithOne
<1>4. SumFunctionOnSet(f, S) \in Int
  BY <1>0, SumIsInt
<1> QED BY <1>1, <1>2, <1>3, <1>4, Zenon

LEMMA TypeSplits ==
  ASSUME NEW ops, IsFiniteSet(ops), NEW e, e \notin ops, NEW type
  PROVE  /\ IsFiniteSet(OfType(ops, type)) /\ e \notin OfType(ops, type) /\ OfType(ops, type) \in SUBSET ops
         /\ e.type = type => OfType(ops \cup {e}, type) = OfType(ops, type) \cup {e}
         /\ e.type # type => OfType(ops \cup {e}, type) = OfType(ops, type)
<1>1. OfType(ops, type) \in SUBSET ops
  BY DEF OfType
<1>2. IsFiniteSet(OfType(ops, type))
  BY <1>1, FS_Subset
<1> QED BY <1>1, <1>2 DEF OfType

LEMMA PaidGrows ==
  ASSUME NEW ops, IsFiniteSet(ops), \A o \in ops : IsOperation(o), NEW e, IsOperation(e), e \notin ops
  PROVE  /\ Paid(ops) \in Int
         /\ Paid(ops \cup {e}) = Paid(ops) + (IF e.type = "BUY" THEN e.amount + e.charges ELSE 0)
<1> DEFINE f(S) == [o \in S |-> o.amount + o.charges]
           S == OfType(ops, "BUY")
           T == OfType(ops \cup {e}, "BUY")
<1>1. /\ IsFiniteSet(S) /\ e \notin S /\ S \in SUBSET ops
      /\ e.type = "BUY" => T = S \cup {e}
      /\ e.type # "BUY" => T = S
  BY TypeSplits
<1>2. Paid(ops) = SumFunction(f(S)) /\ Paid(ops \cup {e}) = SumFunction(f(T))
  BY Zenon DEF Paid
<1> HIDE DEF S, T
<1>3. \A o \in S \cup {e} : o.amount + o.charges \in Int
  <2>1. \A o \in S \cup {e} : IsOperation(o)
    BY <1>1
  <2>2. \A o \in S \cup {e} : o.amount \in Int /\ o.charges \in Int
    BY <2>1, OperationFields
  <2> QED BY <2>2
<1> DEFINE a == f(S)
           b == f(S \cup {e})
<1>4. /\ DOMAIN a = S /\ DOMAIN b = S \cup {e} /\ b[e] = e.amount + e.charges /\ b[e] \in Int
      /\ \A o \in S : a[o] = b[o] /\ a[o] \in Int
  BY <1>3
<1> HIDE DEF a, b
<1>5. SumFunction(b) = SumFunction(a) + b[e] /\ SumFunction(a) \in Int
  BY <1>1, <1>4, SumOfOneMore
<1>6. CASE e.type = "BUY"
  BY <1>1, <1>2, <1>4, <1>5, <1>6 DEF a, b
<1>7. CASE e.type # "BUY"
  <2>1. Paid(ops \cup {e}) = Paid(ops) /\ Paid(ops) \in Int
    BY <1>1, <1>2, <1>5, <1>7, Zenon DEF a
  <2> QED BY <1>7, <2>1
<1> QED BY <1>6, <1>7

LEMMA BroughtGrows ==
  ASSUME NEW ops, IsFiniteSet(ops), \A o \in ops : IsOperation(o), NEW e, IsOperation(e), e \notin ops
  PROVE  /\ Brought(ops) \in Int
         /\ Brought(ops \cup {e})
              = Brought(ops) + (IF e.type = "TRANSFER_IN" THEN e.quantity * UnitCost(e) ELSE 0)
<1> DEFINE f(S) == [o \in S |-> o.quantity * UnitCost(o)]
           S == OfType(ops, "TRANSFER_IN")
           T == OfType(ops \cup {e}, "TRANSFER_IN")
<1>1. /\ IsFiniteSet(S) /\ e \notin S /\ S \in SUBSET ops
      /\ e.type = "TRANSFER_IN" => T = S \cup {e}
      /\ e.type # "TRANSFER_IN" => T = S
      /\ \A o \in S : o.type = "TRANSFER_IN"
  <2>1. \A o \in S : o.type = "TRANSFER_IN"
    BY DEF OfType
  <2> HIDE DEF S, T
  <2>2. /\ IsFiniteSet(S) /\ e \notin S /\ S \in SUBSET ops
        /\ e.type = "TRANSFER_IN" => T = S \cup {e}
        /\ e.type # "TRANSFER_IN" => T = S
    BY TypeSplits DEF S, T
  <2> QED BY <2>1, <2>2
<1>2. Brought(ops) = SumFunction(f(S)) /\ Brought(ops \cup {e}) = SumFunction(f(T))
  BY Zenon DEF Brought
<1> HIDE DEF S, T
<1>3. ASSUME NEW o, IsOperation(o), o.type = "TRANSFER_IN" PROVE o.quantity * UnitCost(o) \in Int
  <2>1. o.quantity \in Int /\ o.instrument \in Instruments /\ o.price \in Int
    BY <1>3, OperationFields
  <2>2. UnitCost(o) \in Int
    BY <2>1, BookAssumption DEF UnitCost
  <2> QED BY <2>1, <2>2
<1> DEFINE a == f(S)
           b == f(S \cup {e})
<1>4. /\ DOMAIN a = S /\ DOMAIN b = S \cup {e} /\ b[e] = e.quantity * UnitCost(e)
      /\ \A o \in S : a[o] = b[o] /\ a[o] \in Int
  <2>1. \A o \in S : a[o] = o.quantity * UnitCost(o) /\ b[o] = o.quantity * UnitCost(o)
    OBVIOUS
  <2>2. \A o \in S : a[o] \in Int
    BY <1>1, <1>3, <2>1
  <2> QED BY <2>1, <2>2
<1> HIDE DEF a, b
<1>5. ASSUME e.type = "TRANSFER_IN"
      PROVE  Brought(ops \cup {e}) = Brought(ops) + e.quantity * UnitCost(e)
  <2>1. SumFunction(b) = SumFunction(a) + b[e]
    BY <1>1, <1>3, <1>4, <1>5, SumOfOneMore
  <2> QED BY <1>1, <1>2, <1>4, <1>5, <2>1 DEF a, b
<1>6. SumFunction(a) \in Int
  <2>1. SumFunction(a) = SumFunctionOnSet(a, S)
    BY <1>4, Zenon DEF SumFunction
  <2> QED BY <1>1, <1>4, <2>1, SumIsInt
<1>7. Brought(ops) \in Int
  BY <1>2, <1>6 DEF a
<1>8. CASE e.type # "TRANSFER_IN"
  <2>1. Brought(ops \cup {e}) = Brought(ops)
    BY <1>1, <1>2, <1>8, Zenon
  <2> QED BY <1>7, <1>8, <2>1
<1> QED BY <1>5, <1>7, <1>8

LEMMA EarnedGrows ==
  ASSUME NEW ops, IsFiniteSet(ops), \A o \in ops : IsOperation(o), NEW e, IsOperation(e), e \notin ops
  PROVE  /\ Earned(ops) \in Int
         /\ Earned(ops \cup {e}) = Earned(ops) + (IF e.type = "SELL" THEN e.amount - e.charges ELSE 0)
<1> DEFINE f(S) == [o \in S |-> o.amount - o.charges]
           S == OfType(ops, "SELL")
           T == OfType(ops \cup {e}, "SELL")
<1>1. /\ IsFiniteSet(S) /\ e \notin S /\ S \in SUBSET ops
      /\ e.type = "SELL" => T = S \cup {e}
      /\ e.type # "SELL" => T = S
  BY TypeSplits
<1>2. Earned(ops) = SumFunction(f(S)) /\ Earned(ops \cup {e}) = SumFunction(f(T))
  BY Zenon DEF Earned
<1> HIDE DEF S, T
<1>3. \A o \in S \cup {e} : o.amount - o.charges \in Int
  <2>1. \A o \in S \cup {e} : IsOperation(o)
    BY <1>1
  <2>2. \A o \in S \cup {e} : o.amount \in Int /\ o.charges \in Int
    BY <2>1, OperationFields
  <2> QED BY <2>2
<1> DEFINE a == f(S)
           b == f(S \cup {e})
<1>4. /\ DOMAIN a = S /\ DOMAIN b = S \cup {e} /\ b[e] = e.amount - e.charges /\ b[e] \in Int
      /\ \A o \in S : a[o] = b[o] /\ a[o] \in Int
  BY <1>3
<1> HIDE DEF a, b
<1>5. SumFunction(b) = SumFunction(a) + b[e] /\ SumFunction(a) \in Int
  BY <1>1, <1>4, SumOfOneMore
<1>6. CASE e.type = "SELL"
  BY <1>1, <1>2, <1>4, <1>5, <1>6 DEF a, b
<1>7. CASE e.type # "SELL"
  <2>1. Earned(ops \cup {e}) = Earned(ops) /\ Earned(ops) \in Int
    BY <1>1, <1>2, <1>5, <1>7, Zenon DEF a
  <2> QED BY <1>7, <2>1
<1> QED BY <1>6, <1>7

LEMMA SumsOfNone == Paid({}) = 0 /\ Brought({}) = 0 /\ Earned({}) = 0
<1>1. \A type : OfType({}, type) = {}
  BY DEF OfType
<1> DEFINE p == [o \in {} |-> o.amount + o.charges]
           b == [o \in {} |-> o.quantity * UnitCost(o)]
           s == [o \in {} |-> o.amount - o.charges]
<1>2. /\ Paid({}) = SumFunctionOnSet(p, {}) /\ Brought({}) = SumFunctionOnSet(b, {})
      /\ Earned({}) = SumFunctionOnSet(s, {})
  BY <1>1, Zenon DEF Paid, Brought, Earned, SumFunction
<1> HIDE DEF p, b, s
<1> QED BY <1>2, SumOfNone

-----------------------------------------------------------------------------
(* Nothing is created and nothing destroyed, operation by operation.         *)

Kept(l, ops) ==
  /\ l \in Ledgers
  /\ l.ok => /\ IsFiniteSet(l.done) /\ \A r \in l.done : \E o \in ops : o.id = r.by
             /\ CostKept(l, ops)

LEMMA KeptNext ==
  ASSUME NEW ops, IsFiniteSet(ops), \A o \in ops : IsOperation(o), NEW e, IsOperation(e), e \notin ops,
         IdsDiffer(ops \cup {e}), NEW l, Kept(l, ops), DividesOn(l, e)
  PROVE  Kept(Apply(l, e), ops \cup {e})
<1> DEFINE m == Apply(l, e)
           all == ops \cup {e}
<1>1. l \in Ledgers
  BY DEF Kept
<1>2. m \in Ledgers /\ (~l.ok => m = l)
      /\ (m.ok => \E cost, rows : Moves(l, m, e, cost, rows) /\ Balances(e, cost, rows))
  BY <1>1, ApplyMoves
<1> HIDE DEF m
<1> SUFFICES ASSUME m.ok
             PROVE  /\ IsFiniteSet(m.done) /\ \A r \in m.done : \E o \in all : o.id = r.by
                    /\ CostKept(m, all)
  BY <1>2 DEF Kept, m
<1>3. PICK cost, rows : Moves(l, m, e, cost, rows) /\ Balances(e, cost, rows)
  BY <1>2
<1>4. l.ok
  BY <1>2
<1>5. /\ IsFiniteSet(l.done) /\ l.done \in SUBSET DoneRow /\ \A r \in l.done : \E o \in ops : o.id = r.by
      /\ CostKept(l, ops)
  BY <1>1, <1>4, LedgerFields DEF Kept
<1>6. /\ rows \in SUBSET DoneRow /\ IsFiniteSet(rows) /\ m.done = l.done \cup rows
      /\ \A r \in rows : r.by = e.id /\ r.sale = (e.type = "SELL")
      /\ cost \in Int /\ Held(m.lots) = Held(l.lots) + cost
  BY <1>3 DEF Moves
<1>7. \A o \in ops : o.id # e.id
  BY DEF IdsDiffer
<1>8. IsFiniteSet(m.done) /\ \A r \in m.done : \E o \in all : o.id = r.by
  <2>1. IsFiniteSet(m.done)
    BY <1>5, <1>6, FS_Union
  <2> QED BY <1>5, <1>6, <2>1
<1> DEFINE sold == Sales(l)
           kept == Sales(l) \cup LeftFor(l, ops)
           sale == e.type = "SELL"
           out == e.type = "SELL" \/ e.to = NoAccount
<1>9. Sales(m) = IF sale THEN sold \cup rows ELSE sold
  BY <1>6 DEF Sales
<1>10. \A r \in l.done : (\E o \in all : o.id = r.by /\ o.to = NoAccount) <=> (\E o \in ops : o.id = r.by /\ o.to = NoAccount)
  BY <1>5, <1>7
<1>11. \A r \in rows : (\E o \in all : o.id = r.by /\ o.to = NoAccount) <=> e.to = NoAccount
  BY <1>6, <1>7
<1>12. LeftFor(m, all) = IF e.to = NoAccount THEN LeftFor(l, ops) \cup rows ELSE LeftFor(l, ops)
  <2>1. LeftFor(m, all) = {r \in l.done \cup rows : \E o \in all : o.id = r.by /\ o.to = NoAccount}
    BY <1>6 DEF LeftFor
  <2>2. LeftFor(l, ops) = {r \in l.done : \E o \in ops : o.id = r.by /\ o.to = NoAccount}
    BY DEF LeftFor
  <2> HIDE DEF all
  <2> QED BY <1>10, <1>11, <2>1, <2>2
<1>13. Sales(m) \cup LeftFor(m, all) = IF out THEN kept \cup rows ELSE kept
  BY <1>9, <1>12
<1>14. rows \cap l.done = {}
  BY <1>5, <1>6, <1>7
<1>15. /\ sold \in SUBSET DoneRow /\ kept \in SUBSET DoneRow /\ IsFiniteSet(sold) /\ IsFiniteSet(kept)
       /\ sold \cap rows = {} /\ kept \cap rows = {}
  <2>1. sold \in SUBSET l.done /\ kept \in SUBSET l.done
    BY DEF Sales, LeftFor
  <2>2. IsFiniteSet(sold) /\ IsFiniteSet(kept)
    BY <1>5, <2>1, FS_Subset
  <2> QED BY <1>5, <1>14, <2>1, <2>2
<1>16. /\ CostOf(sold \cup rows) = CostOf(sold) + CostOf(rows)
       /\ GainOf(sold \cup rows) = GainOf(sold) + GainOf(rows)
       /\ CostOf(sold) \in Int /\ CostOf(rows) \in Int /\ GainOf(sold) \in Int /\ GainOf(rows) \in Int
  <2> HIDE DEF sold
  <2> QED BY <1>6, <1>15, RowsJoin
<1>17. CostOf(kept \cup rows) = CostOf(kept) + CostOf(rows) /\ CostOf(kept) \in Int
  <2> HIDE DEF kept
  <2> QED BY <1>6, <1>15, RowsJoin
<1>18. /\ Paid(ops) + Brought(ops) = Held(l.lots) + CostOf(kept)
       /\ Earned(ops) = CostOf(sold) + GainOf(sold)
  BY <1>5 DEF CostKept
<1>19. /\ Brings(e) = cost + (IF out THEN CostOf(rows) ELSE 0)
       /\ sale => e.amount - e.charges = CostOf(rows) + GainOf(rows)
  BY <1>3 DEF Balances
<1>20. Held(l.lots) \in Int
  BY <1>1, LedgerFields
<1>21. Paid(all) + Brought(all) = Held(m.lots) + CostOf(Sales(m) \cup LeftFor(m, all))
  <2>1. /\ Paid(all) = Paid(ops) + (IF e.type = "BUY" THEN e.amount + e.charges ELSE 0)
        /\ Brought(all) = Brought(ops) + (IF e.type = "TRANSFER_IN" THEN e.quantity * UnitCost(e) ELSE 0)
        /\ Paid(ops) \in Int /\ Brought(ops) \in Int
    BY PaidGrows, BroughtGrows
  <2>2. Brings(e) \in Int
    BY <1>6, <1>16, <1>19
  <2>3. Paid(all) + Brought(all) = Paid(ops) + Brought(ops) + Brings(e)
    BY <2>1, <2>2 DEF Brings
  <2>4. CostOf(Sales(m) \cup LeftFor(m, all)) = CostOf(kept) + (IF out THEN CostOf(rows) ELSE 0)
    <3>1. CASE out
      BY <1>13, <1>17, <3>1
    <3>2. CASE ~out
      <4>1. CostOf(Sales(m) \cup LeftFor(m, all)) = CostOf(kept)
        BY <1>13, <3>2, Zenon
      <4> QED BY <1>17, <3>2, <4>1
    <3> QED BY <3>1, <3>2
  <2> DEFINE x == IF out THEN CostOf(rows) ELSE 0
             a == Paid(ops)
             b == Brought(ops)
             c == CostOf(kept)
             d == Held(l.lots)
             f == Brings(e)
  <2>5. /\ x \in Int /\ a \in Int /\ b \in Int /\ c \in Int /\ d \in Int /\ f \in Int /\ cost \in Int
        /\ a + b = d + c /\ f = cost + x
        /\ Paid(all) + Brought(all) = a + b + f
        /\ Held(m.lots) + CostOf(Sales(m) \cup LeftFor(m, all)) = d + cost + (c + x)
    BY <1>6, <1>16, <1>17, <1>18, <1>19, <1>20, <2>1, <2>2, <2>3, <2>4
  <2> HIDE DEF x, a, b, c, d, f
  <2>6. a + b + f = d + cost + (c + x)
    BY <2>5
  <2> QED BY <2>5, <2>6
<1>22. Earned(all) = CostOf(Sales(m)) + GainOf(Sales(m))
  <2>1. Earned(all) = Earned(ops) + (IF e.type = "SELL" THEN e.amount - e.charges ELSE 0) /\ Earned(ops) \in Int
    BY EarnedGrows
  <2>2. CASE sale
    <3>1. Earned(all) = Earned(ops) + (CostOf(rows) + GainOf(rows))
      BY <1>19, <2>1, <2>2
    <3>2. CostOf(Sales(m)) = CostOf(sold) + CostOf(rows) /\ GainOf(Sales(m)) = GainOf(sold) + GainOf(rows)
      BY <1>9, <1>16, <2>2
    <3> DEFINE a == CostOf(sold)
               b == CostOf(rows)
               c == GainOf(sold)
               d == GainOf(rows)
    <3>3. /\ a \in Int /\ b \in Int /\ c \in Int /\ d \in Int /\ Earned(all) = (a + c) + (b + d)
          /\ CostOf(Sales(m)) = a + b /\ GainOf(Sales(m)) = c + d
      BY <1>16, <1>18, <3>1, <3>2
    <3> HIDE DEF a, b, c, d
    <3>4. (a + c) + (b + d) = (a + b) + (c + d)
      BY <3>3
    <3> QED BY <3>3, <3>4
  <2>3. CASE ~sale
    <3>1. Earned(all) = Earned(ops)
      BY <2>1, <2>3
    <3>2. Sales(m) = sold
      BY <1>9, <2>3
    <3> QED BY <1>18, <3>1, <3>2, Zenon
  <2> QED BY <2>2, <2>3
<1> QED BY <1>8, <1>21, <1>22 DEF CostKept

\* The operations of the first places of a listing.
First(events, n) == {events[m] : m \in 1 .. n}

LEMMA FirstNext ==
  ASSUME NEW S, NEW events, Listing(events, S), NEW n \in 1 .. Len(events)
  PROVE  /\ First(events, n) = First(events, n - 1) \cup {events[n]}
         /\ events[n] \notin First(events, n - 1) /\ events[n] \in S
         /\ First(events, n) \in SUBSET S /\ First(events, n - 1) \in SUBSET S
<1>1. /\ events \in Seq(S) /\ Len(events) \in Nat
      /\ \A i, j \in 1 .. Len(events) : events[i] = events[j] => i = j
      /\ \A i \in 1 .. Len(events) : events[i] \in S
  BY DEF Listing
<1>2. \A m : m \in 1 .. n <=> m \in 1 .. n - 1 \/ m = n
  BY <1>1
<1>3. \A m \in 1 .. n : m \in 1 .. Len(events)
  BY <1>1
<1>4. n \notin 1 .. n - 1
  BY <1>1
<1> HIDE DEF Listing
<1> QED BY <1>1, <1>2, <1>3, <1>4 DEF First

LEMMA FirstAll ==
  ASSUME NEW S, NEW events, Listing(events, S)
  PROVE  First(events, Len(events)) = S /\ First(events, 0) = {}
<1>1. /\ events \in Seq(S) /\ Len(events) \in Nat
      /\ \A i \in 1 .. Len(events) : events[i] \in S
      /\ \A x \in S : \E n \in 1 .. Len(events) : events[n] = x
  BY DEF Listing
<1>2. First(events, Len(events)) = S
  BY <1>1 DEF First
<1>3. 1 .. 0 = {}
  OBVIOUS
<1> QED BY <1>2, <1>3 DEF First

LEMMA EmptyHeld == EmptyLedger \in Ledgers /\ Held(EmptyLedger.lots) = 0
<1> DEFINE lots == [h \in Accounts \X Instruments |-> <<>>]
<1>1. EmptyLedger = [ok |-> TRUE, lots |-> lots, done |-> {}, cash |-> <<>>, touched |-> <<>>]
  BY Zenon DEF EmptyLedger
<1>2. lots \in [Holdings -> Seq(LotRow)] /\ \A h \in Holdings : lots[h] = <<>>
  BY DEF Holdings
<1>3. \A K : <<>> \in [{} -> Int]
  OBVIOUS
<1>4. /\ <<>> \in UNION {[K -> Int] : K \in SUBSET (Accounts \X STRING)}
      /\ <<>> \in UNION {[K -> Int] : K \in SUBSET Holdings}
  BY <1>3
<1> HIDE DEF lots
<1>5. EmptyLedger \in Ledgers /\ EmptyLedger.lots = lots
  BY <1>1, <1>2, <1>4 DEF Ledgers
<1>6. Basis(<<>>) = 0
  <2> DEFINE c == [n \in DOMAIN <<>> |-> <<>>[n].open * <<>>[n].cost]
  <2>1. Basis(<<>>) = SumFunctionOnSet(c, DOMAIN c)
    BY Zenon DEF Basis, SumFunction
  <2>2. DOMAIN c = {}
    OBVIOUS
  <2> HIDE DEF c
  <2> QED BY <2>1, <2>2, SumOfNone, Zenon
<1>7. \A h \in Holdings : Bases(lots)[h] = 0
  BY <1>2, <1>6, HeldIs
<1>8. Held(lots) = SumFunctionOnSet(Bases(lots), Holdings) /\ IsFiniteSet(Holdings)
  BY <1>2, HeldIs
<1>9. SumFunctionOnSet(Bases(lots), Holdings) = 0
  <2> HIDE DEF Holdings
  <2> QED BY <1>7, <1>8, SumOfZeroes
<1> QED BY <1>5, <1>8, <1>9

LEMMA EmptyKept == Kept(EmptyLedger, {})
<1>1. EmptyLedger.done = {}
  BY DEF EmptyLedger
<1>2. Sales(EmptyLedger) = {} /\ Sales(EmptyLedger) \cup LeftFor(EmptyLedger, {}) = {}
  BY <1>1 DEF Sales, LeftFor
<1>3. CostKept(EmptyLedger, {})
  BY <1>2, EmptyHeld, SumsOfNone, CostOfNone DEF CostKept
<1>4. IsFiniteSet({})
  BY FS_EmptySet
<1> QED BY <1>1, <1>3, <1>4, EmptyHeld DEF Kept

\* The replay of any finite book is a ledger.
LEMMA ReplayIsLedger ==
  ASSUME NEW ops, IsFiniteSet(ops), \A o \in ops : IsOperation(o)
  PROVE  Replay(ops) \in Ledgers
<1> DEFINE s == SortEvents(ops)
           N == Len(s)
           Bad == {n \in 0 .. N : After(s, n) \notin Ledgers}
<1>1. Listing(s, ops)
  BY SortLists
<1>2. s \in Seq(ops) /\ N \in Nat /\ \A n \in 1 .. N : s[n] \in ops
  BY <1>1 DEF Listing
<1>3. Replay(ops) = After(s, N)
  BY <1>2, AfterAll DEF Replay
<1> HIDE DEF s
<1>4. Bad = {}
  <2> SUFFICES ASSUME Bad # {} PROVE FALSE
    OBVIOUS
  <2>1. PICK n \in Bad : \A k \in Bad : n <= k
    <3>1. Bad \in SUBSET Nat
      BY <1>2
    <3> HIDE DEF Bad
    <3> QED BY <3>1, Sums!LeastNat
  <2>2. n \in 0 .. N /\ After(s, n) \notin Ledgers
    OBVIOUS
  <2>3. n # 0
    BY <1>2, <2>2, AfterNone, EmptyHeld
  <2>4. n \in 1 .. N /\ n - 1 \in 0 .. N /\ ~(n <= n - 1)
    BY <1>2, <2>2, <2>3
  <2>5. After(s, n - 1) \in Ledgers
    BY <2>1, <2>4
  <2>6. After(s, n) = Apply(After(s, n - 1), s[n])
    BY <1>2, <2>4, AfterNext
  <2>7. IsOperation(s[n])
    BY <1>2, <2>4
  <2> QED BY <2>2, <2>5, <2>6, <2>7, ApplyMoves
<1> QED BY <1>2, <1>3, <1>4

\* And it keeps the cost, when every division along it leaves no remainder.
LEMMA ReplayKeeps ==
  ASSUME NEW ops, IsFiniteSet(ops), \A o \in ops : IsOperation(o), IdsDiffer(ops),
         \A n \in DOMAIN SortEvents(ops) :
           DividesOn(FoldLeft(Apply, EmptyLedger, SubSeq(SortEvents(ops), 1, n - 1)), SortEvents(ops)[n])
  PROVE  Kept(Replay(ops), ops)
<1> DEFINE s == SortEvents(ops)
           N == Len(s)
           Holds(n) == Kept(After(s, n), First(s, n))
           Bad == {n \in 0 .. N : ~Holds(n)}
<1>1. Listing(s, ops)
  BY SortLists
<1>2. s \in Seq(ops) /\ N \in Nat /\ DOMAIN s = 1 .. N /\ \A n \in 1 .. N : s[n] \in ops
  BY <1>1 DEF Listing
<1>3. Replay(ops) = After(s, N)
  BY <1>2, AfterAll DEF Replay
<1>0. \A n \in 1 .. N : DividesOn(After(s, n - 1), s[n])
  BY <1>2 DEF After
<1> HIDE DEF s
<1>4. Bad = {}
  <2> SUFFICES ASSUME Bad # {} PROVE FALSE
    OBVIOUS
  <2>1. PICK n \in Bad : \A k \in Bad : n <= k
    <3>1. Bad \in SUBSET Nat
      BY <1>2
    <3> HIDE DEF Bad
    <3> QED BY <3>1, Sums!LeastNat
  <2>2. n \in 0 .. N /\ ~Holds(n)
    OBVIOUS
  <2>3. n # 0
    <3>1. After(s, 0) = EmptyLedger /\ First(s, 0) = {}
      BY <1>1, <1>2, AfterNone, FirstAll
    <3>2. Holds(0)
      BY <3>1, EmptyKept
    <3> HIDE DEF Holds
    <3> QED BY <2>2, <3>2
  <2>4. n \in 1 .. N /\ n - 1 \in 0 .. N /\ ~(n <= n - 1)
    BY <1>2, <2>2, <2>3
  <2>5. Holds(n - 1)
    BY <2>1, <2>4
  <2>6. After(s, n) = Apply(After(s, n - 1), s[n])
    BY <1>2, <2>4, AfterNext
  <2>7. /\ First(s, n) = First(s, n - 1) \cup {s[n]} /\ s[n] \notin First(s, n - 1)
        /\ First(s, n - 1) \in SUBSET ops /\ First(s, n) \in SUBSET ops
    BY <1>1, <2>4, FirstNext
  <2>8. /\ IsOperation(s[n]) /\ DividesOn(After(s, n - 1), s[n])
        /\ \A o \in First(s, n - 1) : IsOperation(o)
        /\ IsFiniteSet(First(s, n - 1))
    <3>1. s[n] \in ops /\ DividesOn(After(s, n - 1), s[n])
      BY <1>0, <1>2, <2>4
    <3>2. IsFiniteSet(First(s, n - 1))
      BY <2>7, FS_Subset
    <3> QED BY <2>7, <3>1, <3>2
  <2>9. IdsDiffer(First(s, n - 1) \cup {s[n]})
    BY <2>7 DEF IdsDiffer
  <2> DEFINE F == First(s, n - 1)
             l == After(s, n - 1)
  <2>10. Kept(l, F) /\ s[n] \notin F
    BY <2>5, <2>7
  <2> HIDE DEF F, l
  <2>11. Kept(Apply(l, s[n]), F \cup {s[n]})
    BY <2>8, <2>9, <2>10, KeptNext DEF F, l
  <2> QED BY <2>2, <2>6, <2>7, <2>11 DEF F, l
<1>5. Holds(N)
  BY <1>2, <1>4
<1> QED BY <1>1, <1>3, <1>5, FirstAll

-----------------------------------------------------------------------------
(* The inductive invariant of the book.                                      *)

TxFields ==
  {"stage", "change", "accounts", "scope", "write", "gone", "fresh", "derived", "next", "waiting", "aim",
   "deleted", "inserted", "alone"}

\* Rows that may be stored: of known accounts, no lot oversold.
RowsOK(derived) ==
  /\ \A T \in TableNames : \A r \in derived[T] : r.account \in Accounts
  /\ \A r \in derived["lots"] : r.lot.open \in 0 .. r.lot.original

\* What a request asks for.
ChangeOK(c) ==
  /\ c.kind \in {"create", "update"} => IsOperation(c.row) /\ c.row.id = c.id
  /\ c.kind = "price" => c.row \in Int

\* A request under way: what it removes is in the book, what it adds is one row
\* of the same id, and takes the place of all the rows the book has of that id.
WriteOK(b, t) ==
  /\ DOMAIN t = TxFields /\ t.stage \in StageNames
  /\ ChangeOK(t.change) /\ RowsOK(t.derived)
  /\ IsFiniteSet(t.fresh) /\ \A o \in t.fresh : IsOperation(o) /\ o.id = t.change.id
  /\ \A o, p \in t.fresh : o = p
  /\ \A o \in t.gone : o \in b /\ o.id = t.change.id
  /\ t.change.kind = "create" => \A o \in b : o.id # t.change.id
  /\ t.fresh # {} /\ t.change.kind # "create" =>
       t.gone # {} /\ \A o \in b : o.id = t.change.id => o \in t.gone
  /\ t.stage = "write" => t.gone = {} /\ t.fresh = {}

\* Two of them touch rows of different ids, and create operations of different ids.
Untangled(t, u) ==
  /\ \A o \in t.gone \cup t.fresh : \A p \in u.gone \cup u.fresh : o.id # p.id
  /\ t.change.kind = "create" /\ u.change.kind = "create" => t.change.id # u.change.id

BookOK(b) == IsFiniteSet(b) /\ IdsDiffer(b) /\ \A o \in b : IsOperation(o)

StoredOK(stored) ==
  /\ \A T \in TableNames : \A r \in stored[T] : r.row.account \in Accounts
  /\ \A r \in stored["lots"] : r.row.lot.open \in 0 .. r.row.lot.original

Busy(t) == t.stage # "idle"

BookInv ==
  /\ BookOK(book) /\ StoredOK(tables)
  /\ DOMAIN tx = Writers
  /\ \A w \in Writers : Busy(tx[w]) => WriteOK(book, tx[w])
  /\ \A v, w \in Writers : v # w /\ Busy(tx[v]) /\ Busy(tx[w]) => Untangled(tx[v], tx[w])
  /\ requests \in 0 .. MaxRequests

LEMMA DerivedOK ==
  ASSUME NEW l \in Ledgers
  PROVE  RowsOK(Derived(l))
<1> DEFINE d == Derived(l)
<1>1. /\ d["realizations"] = l.done /\ d["lots"] = LotRows(l) /\ d["positions"] = PositionRows(l)
      /\ d["cash"] = CashRows(l)
  BY DEF Derived
<1> HIDE DEF d
<1>2. \A r \in l.done : r.account \in Accounts
  BY DEF Ledgers, DoneRow
<1>3. \A r \in LotRows(l) : r.account \in Accounts /\ r.lot.open \in 0 .. r.lot.original
  <2> SUFFICES ASSUME NEW r \in LotRows(l) PROVE r.account \in Accounts /\ r.lot.open \in 0 .. r.lot.original
    OBVIOUS
  <2>1. l.lots \in [Holdings -> Seq(LotRow)]
    BY LedgerFields
  <2>2. PICK h \in DOMAIN l.lots : \E n \in DOMAIN l.lots[h] :
               r = [account |-> h[1], instrument |-> h[2], n |-> n, lot |-> l.lots[h][n]]
    BY DEF LotRows
  <2>3. PICK n \in DOMAIN l.lots[h] :
               r = [account |-> h[1], instrument |-> h[2], n |-> n, lot |-> l.lots[h][n]]
    BY <2>2
  <2>4. h \in Holdings
    BY <2>1
  <2>5. h[1] \in Accounts
    BY <2>4 DEF Holdings
  <2>6. l.lots[h][n] \in LotRow
    <3>1. l.lots[h] \in Seq(LotRow)
      BY <2>1, <2>4
    <3> QED BY <2>3, <3>1
  <2> DEFINE lot == l.lots[h][n]
  <2>7. lot.open \in Nat /\ lot.original \in Nat /\ lot.open <= lot.original
    BY <2>6, LotFields
  <2>8. r.account = h[1] /\ r.lot = lot
    BY <2>3
  <2> QED BY <2>5, <2>7, <2>8
<1>4. \A r \in PositionRows(l) : r.account \in Accounts
  <2> SUFFICES ASSUME NEW r \in PositionRows(l) PROVE r.account \in Accounts
    OBVIOUS
  <2>1. DOMAIN l.touched \in SUBSET Holdings
    BY DEF Ledgers
  <2>2. PICK h \in DOMAIN l.touched : r.account = h[1]
    BY DEF PositionRows
  <2> QED BY <2>1, <2>2 DEF Holdings
<1>5. \A r \in CashRows(l) : r.account \in Accounts
  <2> SUFFICES ASSUME NEW r \in CashRows(l) PROVE r.account \in Accounts
    OBVIOUS
  <2>1. DOMAIN l.cash \in SUBSET (Accounts \X STRING)
    BY DEF Ledgers
  <2>2. PICK k \in DOMAIN l.cash : r.account = k[1]
    BY DEF CashRows
  <2> QED BY <2>1, <2>2
<1>6. RowsOK(d)
  BY <1>1, <1>2, <1>3, <1>4, <1>5 DEF RowsOK, TableNames
<1> QED BY <1>6 DEF d

LEMMA StoringKeeps ==
  ASSUME NEW write, NEW derived, RowsOK(derived)
  PROVE  StoredOK(Stored(write, derived))
<1> DEFINE s == Stored(write, derived)
<1>1. \A T \in TableNames : s[T] = {[write |-> write, row |-> r] : r \in derived[T]}
  BY DEF Stored
<1> HIDE DEF s
<1>2. \A T \in TableNames : \A x \in s[T] : x.row \in derived[T]
  BY <1>1
<1>3. "lots" \in TableNames
  BY DEF TableNames
<1>4. StoredOK(s)
  BY <1>2, <1>3 DEF StoredOK, RowsOK
<1> QED BY <1>4 DEF s

LEMMA StoredInit ==
  ASSUME BookOK(book), tables = Stored(0, Derived(Replay(book))), tx = [w \in Writers |-> Idle], requests = 0
  PROVE  BookInv
<1>1. StoredOK(tables)
  BY ReplayIsLedger, DerivedOK, StoringKeeps DEF BookOK
<1>2. \A w \in Writers : ~Busy(tx[w])
  BY DEF Busy, Idle
<1>3. requests \in 0 .. MaxRequests
  BY BookAssumption
<1> QED BY <1>1, <1>2, <1>3 DEF BookInv

-----------------------------------------------------------------------------
(* A step of a request changes its own record only, unless it commits.       *)

\* The record of one writer changes and nothing else.
Turns(w, t) ==
  /\ w \in Writers /\ tx' = [tx EXCEPT ![w] = t]
  /\ book' = book /\ tables' = tables

LEMMA TurnKeeps ==
  ASSUME BookInv, NEW w, NEW t, Turns(w, t), requests' \in 0 .. MaxRequests,
         Busy(t) => WriteOK(book, t),
         Busy(t) => \A v \in Writers \ {w} : Busy(tx[v]) => Untangled(tx[v], t)
  PROVE  BookInv'
<1>1. /\ DOMAIN tx = Writers /\ w \in Writers /\ book' = book /\ tables' = tables
      /\ tx' = [tx EXCEPT ![w] = t]
  BY DEF Turns, BookInv
<1>2. DOMAIN tx' = Writers /\ tx'[w] = t /\ \A v \in Writers \ {w} : tx'[v] = tx[v]
  BY <1>1
<1>3. BookOK(book') /\ StoredOK(tables')
  BY <1>1 DEF BookInv
<1>4. \A v \in Writers : Busy(tx'[v]) => WriteOK(book', tx'[v])
  <2>1. \A v \in Writers \ {w} : Busy(tx[v]) => WriteOK(book, tx[v])
    BY DEF BookInv
  <2>2. \A v \in Writers : v = w \/ v \in Writers \ {w}
    OBVIOUS
  <2> QED BY <1>1, <1>2, <2>1, <2>2
<1>5. ASSUME NEW u \in Writers, NEW v \in Writers, u # v, Busy(tx'[u]), Busy(tx'[v])
      PROVE  Untangled(tx'[u], tx'[v])
  <2>1. \A x \in Writers \ {w} : Busy(t) /\ Busy(tx[x]) => Untangled(tx[x], t) /\ Untangled(t, tx[x])
    BY DEF Untangled
  <2>2. \A x, y \in Writers \ {w} : x # y /\ Busy(tx[x]) /\ Busy(tx[y]) => Untangled(tx[x], tx[y])
    BY DEF BookInv
  <2>3. CASE u = w
    <3>1. v \in Writers \ {w}
      BY <1>5, <2>3
    <3> QED BY <1>2, <1>5, <2>1, <2>3, <3>1
  <2>4. CASE v = w
    <3>1. u \in Writers \ {w}
      BY <1>5, <2>4
    <3> QED BY <1>2, <1>5, <2>1, <2>4, <3>1
  <2>5. CASE u # w /\ v # w
    BY <1>2, <1>5, <2>2, <2>5
  <2> QED BY <2>3, <2>4, <2>5
<1> QED BY <1>2, <1>3, <1>4, <1>5 DEF BookInv

\* A step that neither begins a request nor writes: the write stays as it was.
LEMMA AdvanceKeeps ==
  ASSUME BookInv, NEW w, NEW t, Turns(w, t), requests' = requests, Busy(tx[w]),
         DOMAIN t = TxFields, t.stage \in StageNames \ {"write"}, RowsOK(t.derived),
         t.change = tx[w].change, t.gone = tx[w].gone, t.fresh = tx[w].fresh
  PROVE  BookInv'
<1>0. w \in Writers
  BY DEF Turns
<1>1. WriteOK(book, tx[w])
  BY <1>0 DEF BookInv
<1>2. WriteOK(book, t)
  BY <1>1 DEF WriteOK
<1>3. \A v \in Writers \ {w} : Busy(tx[v]) => Untangled(tx[v], t)
  <2>1. \A v \in Writers \ {w} : Busy(tx[v]) => Untangled(tx[v], tx[w])
    BY <1>0 DEF BookInv
  <2> QED BY <2>1 DEF Untangled
<1>4. requests' \in 0 .. MaxRequests
  BY DEF BookInv
<1> QED BY <1>2, <1>3, <1>4, TurnKeeps

LEMMA RollbackKeeps ==
  ASSUME BookInv, NEW w \in Writers, Rollback(w), book' = book, tables' = tables, requests' = requests
  PROVE  BookInv'
<1>1. Turns(w, Idle)
  BY DEF Turns, Rollback
<1>2. ~Busy(Idle)
  BY DEF Busy, Idle
<1>3. requests' \in 0 .. MaxRequests
  BY DEF BookInv
<1> QED BY <1>1, <1>2, <1>3, TurnKeeps

\* A request begins.
LEMMA BeginKeeps ==
  ASSUME BookInv, NEW w \in Writers, NEW stage \in {"write", "scope"}, NEW change, NEW accounts,
         Begin(w, stage, change, accounts), ChangeOK(change),
         change.kind = "create" => \A o \in book : o.id # change.id,
         change.kind = "create" =>
           \A v \in Writers : Busy(tx[v]) /\ tx[v].change.kind = "create" => tx[v].change.id # change.id
  PROVE  BookInv'
<1> DEFINE d == Derived(EmptyLedger)
           none == [T \in TableNames |-> {}]
           t == [stage |-> stage, change |-> change, accounts |-> accounts, scope |-> accounts,
                 write |-> requests + 1, gone |-> {}, fresh |-> {}, derived |-> d,
                 next |-> 1, waiting |-> FALSE, aim |-> {}, deleted |-> none, inserted |-> none,
                 alone |-> TRUE]
<1>1. RowsOK(d)
  BY EmptyHeld, DerivedOK
<1>2. /\ tx' = [tx EXCEPT ![w] = t] /\ book' = book /\ tables' = tables
      /\ requests < MaxRequests /\ requests' = requests + 1
  BY Zenon DEF Begin
<1> HIDE DEF d, none
<1>3. /\ DOMAIN t = TxFields /\ t.stage = stage /\ t.change = change /\ t.gone = {} /\ t.fresh = {}
      /\ t.derived = d
  BY DEF TxFields
<1> HIDE DEF t
<1>4. Turns(w, t)
  BY <1>2 DEF Turns
<1>5. requests' \in 0 .. MaxRequests
  BY <1>2, BookAssumption DEF BookInv
<1>6. WriteOK(book, t)
  <2>1. IsFiniteSet({})
    BY FS_EmptySet
  <2> QED BY <1>1, <1>3, <2>1 DEF WriteOK, StageNames
<1>7. \A v \in Writers \ {w} : Busy(tx[v]) => Untangled(tx[v], t)
  BY <1>3 DEF Untangled
<1> QED BY <1>4, <1>5, <1>6, <1>7, TurnKeeps

LEMMA CreateKeeps ==
  ASSUME BookInv, NEW w \in Writers, Create(w)
  PROVE  BookInv'
<1>1. PICK o \in Operations :
        /\ \A p \in book : p.id # o.id
        /\ \A v \in Active : tx[v].change.id # o.id
        /\ Begin(w, "write", [kind |-> "create", id |-> o.id, row |-> o], {o.account})
  BY Zenon DEF Create
<1> DEFINE c == [kind |-> "create", id |-> o.id, row |-> o]
<1>2. c.kind = "create" /\ c.id = o.id /\ c.row = o
  OBVIOUS
<1>3. Begin(w, "write", c, {o.account})
  BY <1>1
<1> HIDE DEF c
<1>4. ChangeOK(c)
  BY <1>2, BookAssumption DEF ChangeOK
<1>5. \A v \in Writers : Busy(tx[v]) => tx[v].change.id # c.id
  BY <1>1, <1>2 DEF Active, Busy
<1> QED BY <1>1, <1>2, <1>3, <1>4, <1>5, BeginKeeps

LEMMA UpdateKeeps ==
  ASSUME BookInv, NEW w \in Writers, Update(w)
  PROVE  BookInv'
<1>1. PICK existing \in book, o \in Operations :
        Begin(w, "write", [kind |-> "update", id |-> o.id, row |-> o], {existing.account, o.account})
  BY Zenon DEF Update
<1> DEFINE c == [kind |-> "update", id |-> o.id, row |-> o]
           a == {existing.account, o.account}
<1>2. c.kind = "update" /\ c.id = o.id /\ c.row = o
  OBVIOUS
<1>3. Begin(w, "write", c, a)
  BY <1>1
<1> HIDE DEF c, a
<1>4. ChangeOK(c)
  BY <1>2, BookAssumption DEF ChangeOK
<1> QED BY <1>2, <1>3, <1>4, BeginKeeps

LEMMA RemoveKeeps ==
  ASSUME BookInv, NEW w \in Writers, RemoveOperation(w)
  PROVE  BookInv'
<1>1. PICK existing \in book :
        Begin(w, "write", [kind |-> "remove", id |-> existing.id, row |-> existing], {existing.account})
  BY Zenon DEF RemoveOperation
<1> DEFINE c == [kind |-> "remove", id |-> existing.id, row |-> existing]
<1>2. c.kind = "remove"
  OBVIOUS
<1>3. Begin(w, "write", c, {existing.account})
  BY <1>1
<1> HIDE DEF c
<1>4. ChangeOK(c)
  BY <1>2 DEF ChangeOK
<1> QED BY <1>2, <1>3, <1>4, BeginKeeps

LEMMA PriceKeeps ==
  ASSUME BookInv, NEW w \in Writers, SetLotCostBasis(w)
  PROVE  BookInv'
<1>1. PICK r \in tables.lots, price \in Prices :
        Begin(w, "write", [kind |-> "price", id |-> r.row.lot.by, row |-> price], {r.row.account})
  BY Zenon DEF SetLotCostBasis
<1> DEFINE c == [kind |-> "price", id |-> r.row.lot.by, row |-> price]
<1>2. c.kind = "price" /\ c.row = price
  OBVIOUS
<1>3. Begin(w, "write", c, {r.row.account})
  BY <1>1
<1> HIDE DEF c
<1>4. ChangeOK(c)
  BY <1>2, BookAssumption DEF ChangeOK
<1> QED BY <1>2, <1>3, <1>4, BeginKeeps

LEMMA RebuildKeeps ==
  ASSUME BookInv, NEW w \in Writers, RebuildAll(w)
  PROVE  BookInv'
<1>1. PICK accounts \in {Accounts} \cup {{a} : a \in Accounts} :
        Begin(w, "scope", [kind |-> "rebuild", id |-> 0, row |-> 0], accounts)
  BY Zenon DEF RebuildAll
<1> DEFINE c == [kind |-> "rebuild", id |-> 0, row |-> 0]
<1>2. c.kind = "rebuild"
  OBVIOUS
<1>3. Begin(w, "scope", c, accounts)
  BY <1>1
<1> HIDE DEF c
<1>4. ChangeOK(c)
  BY <1>2 DEF ChangeOK
<1> QED BY <1>2, <1>3, <1>4, BeginKeeps

\* The write itself.
LEMMA WriteKeeps ==
  ASSUME BookInv, NEW w \in Writers, Write(w)
  PROVE  BookInv'
<1> DEFINE t == [tx[w] EXCEPT !.stage = "scope", !.gone = Gone(w), !.fresh = Fresh(w)]
           c == tx[w].change
<1>1. /\ tx[w].stage = "write" /\ book' = book /\ tables' = tables /\ requests' = requests
      /\ \A v \in Active \ {w} : \A o \in tx[v].gone \cup tx[v].fresh : o.id # c.id
      /\ tx' = [tx EXCEPT ![w].stage = "scope", ![w].gone = Gone(w), ![w].fresh = Fresh(w)]
  BY Zenon DEF Write
<1>2. WriteOK(book, tx[w]) /\ DOMAIN tx = Writers
  BY <1>1 DEF BookInv, Busy
<1>3. tx' = [tx EXCEPT ![w] = t]
  BY <1>1, <1>2
<1>4. /\ DOMAIN t = TxFields /\ t.stage = "scope" /\ t.gone = Gone(w) /\ t.fresh = Fresh(w)
      /\ t.change = c /\ t.derived = tx[w].derived
  BY <1>2 DEF WriteOK, TxFields
<1> HIDE DEF t
<1>5. Gone(w) = IF c.kind = "create" THEN {} ELSE {o \in book : o.id = c.id}
  BY Zenon DEF Gone
<1>6. Fresh(w) = CASE c.kind = "create" -> {c.row}
                   [] c.kind = "update" -> {c.row : o \in Gone(w)}
                   [] c.kind = "price"  -> {[o EXCEPT !.price = c.row] : o \in Gone(w)}
                   [] OTHER -> {}
  BY Zenon DEF Fresh
<1>7. ChangeOK(c) /\ (c.kind = "create" => \A o \in book : o.id # c.id) /\ RowsOK(tx[w].derived)
  BY <1>2 DEF WriteOK
<1>8. BookOK(book)
  BY DEF BookInv
<1> HIDE DEF c
<1>9. \A o \in Gone(w) : o \in book /\ o.id = c.id
  BY <1>5
<1>10. IsFiniteSet(Gone(w)) /\ \A o, p \in Gone(w) : o = p
  <2>1. Gone(w) \in SUBSET book
    BY <1>9
  <2> QED BY <1>8, <1>9, <2>1, FS_Subset DEF BookOK, IdsDiffer
<1>11. ASSUME c.kind = "create" PROVE Fresh(w) = {c.row}
  BY <1>6, <1>11
<1>12. ASSUME c.kind = "update" PROVE Fresh(w) = {c.row : o \in Gone(w)}
  BY <1>6, <1>12
<1>13. ASSUME c.kind = "price" PROVE Fresh(w) = {[o EXCEPT !.price = c.row] : o \in Gone(w)}
  BY <1>6, <1>13
<1>14. ASSUME c.kind \notin {"create", "update", "price"} PROVE Fresh(w) = {}
  BY <1>6, <1>14
<1>15. ASSUME NEW o \in book, c.row \in Int
       PROVE  IsOperation([o EXCEPT !.price = c.row]) /\ [o EXCEPT !.price = c.row].id = o.id
  <2>1. IsOperation(o)
    BY <1>8 DEF BookOK
  <2> QED BY <1>15, <2>1 DEF IsOperation
<1>16. \A o \in Fresh(w) : IsOperation(o) /\ o.id = c.id
  <2>1. CASE c.kind \in {"create", "update"}
    <3>1. \A o \in Fresh(w) : o = c.row
      BY <1>11, <1>12, <2>1
    <3>2. IsOperation(c.row) /\ c.row.id = c.id
      BY <1>7, <2>1 DEF ChangeOK
    <3> QED BY <3>1, <3>2
  <2>2. CASE c.kind = "price"
    <3>1. c.row \in Int
      BY <1>7, <2>2 DEF ChangeOK
    <3> SUFFICES ASSUME NEW o \in Fresh(w) PROVE IsOperation(o) /\ o.id = c.id
      OBVIOUS
    <3>2. PICK p \in Gone(w) : o = [p EXCEPT !.price = c.row]
      BY <1>13, <2>2
    <3> QED BY <1>9, <1>15, <3>1, <3>2
  <2>3. CASE c.kind \notin {"create", "update", "price"}
    BY <1>14, <2>3
  <2> QED BY <2>1, <2>2, <2>3
<1>17. \A o, p \in Fresh(w) : o = p
  <2>1. CASE c.kind \in {"create", "update"}
    BY <1>11, <1>12, <2>1
  <2>2. CASE c.kind = "price"
    BY <1>10, <1>13, <2>2
  <2>3. CASE c.kind \notin {"create", "update", "price"}
    BY <1>14, <2>3
  <2> QED BY <2>1, <2>2, <2>3
<1>18. IsFiniteSet(Fresh(w))
  <2>1. Fresh(w) = {} \/ \E x : Fresh(w) = {x}
    BY <1>17
  <2> QED BY <2>1, FS_EmptySet, FS_Singleton
<1>19. Fresh(w) # {} /\ c.kind # "create" => Gone(w) # {} /\ \A o \in book : o.id = c.id => o \in Gone(w)
  <2> SUFFICES ASSUME Fresh(w) # {}, c.kind # "create"
               PROVE  Gone(w) # {} /\ \A o \in book : o.id = c.id => o \in Gone(w)
    OBVIOUS
  <2>1. Gone(w) # {}
    BY <1>12, <1>13, <1>14
  <2> QED BY <1>5, <2>1
<1>20. WriteOK(book, t)
  BY <1>4, <1>7, <1>9, <1>16, <1>17, <1>18, <1>19 DEF WriteOK, StageNames
<1>21. \A v \in Writers \ {w} : Busy(tx[v]) => Untangled(tx[v], t)
  <2> SUFFICES ASSUME NEW v \in Writers \ {w}, Busy(tx[v]) PROVE Untangled(tx[v], t)
    OBVIOUS
  <2>1. \A o \in tx[v].gone \cup tx[v].fresh : o.id # c.id
    BY <1>1 DEF Active, Busy
  <2>2. \A p \in t.gone \cup t.fresh : p.id = c.id
    BY <1>4, <1>9, <1>16
  <2>3. Untangled(tx[v], tx[w])
    BY <1>1 DEF BookInv, Busy
  <2>4. tx[v].change.kind = "create" /\ t.change.kind = "create" => tx[v].change.id # t.change.id
    BY <1>4, <2>3 DEF Untangled, c
  <2> QED BY <2>1, <2>2, <2>4 DEF Untangled
<1>22. Turns(w, t) /\ requests' \in 0 .. MaxRequests
  BY <1>1, <1>3 DEF Turns, BookInv
<1> QED BY <1>20, <1>21, <1>22, TurnKeeps

LEMMA ExpandKeeps ==
  ASSUME BookInv, NEW w \in Writers, ExpandScope(w)
  PROVE  BookInv'
<1> DEFINE scope == Expanded(tx[w].scope, OwnBook(w))
           t == [tx[w] EXCEPT !.stage = "load", !.scope = scope]
<1>1. /\ tx[w].stage = "scope" /\ book' = book /\ tables' = tables /\ requests' = requests
      /\ tx' = [tx EXCEPT ![w].stage = "load", ![w].scope = scope]
  BY Zenon DEF ExpandScope
<1> HIDE DEF scope
<1>2. WriteOK(book, tx[w]) /\ DOMAIN tx = Writers /\ Busy(tx[w])
  BY <1>1 DEF BookInv, Busy
<1>3. tx' = [tx EXCEPT ![w] = t]
  BY <1>1, <1>2
<1>4. /\ DOMAIN t = TxFields /\ t.stage = "load" /\ t.gone = tx[w].gone /\ t.fresh = tx[w].fresh
      /\ t.change = tx[w].change /\ t.derived = tx[w].derived
  BY <1>2 DEF WriteOK, TxFields
<1> HIDE DEF t
<1>5. t.stage \in StageNames \ {"write"} /\ RowsOK(t.derived)
  BY <1>2, <1>4 DEF WriteOK, StageNames
<1>6. Turns(w, t)
  BY <1>1, <1>3 DEF Turns
<1> QED BY <1>1, <1>2, <1>4, <1>5, <1>6, AdvanceKeeps

\* What a statement of a request sees of the book is a book.
LEMMA OwnBookOK ==
  ASSUME BookInv, NEW w \in Writers, Busy(tx[w])
  PROVE  BookOK(OwnBook(w))
<1> DEFINE t == tx[w]
<1>1. WriteOK(book, t) /\ BookOK(book)
  BY DEF BookInv
<1>2. OwnBook(w) = (book \ t.gone) \cup t.fresh
  BY DEF OwnBook
<1> HIDE DEF t
<1>3. IsFiniteSet((book \ t.gone) \cup t.fresh)
  <2>1. IsFiniteSet(book \ t.gone)
    BY <1>1, FS_Subset DEF BookOK
  <2>2. IsFiniteSet(t.fresh)
    BY <1>1 DEF WriteOK
  <2> QED BY <2>1, <2>2, FS_Union
<1>4. \A o \in t.fresh : \A p \in book \ t.gone : o.id # p.id
  BY <1>1 DEF WriteOK
<1>5. IdsDiffer((book \ t.gone) \cup t.fresh)
  <2>1. \A o, p \in book : o.id = p.id => o = p
    BY <1>1 DEF BookOK, IdsDiffer
  <2>2. \A o, p \in t.fresh : o = p
    BY <1>1 DEF WriteOK
  <2> QED BY <1>4, <2>1, <2>2 DEF IdsDiffer
<1>6. \A o \in (book \ t.gone) \cup t.fresh : IsOperation(o)
  BY <1>1 DEF WriteOK, BookOK
<1> QED BY <1>2, <1>3, <1>5, <1>6 DEF BookOK

LEMMA LoadKeeps ==
  ASSUME BookInv, NEW w \in Writers, Load(w)
  PROVE  BookInv'
<1> DEFINE ops == {o \in OwnBook(w) : o.account \in tx[w].scope}
           ledger == Replay(ops)
           d == Derived(ledger)
           t == [tx[w] EXCEPT !.stage = "delete", !.derived = d]
<1>1. /\ tx[w].stage = "load" /\ book' = book /\ tables' = tables /\ requests' = requests
      /\ IF ledger.ok THEN tx' = [tx EXCEPT ![w].stage = "delete", ![w].derived = d] ELSE Rollback(w)
  BY Zenon DEF Load
<1>2. WriteOK(book, tx[w]) /\ DOMAIN tx = Writers /\ Busy(tx[w])
  BY <1>1 DEF BookInv, Busy
<1>3. RowsOK(d)
  <2>1. BookOK(OwnBook(w))
    BY <1>2, OwnBookOK
  <2>2. IsFiniteSet(ops) /\ \A o \in ops : IsOperation(o)
    <3>1. ops \in SUBSET OwnBook(w)
      OBVIOUS
    <3> HIDE DEF ops
    <3> QED BY <2>1, <3>1, FS_Subset DEF BookOK
  <2> HIDE DEF ops
  <2> QED BY <2>2, ReplayIsLedger, DerivedOK
<1> HIDE DEF d
<1>4. CASE ledger.ok
  <2>1. tx' = [tx EXCEPT ![w] = t]
    BY <1>1, <1>2, <1>4
  <2>2. /\ DOMAIN t = TxFields /\ t.stage = "delete" /\ t.gone = tx[w].gone /\ t.fresh = tx[w].fresh
        /\ t.change = tx[w].change /\ t.derived = d
    BY <1>2 DEF WriteOK, TxFields
  <2> HIDE DEF t
  <2>3. t.stage \in StageNames \ {"write"} /\ RowsOK(t.derived)
    BY <1>3, <2>2 DEF StageNames
  <2>4. Turns(w, t)
    BY <1>1, <2>1 DEF Turns
  <2> QED BY <1>1, <1>2, <2>2, <2>3, <2>4, AdvanceKeeps
<1>5. CASE ~ledger.ok
  BY <1>1, <1>5, RollbackKeeps
<1> QED BY <1>4, <1>5

LEMMA DeleteKeeps ==
  ASSUME BookInv, NEW w \in Writers, Delete(w)
  PROVE  BookInv'
<1> DEFINE T == DeleteOrder[tx[w].next]
           aim == IF tx[w].waiting THEN tx[w].aim ELSE InScope(w, T)
           stage == IF T = "cash" THEN "positions" ELSE "delete"
           waits == [tx[w] EXCEPT !.waiting = TRUE, !.aim = aim]
           goes == [tx[w] EXCEPT !.deleted[T] = aim \cap tables[T], !.waiting = FALSE, !.aim = {},
                                 !.stage = stage, !.next = @ + 1]
           t == IF aim \cap Locked(w, T) # {} THEN waits ELSE goes
<1>1. /\ tx[w].stage = "delete" /\ book' = book /\ tables' = tables /\ requests' = requests
      /\ IF aim \cap Locked(w, T) # {}
         THEN tx' = [tx EXCEPT ![w].waiting = TRUE, ![w].aim = aim]
         ELSE tx' = [tx EXCEPT ![w].deleted[T] = aim \cap tables[T], ![w].waiting = FALSE, ![w].aim = {},
                               ![w].stage = stage, ![w].next = @ + 1]
  BY Zenon DEF Delete
<1>2. WriteOK(book, tx[w]) /\ DOMAIN tx = Writers /\ Busy(tx[w])
  BY <1>1 DEF BookInv, Busy
<1> HIDE DEF T, aim
<1>3. tx' = [tx EXCEPT ![w] = t]
  BY <1>1, <1>2
<1>4. DOMAIN tx[w] = TxFields /\ stage \in StageNames \ {"write"} /\ "delete" \in StageNames \ {"write"}
  BY <1>2 DEF WriteOK, StageNames
<1> HIDE DEF stage
<1>5. /\ DOMAIN waits = TxFields /\ waits.stage = "delete" /\ waits.gone = tx[w].gone
      /\ waits.fresh = tx[w].fresh /\ waits.change = tx[w].change /\ waits.derived = tx[w].derived
  BY <1>1, <1>4 DEF TxFields
<1>6. /\ DOMAIN goes = TxFields /\ goes.stage = stage /\ goes.gone = tx[w].gone
      /\ goes.fresh = tx[w].fresh /\ goes.change = tx[w].change /\ goes.derived = tx[w].derived
  BY <1>4 DEF TxFields
<1> HIDE DEF waits, goes
<1>7. /\ DOMAIN t = TxFields /\ t.stage \in StageNames \ {"write"} /\ t.gone = tx[w].gone
      /\ t.fresh = tx[w].fresh /\ t.change = tx[w].change /\ t.derived = tx[w].derived
  BY <1>4, <1>5, <1>6
<1> HIDE DEF t
<1>8. RowsOK(t.derived)
  BY <1>2, <1>7 DEF WriteOK
<1>9. Turns(w, t)
  BY <1>1, <1>3 DEF Turns
<1> QED BY <1>1, <1>2, <1>7, <1>8, <1>9, AdvanceKeeps

LEMMA InsertPositionsKeeps ==
  ASSUME BookInv, NEW w \in Writers, InsertPositions(w)
  PROVE  BookInv'
<1> DEFINE clash == Clash("positions", New(w).positions, tables.positions \ tx[w].deleted.positions)
           rows == [New(w) EXCEPT !.cash = {}]
           t == [tx[w] EXCEPT !.stage = "cash", !.inserted = rows]
<1>1. /\ tx[w].stage = "positions" /\ book' = book /\ tables' = tables /\ requests' = requests
      /\ IF clash THEN Rollback(w)
         ELSE tx' = [tx EXCEPT ![w].stage = "cash", ![w].inserted = rows]
  BY Zenon DEF InsertPositions
<1> HIDE DEF clash, rows
<1>2. WriteOK(book, tx[w]) /\ DOMAIN tx = Writers /\ Busy(tx[w])
  BY <1>1 DEF BookInv, Busy
<1>3. CASE ~clash
  <2>1. tx' = [tx EXCEPT ![w] = t]
    BY <1>1, <1>2, <1>3
  <2>2. /\ DOMAIN t = TxFields /\ t.stage = "cash" /\ t.gone = tx[w].gone /\ t.fresh = tx[w].fresh
        /\ t.change = tx[w].change /\ t.derived = tx[w].derived
    BY <1>2 DEF WriteOK, TxFields
  <2> HIDE DEF t
  <2>3. t.stage \in StageNames \ {"write"} /\ RowsOK(t.derived)
    BY <1>2, <2>2 DEF StageNames, WriteOK
  <2>4. Turns(w, t)
    BY <1>1, <2>1 DEF Turns
  <2> QED BY <1>1, <1>2, <2>2, <2>3, <2>4, AdvanceKeeps
<1>4. CASE clash
  BY <1>1, <1>4, RollbackKeeps
<1> QED BY <1>3, <1>4

\* The commit: the book a statement of the request saw is the book.
LEMMA CommitKeeps ==
  ASSUME BookInv, NEW w \in Writers, InsertCash(w)
  PROVE  BookInv'
<1> DEFINE clash == Clash("cash", New(w).cash, tables.cash \ tx[w].deleted.cash)
           kept == [v \in Writers |->
                      IF v = w THEN Idle
                      ELSE IF v \in Active THEN [tx[v] EXCEPT !.alone = FALSE]
                      ELSE tx[v]]
<1>1. /\ tx[w].stage = "cash" /\ requests' = requests
      /\ IF clash THEN Rollback(w) /\ book' = book /\ tables' = tables
         ELSE /\ book' = OwnBook(w)
              /\ tables' = [T \in TableNames |-> (tables[T] \ tx[w].deleted[T]) \cup New(w)[T]]
              /\ tx' = kept
  BY Zenon DEF InsertCash
<1> HIDE DEF clash
<1>2. WriteOK(book, tx[w]) /\ DOMAIN tx = Writers /\ Busy(tx[w]) /\ BookOK(book) /\ StoredOK(tables)
  BY <1>1 DEF BookInv, Busy
<1>3. CASE clash
  BY <1>1, <1>3, RollbackKeeps
<1>4. CASE ~clash
  <2>1. book' = OwnBook(w) /\ tx' = kept
        /\ tables' = [T \in TableNames |-> (tables[T] \ tx[w].deleted[T]) \cup New(w)[T]]
    BY <1>1, <1>4
  <2>2. BookOK(book')
    BY <1>2, <2>1, OwnBookOK
  <2>3. StoredOK(tables')
    <3>1. StoredOK(New(w))
      BY <1>2, StoringKeeps DEF New, WriteOK
    <3>2. \A T \in TableNames : \A r \in tables'[T] : r \in tables[T] \/ r \in New(w)[T]
      BY <2>1
    <3>3. "lots" \in TableNames
      BY DEF TableNames
    <3> QED BY <1>2, <3>1, <3>2, <3>3 DEF StoredOK
  <2>4. DOMAIN tx' = Writers /\ requests' \in 0 .. MaxRequests
    BY <1>1, <2>1 DEF BookInv
  <2>5. ASSUME NEW v \in Writers, Busy(tx'[v])
        PROVE  /\ v # w /\ Busy(tx[v]) /\ DOMAIN tx'[v] = DOMAIN tx[v]
               /\ tx'[v].stage = tx[v].stage /\ tx'[v].change = tx[v].change /\ tx'[v].gone = tx[v].gone
               /\ tx'[v].fresh = tx[v].fresh /\ tx'[v].derived = tx[v].derived
    <3>1. v # w
      BY <2>1, <2>5 DEF Busy, Idle
    <3>2. tx'[v] = IF v \in Active THEN [tx[v] EXCEPT !.alone = FALSE] ELSE tx[v]
      BY <2>1, <3>1
    <3>3. v \in Active => Busy(tx[v])
      BY DEF Active, Busy
    <3> QED BY <2>5, <3>1, <3>2, <3>3
  <2>6. ASSUME NEW v \in Writers, Busy(tx'[v]) PROVE WriteOK(book', tx'[v])
    <3> DEFINE t == tx[v]
               u == tx[w]
               b == (book \ u.gone) \cup u.fresh
    <3>1. v # w /\ Busy(t) /\ WriteOK(book, t) /\ Untangled(t, u) /\ book' = b
      <4>1. v # w /\ Busy(tx[v])
        BY <2>5, <2>6
      <4> QED BY <1>2, <2>1, <4>1 DEF BookInv, OwnBook
    <3>2. WriteOK(book, u)
      BY <1>2
    <3> HIDE DEF t, u
    <3>3. \A o \in t.gone : o \in b
      BY <3>1 DEF WriteOK, Untangled
    <3>4. t.change.kind = "create" => \A o \in b : o.id # t.change.id
      <4> SUFFICES ASSUME t.change.kind = "create", NEW o \in b PROVE o.id # t.change.id
        OBVIOUS
      <4>1. CASE o \in book
        BY <3>1, <4>1 DEF WriteOK
      <4>2. CASE o \in u.fresh
        <5>1. o.id = u.change.id
          BY <3>2, <4>2 DEF WriteOK
        <5>2. CASE u.change.kind = "create"
          BY <3>1, <5>1, <5>2 DEF Untangled
        <5>3. CASE u.change.kind # "create"
          <6>1. PICK p \in u.gone : TRUE
            BY <3>2, <4>2, <5>3 DEF WriteOK
          <6>2. p \in book /\ p.id = u.change.id
            BY <3>2, <6>1 DEF WriteOK
          <6>3. p.id # t.change.id
            BY <3>1, <6>2 DEF WriteOK
          <6> QED BY <5>1, <6>2, <6>3
        <5> QED BY <5>2, <5>3
      <4> QED BY <4>1, <4>2
    <3>5. t.fresh # {} /\ t.change.kind # "create" =>
            t.gone # {} /\ \A o \in b : o.id = t.change.id => o \in t.gone
      <4> SUFFICES ASSUME t.fresh # {}, t.change.kind # "create"
                   PROVE  t.gone # {} /\ \A o \in b : o.id = t.change.id => o \in t.gone
        OBVIOUS
      <4>1. t.gone # {} /\ \A o \in book : o.id = t.change.id => o \in t.gone
        BY <3>1 DEF WriteOK
      <4>2. \A o \in u.fresh : o.id # t.change.id
        <5>1. PICK p \in t.fresh : p.id = t.change.id
          BY <3>1 DEF WriteOK
        <5> QED BY <3>1, <5>1 DEF Untangled
      <4> QED BY <4>1, <4>2
    <3>6. WriteOK(b, t)
      BY <3>1, <3>3, <3>4, <3>5 DEF WriteOK
    <3>7. /\ DOMAIN tx'[v] = DOMAIN t /\ tx'[v].stage = t.stage /\ tx'[v].change = t.change
          /\ tx'[v].gone = t.gone /\ tx'[v].fresh = t.fresh /\ tx'[v].derived = t.derived
      BY <2>5, <2>6 DEF t
    <3>8. WriteOK(b, tx'[v])
      <4> HIDE DEF b
      <4> QED BY <3>6, <3>7 DEF WriteOK
    <3> QED BY <3>1, <3>8
  <2>7. ASSUME NEW v \in Writers, NEW x \in Writers, v # x, Busy(tx'[v]), Busy(tx'[x])
        PROVE  Untangled(tx'[v], tx'[x])
    <3>1. Busy(tx[v]) /\ Busy(tx[x])
      BY <2>5, <2>7
    <3>2. Untangled(tx[v], tx[x])
      BY <2>7, <3>1 DEF BookInv
    <3> QED BY <2>5, <2>7, <3>2 DEF Untangled
  <2> QED BY <2>2, <2>3, <2>4, <2>6, <2>7 DEF BookInv
<1> QED BY <1>3, <1>4

LEMMA BookStillKeeps ==
  ASSUME BookInv, UNCHANGED vars
  PROVE  BookInv'
<1>1. book' = book /\ tables' = tables /\ tx' = tx /\ requests' = requests
  BY DEF vars
<1> QED BY <1>1 DEF BookInv

LEMMA BookInvIsInductive ==
  ASSUME BookInv, [Next]_vars
  PROVE  BookInv'
<1>1. CASE UNCHANGED vars
  BY <1>1, BookStillKeeps
<1>2. CASE Done
  BY <1>2, BookStillKeeps DEF Done
<1>3. ASSUME NEW w \in Writers,
             \/ Create(w) \/ Update(w) \/ RemoveOperation(w) \/ SetLotCostBasis(w) \/ RebuildAll(w)
             \/ Write(w) \/ ExpandScope(w) \/ Load(w) \/ Delete(w)
             \/ InsertPositions(w) \/ InsertCash(w)
      PROVE  BookInv'
  BY <1>3, CreateKeeps, UpdateKeeps, RemoveKeeps, PriceKeeps, RebuildKeeps, WriteKeeps, ExpandKeeps,
     LoadKeeps, DeleteKeeps, InsertPositionsKeeps, CommitKeeps, Zenon
<1> QED BY <1>1, <1>2, <1>3, Zenon DEF Next

-----------------------------------------------------------------------------
(* What the invariant gives of the book.                                     *)

LEMMA BookStart == Init => BookInv
<1> SUFFICES ASSUME Init PROVE BookInv
  OBVIOUS
<1>1. BookOK(book)
  BY BookAssumption DEF Init, BookOK
<1> QED BY <1>1, StoredInit DEF Init

LEMMA BookAlways == Spec => []BookInv
<1>1. BookInv /\ [Next]_vars => BookInv'
  BY BookInvIsInductive
<1> QED BY <1>1, BookStart, PTL DEF Spec

LEMMA BookTypes == BookInv => TypeOK
<1> SUFFICES ASSUME BookInv PROVE TypeOK
  OBVIOUS
<1>1. \A w \in Writers : tx[w].stage \in StageNames
  <2>1. "idle" \in StageNames
    BY DEF StageNames
  <2> QED BY <2>1 DEF BookInv, Busy, WriteOK
<1> QED BY <1>1 DEF BookInv, BookOK, StoredOK, TypeOK

(* One row per id in the book, rows of known accounts in the derived tables,   *)
(* and no lot oversold, for every pool of operations a request may record,     *)
(* whatever book it starts from and however the writes interleave.             *)
THEOREM BookTypeCorrect == Spec => []TypeOK
BY BookTypes, BookAlways, PTL

LEMMA BookKeepsCost == BookInv /\ BookDivides => CostConserved
<1> SUFFICES ASSUME BookInv, BookDivides PROVE CostConserved
  OBVIOUS
<1>1. Kept(Replay(book), book)
  <2>1. IsFiniteSet(book) /\ IdsDiffer(book) /\ \A o \in book : IsOperation(o)
    BY DEF BookInv, BookOK
  <2>2. \A n \in DOMAIN SortEvents(book) :
          DividesOn(FoldLeft(Apply, EmptyLedger, SubSeq(SortEvents(book), 1, n - 1)), SortEvents(book)[n])
    BY DEF BookDivides
  <2> QED BY <2>1, <2>2, ReplayKeeps
<1> QED BY <1>1 DEF Kept, CostConserved

(* Whatever a book holds and however it came about, replaying it neither       *)
(* creates nor destroys cost: what was paid, with the lots a transfer brought  *)
(* in at the cached close, is in the open lots, was sold or left for an        *)
(* account unknown here, through any number of disposals, splits and transfers *)
(* between accounts; and the sales brought in their cost plus the realized     *)
(* gain (applyDisposal, applySplit, relocateLots).  A book with a division     *)
(* that leaves a remainder is left out: the code rounds it.                    *)
THEOREM CostIsConserved == Spec => [](BookDivides => CostConserved)
<1>1. BookInv => (BookDivides => CostConserved)
  BY BookKeepsCost
<1> QED BY <1>1, BookAlways, PTL

-----------------------------------------------------------------------------
(* The three books together.                                                 *)

LedgersInv == BookInv /\ AccountsInv /\ HomeInv

LEMMA LedgersStart == LedgersInit => LedgersInv
<1> SUFFICES ASSUME LedgersInit PROVE LedgersInv
  OBVIOUS
<1>1. BookInv
  <2>1. book \in InitialBooks \/ book = {}
    BY DEF LedgersInit
  <2>2. BookOK({})
    BY FS_EmptySet DEF BookOK, IdsDiffer
  <2>3. BookOK(book)
    BY <2>1, <2>2, BookAssumption DEF BookOK
  <2> QED BY <2>3, StoredInit DEF LedgersInit
<1> QED BY <1>1, AccountsStart, HomeInit DEF LedgersInit, LedgersInv

LEMMA LedgersMoves ==
  [LedgersNext]_<<exercised, vars, accountVars, inventoryVars, tableVars>> =>
    [Next]_vars /\ [AccountsNext]_accountVars /\ [InventoryNext]_inventoryVars
  BY Zenon DEF LedgersNext

LEMMA LedgersStep ==
  LedgersInv /\ [LedgersNext]_<<exercised, vars, accountVars, inventoryVars, tableVars>> => LedgersInv'
  BY LedgersMoves, BookInvIsInductive, AccountsStep, HomeStep DEF LedgersInv

(* In every behaviour of the three books together each keeps what its own      *)
(* theorems say.                                                               *)
THEOREM LedgersAreIndependent ==
  LedgersSpec => []BookInv /\ AccountsSpec /\ InventorySpec
<1>1. LedgersInit => BookInv /\ AccountsInit /\ InventoryInit
  BY LedgersStart DEF LedgersInit, LedgersInv
<1>2. BookInv /\ [Next]_vars => BookInv'
  BY BookInvIsInductive
<1> QED
  BY <1>1, <1>2, LedgersMoves, PTL DEF LedgersSpec, AccountsSpec, InventorySpec

(* The tables of the three books have their types, whichever of them a         *)
(* behaviour exercises, for every set of accounts, of operations, of articles  *)
(* and of requests.                                                            *)
THEOREM LedgersTypeCorrect == LedgersSpec => []TablesOK
<1>1. LedgersInv => TablesOK
  BY AccountsTypes, BookTypes DEF HomeInv, LedgersInv, TablesOK
<1> QED BY <1>1, LedgersStart, LedgersStep, PTL DEF LedgersSpec

\* The table moves only in the behaviours that exercise it.
TableInv ==
  /\ exercised = "installments" => LevelInv
  /\ exercised # "installments" => sequence = 0

(* A purchase in installments adds up: the rows of its plan are there all or none *)
(* and sum what was financed, and the last installment of the table differs from  *)
(* the others by the roundings only, for every amount, number of installments and *)
(* rate (calculateInstallments, createInInstallments).                            *)
THEOREM PurchasesAddUp == LedgersSpec => []InstallmentsAddUp
<1>1. LedgersInit => TableInv
  BY LevelStart DEF LedgersInit, TableInv
<1>2. TableInv /\ [LedgersNext]_<<exercised, vars, accountVars, inventoryVars, tableVars>> => TableInv'
  <2> SUFFICES ASSUME TableInv, [LedgersNext]_<<exercised, vars, accountVars, inventoryVars, tableVars>>
               PROVE  TableInv'
    OBVIOUS
  <2>1. exercised' = exercised
    BY DEF LedgersNext
  <2>2. CASE exercised = "installments"
    <3>1. [TableNext]_tableVars
      BY Zenon DEF LedgersNext
    <3> QED BY <2>1, <2>2, <3>1, LevelStep DEF TableInv
  <2>3. CASE exercised # "installments"
    <3>1. UNCHANGED tableVars
      BY <2>3, Zenon DEF LedgersNext
    <3>2. sequence' = sequence
      BY <3>1 DEF tableVars
    <3> QED BY <2>1, <2>3, <3>2 DEF TableInv
  <2> QED BY <2>2, <2>3
<1>3. TableInv => LevelPayment
  BY DEF TableInv, LevelInv, LevelPayment, RoundingsBounded
<1>4. LedgersSpec => []PlanWhole
  BY LedgersAreIndependent, PlansStayWhole, PTL
<1>5. PlanWhole /\ LevelPayment => InstallmentsAddUp
  BY DEF InstallmentsAddUp
<1> QED BY <1>1, <1>2, <1>3, <1>4, <1>5, PTL DEF LedgersSpec
=============================================================================
