------------------------------ MODULE Amounts ------------------------------
(***************************************************************************)
(* Python's arithmetic on amounts, exactly: a quantity that is a float in  *)
(* the code is an integer here, in the unit the definition that uses it    *)
(* names, and a division is rounded as the code's round() rounds it.       *)
(***************************************************************************)
EXTENDS Integers

CONSTANT None \* what Python's None stands for, where a number may be missing

ASSUME NoneAssumption == None \notin Int

Least(a, b) == IF a < b THEN a ELSE b
Greatest(a, b) == IF a > b THEN a ELSE b

\* round(n / d) for d > 0, half to even.
Rounded(n, d) ==
    LET q == n \div d
        r == 2 * (n % d)
    IN  IF r > d \/ (r = d /\ q % 2 = 1) THEN q + 1 ELSE q

\* round(1000 * n / d) for 0 <= n <= d and d > 0, digit by digit, within the
\* integers of the model checker.
Thousandths(n, d) ==
    LET r1 == (10 * n) % d
        r2 == (10 * r1) % d
        r3 == 2 * ((10 * r2) % d)
        q  == 100 * ((10 * n) \div d) + 10 * ((10 * r1) \div d) + (10 * r2) \div d
    IN  IF r3 > d \/ (r3 = d /\ q % 2 = 1) THEN q + 1 ELSE q
=============================================================================
