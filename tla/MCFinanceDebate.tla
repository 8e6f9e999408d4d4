-------------------------- MODULE MCFinanceDebate ---------------------------
(***************************************************************************)
(* Small instances of FinanceDebate for TLC: two threads, so that one runs *)
(* beside the other or after it, and a committee of two analysts.          *)
(***************************************************************************)
EXTENDS FinanceDebate

CONSTANTS t1, t2, treasury, risk

TwoThreads == {t1, t2}
TwoRoles == {treasury, risk}
=============================================================================
