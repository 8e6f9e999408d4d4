------------------------- MODULE MCConnectorImport -------------------------
(***************************************************************************)
(* Small instances of ConnectorImport for TLC: a ledger and a vendor       *)
(* export, and two workbooks.  "good" has a ledger and a vendor export of  *)
(* which a row is rejected; "other" has a ledger that cannot be read and   *)
(* another vendor.  One vendor is seeded.                                  *)
(***************************************************************************)
EXTENDS ConnectorImport, TLC

CONSTANTS a1, a2

OneCaller == {a1}
TwoCallers == {a1, a2}
LedgerThenVendors == <<"ledger", "vendor_export">>
Workbooks == {"good", "other"}
SomeRows == {"revenue", "acme", "zenith"}
Revenue == {"revenue"}
SaaS == {"seeded"}

Result(status, rows) == [status |-> status, rows |-> rows]
Contents ==
    "ledger" :> (   "good" :> Result("imported", {"revenue"})
                 @@ "other" :> Result("error", {}))
    @@ "vendor_export" :> (   "good" :> Result("partial", {"acme"})
                           @@ "other" :> Result("imported", {"zenith"}))

CallerSymmetry == Permutations(Callers)
=============================================================================
