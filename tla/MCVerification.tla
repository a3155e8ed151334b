--------------------------- MODULE MCVerification ---------------------------
(* TLC instances of Verification.  Two candidates of one company, found by *)
(* its name and domain, and a branch of it.  The map has an office of the  *)
(* company, a targeted call may find another; the branch has no name but   *)
(* the one such a call may find.                                           *)
EXTENDS Verification, TLC

Plain == [code |-> None, relation |-> None, name |-> "n", marker |-> None, domain |-> "d",
          phone |-> None, address |-> None]
CompanyAndBranch == "c1" :> Plain @@ "c2" :> Plain @@ "c3" :> [Plain EXCEPT !.marker = "branch"]
\* A record without a code between two with different ones.
TwoCodes == "c1" :> Plain @@ "c2" :> [Plain EXCEPT !.code = "x"] @@ "c3" :> [Plain EXCEPT !.code = "y"]

Of3(a, b, c) == "c1" :> a @@ "c2" :> b @@ "c3" :> c
Says1(field, value, confidence, asked) ==
    [field |-> field, value |-> value, confidence |-> confidence, asked |-> asked]
McSays ==
    "name1" :> Says1("legal_name", "A", 94, "none") @@ "name2" :> Says1("legal_name", "A", 79, "none") @@
    "phone1" :> Says1("public_phone", "p", 79, "none") @@ "phone2" :> Says1("public_phone", "q", 92, "none") @@
    "office1" :> Says1("office_location", "o", 79, "none") @@
    "office2" :> Says1("office_location", "r", 79, "address") @@
    "branch" :> Says1("legal_name", "B", 94, "legal_name")
McFound == Of3(<<"name1", "phone1", "office1">>, <<"name2", "phone2">>, <<>>)
McExtra == Of3({"office2"}, {}, {"branch"})
McMinSources == [f \in {"legal_name", "public_phone", "address", "office_count"} |->
                    IF f = "legal_name" THEN 1 ELSE 2]
McRequired == {"legal_name", "public_phone", "address"}
McRequiredOffices == {"legal_name", "address", "office_count"}
=============================================================================
