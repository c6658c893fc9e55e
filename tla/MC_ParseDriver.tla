-------------------------- MODULE MC_ParseDriver --------------------------
(* Three input paths: p1 and p2 hold repositories, p3 none.               *)
(*   p1: a1 (root) touches x; a2 touches x and y; a3 touches x and z,     *)
(*       and z is deleted, so srcMgr resolves no file for it.             *)
(*   p2: b1 (root) touches u; b2 touches u.                               *)
(* The e-mails exercise the substring match of setUserCompany: one at     *)
(* arm.com, one at harm.com (contains "arm.com"), one at inf.elte.hu,    *)
(* and one containing two keys (ibm.com before intel.com in key order).   *)
EXTENDS ParseDriver

CONSTANTS p1, p2, p3, a1, a2, a3, b1, b2, r1, r2, r3

MCInputs == <<p1, p3, p2>>
MCHasRepo == {p1, p2}
MCWalk == (p1 :> <<a3, a2, a1>>) @@ (p2 :> <<b2, b1>>) @@ (p3 :> << >>)
MCParent == (a1 :> NoParent) @@ (a2 :> a1) @@ (a3 :> a2)
            @@ (b1 :> NoParent) @@ (b2 :> b1)
MCChanged == (a1 :> {"p1/x"}) @@ (a2 :> {"p1/x", "p1/y"})
             @@ (a3 :> {"p1/x", "p1/z"}) @@ (b1 :> {"p2/u"}) @@ (b2 :> {"p2/u"})
MCTracked == {"p1/x", "p1/y", "p2/u"}
\* p1's pass yields rows r1 and r2, or only r1 when the tool flags the file
\* of r2.
MCOutcomes ==
    (p1 :> {[rows |-> {r1, r2}, emails |-> {"a@arm.com"}],
            [rows |-> {r1}, emails |-> {"a@arm.com"}]})
    @@ (p2 :> {[rows |-> {r3},
                emails |-> {"b@harm.com", "c@inf.elte.hu", "d@ibm.com.intel.com"}]})
    @@ (p3 :> {})

\* The keys of setCompanyList, in std::map (lexicographic) order.
MCKeyOrder == <<"amd.com", "apple.com", "arm.com", "ericsson.com",
                "fujitsu.com", "harvard.edu", "huawei.com", "ibm.com",
                "inf.elte.hu", "intel.com", "microsoft.com", "nokia.com",
                "oracle.com", "samsung.com", "sony.com">>
MCCompanyName ==
    ("amd.com" :> "AMD") @@ ("apple.com" :> "Apple") @@ ("arm.com" :> "ARM")
    @@ ("ericsson.com" :> "Ericsson") @@ ("fujitsu.com" :> "Fujitsu")
    @@ ("harvard.edu" :> "Harvard") @@ ("huawei.com" :> "Huawei")
    @@ ("ibm.com" :> "IBM") @@ ("inf.elte.hu" :> "ELTE FI")
    @@ ("intel.com" :> "Intel") @@ ("microsoft.com" :> "Microsoft")
    @@ ("nokia.com" :> "Nokia") @@ ("oracle.com" :> "Oracle")
    @@ ("sony.com" :> "Sony") @@ ("samsung.com" :> "Samsung")
MCContains == {<<"a@arm.com", "arm.com">>, <<"b@harm.com", "arm.com">>,
               <<"c@inf.elte.hu", "inf.elte.hu">>,
               <<"d@ibm.com.intel.com", "ibm.com">>,
               <<"d@ibm.com.intel.com", "intel.com">>}
=============================================================================
