---------------------------- MODULE MC_CmdbQuery ----------------------------
(***************************************************************************)
(* A UAT deployment; three records: zone 1C1, zone 1C2 and a blank zone    *)
(* (a pod the backend has not placed yet), ranked opposite to the order    *)
(* TLC lists them so that the sort is visible.                             *)
(***************************************************************************)
EXTENDS CmdbQuery, TLC

CONSTANTS p1, p2, p3, p4

MC_AtomLen ==
    [a \in {"", "0", "1", "10", "5036", "gns", "query"} |->
        CASE a = "" -> 0 [] a \in {"0", "1"} -> 1 [] a = "10" -> 2
          [] a = "gns" -> 3 [] a = "5036" -> 4 [] a = "query" -> 5]
MC_DigitVal == [a \in {"0", "1", "10", "5036"} |->
                    CASE a = "0" -> 0 [] a = "1" -> 1 [] a = "10" -> 10 [] a = "5036" -> 5036]
MC_AlphaAtoms == {"gns", "query"}

GnsQuery == << <<"gns">>, <<"query">> >>
MC_DcnOf   == (p1 :> "1C1") @@ (p2 :> "1C2") @@ (p3 :> "")
MC_PodIpOf == (p1 :> << <<"10", "0", "0", "1">> >>) @@ (p2 :> << <<"10", "0", "0", "10">> >>)
              @@ (p3 :> << <<"">> >>)
MC_RowRank == (p1 :> 3) @@ (p2 :> 2) @@ (p3 :> 1)
\* Records of three subsystems (a host ip query), whose names sort as the
\* rows do; and records of one subsystem (a subsystem name query).
MC_NameRankDistinct == MC_RowRank
MC_NameRankSame     == [p \in {p1, p2, p3, p4} |-> 0]
\* p4: a record of zone 1C1 whose Dcn field the backend sent as null
MC_DcnOfEdge    == MC_DcnOf @@ (p4 :> Null)
MC_PodIpOfEdge  == MC_PodIpOf @@ (p4 :> << <<"10", "0", "0", "1">> >>)
MC_RowRankEdge  == MC_RowRank @@ (p4 :> 0)
\* The error messages: any, and one that reads like a parameter error.
MC_ErrorMessages     == {"Backend Error"}
MC_ErrorMessagesEdge == {"Backend Error", "Parameter Error"}

\* a subsystem name, a subsystem id, an ip, a pod name, and "10.10" (no kind)
MC_Resources ==
    {GnsQuery, << <<"5036">> >>, << <<"10", "0", "0", "1">> >>,
     GnsQuery \o << <<"1">> >>, << <<"10", "10">> >>}
\* "1c" (lower-case prefix), "1C2", "1c1d" (too long), "1C2,1c"
MC_DcnArgs == {<<"1c">>, <<"1C2">>, <<"1c1d">>, <<"1C2", "1c">>}
\* "1C2," (the empty token a trailing comma leaves) and "-" (the placeholder)
MC_DcnArgsEdge == {<<"1C2", "">>, <<"-">>}
=============================================================================
