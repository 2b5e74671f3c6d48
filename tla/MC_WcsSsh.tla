------------------------------ MODULE MC_WcsSsh ------------------------------
(***************************************************************************)
(* A UAT deployment with two subsystems, gns-query (two pods in zones 1C1 *)
(* and 1C2) and gns-web (one pod in 1C1).  Atoms are the words those names *)
(* and addresses, the menu words and the numbers 0..3 are made of.         *)
(***************************************************************************)
EXTENDS WcsSsh, TLC

CONSTANTS p1, p2, p3, p4   \* backend records (model values)

MC_AtomLen ==
    [a \in {"", "0", "1", "2", "3", "10", "gns", "query", "web", "dcn", "exit",
            "ssh", "wcsctl"} |->
        CASE a = ""                    -> 0
          [] a \in {"0", "1", "2", "3"} -> 1
          [] a = "10"                  -> 2
          [] a \in {"gns", "web", "dcn", "ssh"} -> 3
          [] a = "exit"                -> 4
          [] a = "query"               -> 5
          [] a = "wcsctl"              -> 6]
MC_DigitVal == [a \in {"0", "1", "2", "3", "10"} |->
                    CASE a = "0" -> 0 [] a = "1" -> 1 [] a = "2" -> 2
                      [] a = "3" -> 3 [] a = "10" -> 10]
MC_AlphaAtoms == {"gns", "query", "web", "dcn", "exit", "ssh", "wcsctl"}
\* str.upper() of the atoms, for the dispatcher's subcommand test
MC_AtomUpper ==
    [a \in DOMAIN MC_AtomLen |->
        CASE a = "ssh" -> "SSH" [] a = "wcsctl" -> "WCSCTL" [] a = "gns" -> "GNS"
          [] a = "query" -> "QUERY" [] a = "web" -> "WEB" [] a = "dcn" -> "DCN"
          [] a = "exit" -> "EXIT" [] OTHER -> a]

GnsQuery == << <<"gns">>, <<"query">> >>
GnsWeb   == << <<"gns">>, <<"web">> >>
Ip(n)    == << <<"10", "0", "0", n>> >>

MC_DcnOf   == (p1 :> "1C1") @@ (p2 :> "1C2") @@ (p3 :> "1C1")
MC_PodIpOf == (p1 :> Ip("1")) @@ (p2 :> Ip("2")) @@ (p3 :> Ip("3"))
MC_RowRank == (p1 :> 1) @@ (p2 :> 2) @@ (p3 :> 3)
MC_PodsOf  == (GnsQuery :> {p1, p2}) @@ (GnsWeb :> {p3})

\* The dispatcher (dockctl.py) decides what the session is given: the
\* resource_name analysis_subcommand leaves for an "ssh" argv.
D == INSTANCE Dockctl WITH
        AtomUpper <- MC_AtomUpper, Rule <- "default", Argvs <- {},
        pc <- "init", args_list <- <<>>, name_space <- <<>>, command_type <- "",
        resource_name <- <<>>, exec_cmd <- <<>>, called <- <<>>

\* "wcsctl ssh" with no argument, a subsystem name, a pod name, a pod ip,
\* and with two arguments
SshArgvs ==
    LET pre == <<D!Word("wcsctl"), D!Word("ssh")>>
    IN  {pre} \cup {Append(pre, a) : a \in {GnsQuery, GnsQuery \o <<<<"1">>>>, Ip("1")}}
        \cup {pre \o <<GnsQuery, Ip("1")>>}

MC_InitialArgs ==
    {D!Analysis(l, D!get_name_space(l)).resource :
        l \in {l \in SshArgvs : D!Analysis(l, D!get_name_space(l)).type = "SSH"}}
\* a pod name, a pod name already ending in -0, a pod ip
MC_PodInputs   == {GnsWeb \o <<<<"3">>>>, GnsQuery \o <<<<"0">>>>, Ip("2")}
\* an exact zone, the same zone in lower case, a zone prefix
MC_DcnInputs   == {"1C1", "1c2", "1C"}

\* auth answers: success, a refusal, and Code 0 with an empty token
MC_LoginAnswers ==
    {[Code |-> 0, Message |-> "Success", Data |-> Token],
     [Code |-> 1, Message |-> "Auth Failed", Data |-> Null],
     [Code |-> 0, Message |-> "Success", Data |-> ""]}
\* p4: a gns-web pod in 1C1 the backend has not given an ip yet
MC_DcnOfPending   == MC_DcnOf @@ (p4 :> "1C1")
MC_PodIpOfPending == MC_PodIpOf @@ (p4 :> << <<"">> >>)
MC_RowRankPending == MC_RowRank @@ (p4 :> 4)
MC_PodsOfPending  == (GnsQuery :> {p1, p2}) @@ (GnsWeb :> {p3, p4})
=============================================================================
