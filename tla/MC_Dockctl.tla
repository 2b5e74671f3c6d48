----------------------------- MODULE MC_Dockctl -----------------------------
(***************************************************************************)
(* A UAT deployment without a routing rule.  argv is "wcsctl", one of the  *)
(* subcommand words, and up to four arguments drawn from: a pod name, a    *)
(* pod ip, a subsystem name (not a target), a command "ls", "-n", "-N",    *)
(* a namespace "ns" and --all-namespaces.                                  *)
(***************************************************************************)
EXTENDS Dockctl, TLC

MC_Words ==
    {"", "wcsctl", "exec", "EXEC", "ssh", "cmdb", "ls", "n", "N", "ns", "null",
     "all", "namespaces", "gns", "query", "0", "1", "10"}
MC_AtomLen ==
    [a \in MC_Words |->
        CASE a = "" -> 0 [] a \in {"n", "N", "0", "1"} -> 1 [] a \in {"ls", "ns", "10"} -> 2
          [] a \in {"ssh", "all", "gns"} -> 3 [] a \in {"exec", "EXEC", "cmdb", "null"} -> 4
          [] a = "query" -> 5 [] a = "wcsctl" -> 6 [] a = "namespaces" -> 10]
MC_DigitVal == [a \in {"0", "1", "10"} |-> CASE a = "0" -> 0 [] a = "1" -> 1 [] a = "10" -> 10]
MC_AlphaAtoms == MC_Words \ {"", "0", "1", "10"}
\* str.upper() of the words: the letter words in capitals, digits unchanged
MC_AtomUpper ==
    [a \in MC_Words |->
        CASE a \in {"exec", "EXEC"} -> "EXEC" [] a = "ssh" -> "SSH" [] a = "cmdb" -> "CMDB"
          [] a \in {"n", "N"} -> "N" [] a = "all" -> "ALL" [] a = "namespaces" -> "NAMESPACES"
          [] a = "ls" -> "LS" [] a = "ns" -> "NS" [] a = "null" -> "NULL" [] a = "gns" -> "GNS"
          [] a = "query" -> "QUERY" [] a = "wcsctl" -> "WCSCTL" [] OTHER -> a]

PodName  == << <<"gns">>, <<"query">>, <<"1">> >>
PodIp    == << <<"10", "0", "0", "1">> >>
SysName  == << <<"gns">>, <<"query">> >>
FlagN    == << <<"">>, <<"n">> >>
FlagNUp  == << <<"">>, <<"N">> >>
AllFlag  == << <<"">>, <<"">>, <<"all">>, <<"namespaces">> >>

Subcommands == {Word("exec"), Word("EXEC"), Word("ssh"), Word("cmdb"), Word("ls")}
Arguments   == {PodName, PodIp, SysName, Word("ls"), FlagN, FlagNUp, Word("ns"), AllFlag}

ArgvsOver(args) ==
    {<<Word("wcsctl")>>}
    \cup {<<Word("wcsctl"), s>> \o a : s \in Subcommands, a \in BoundedSeq(args, 4)}

MC_Argvs == ArgvsOver(Arguments)

\* A pod, a command, "-n" and a namespace named "null".
MC_ArgvsNull == ArgvsOver({PodName, Word("ls"), FlagN, Word("null")})
=============================================================================
