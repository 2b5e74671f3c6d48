------------------------------- MODULE Dockctl -------------------------------
(***************************************************************************)
(* The command dispatcher of src/dockctl/dockctl.py (OpsctlCommander) and  *)
(* the helpers it takes from commontool.py (get_name_space, rule_args).    *)
(*                                                                         *)
(* One process handles one argv: __init__ computes name_space, run()       *)
(* classifies the subcommand (analysis_subcommand) and then takes exactly  *)
(* one branch: exec_pod, ssh, cmdb or print_usage.  Every argv element is  *)
(* a CommonTool string (parts of atoms); str.upper() maps each atom by     *)
(* AtomUpper.  The external call a branch makes is recorded in "called":   *)
(* the opsctl exec command line, the WcsSsh session with its seed, or      *)
(* CmdbDocker.run with argv[1:].                                           *)
(***************************************************************************)
EXTENDS Naturals, Sequences, SequencesExt

CONSTANTS
    Env, AtomLen, DigitVal, AlphaAtoms,
    AtomUpper,    \* [Atoms -> STRING]: str.upper() of each atom
    Rule,         \* cf.get("common","rule").lower(), "default" when absent
    Argvs         \* the argument vectors sys.argv may hold

VARIABLES
    pc,             \* "init", "analysed", "done"
    args_list,      \* self.args_list
    name_space,     \* self.name_space
    command_type,   \* self.command_type
    resource_name,  \* self.resource_name
    exec_cmd,       \* self.exec_cmd
    called          \* the external call run() made

vars == <<pc, args_list, name_space, command_type, resource_name, exec_cmd, called>>

CT == INSTANCE CommonTool

\* A one-atom string such as "exec" or "null".
Word(w) == <<<<w>>>>

UpperStr(s) == [i \in DOMAIN s |-> [j \in DOMAIN s[i] |-> AtomUpper[s[i][j]]]]

\* "-N" and "--ALL-NAMESPACE(S)" after upper(), split on '-'.
DashN == <<<<"">>, <<"N">>>>
AllNamespaceFlags ==
    {<<<<"">>, <<"">>, <<"ALL">>, <<"NAMESPACE">>>>,
     <<<<"">>, <<"">>, <<"ALL">>, <<"NAMESPACES">>>>}

NullNs == Word("null")
AllNs  == Word("all")
NoCall == [kind |-> "none"]

\* get_name_space: the element after the first "-n", or "all" at a
\* --all-namespace(s) met first, or "null".
RECURSIVE NameSpaceFrom(_, _, _)
NameSpaceFrom(l, k, flag) ==
    IF k > Len(l) THEN NullNs
    ELSE IF flag THEN l[k]
    ELSE IF UpperStr(l[k]) \in AllNamespaceFlags THEN AllNs
    ELSE NameSpaceFrom(l, k + 1, UpperStr(l[k]) = DashN)

get_name_space(l) == NameSpaceFrom(l, 1, FALSE)

\* rule_args(): no routing flag for the rule "default" or an empty rule.
rule_args == IF Rule = "default" \/ Rule = "" THEN "" ELSE Rule

\* l[i] with Python's 0-based index.
Arg(l, i) == l[i + 1]

IsKeyword(l, i, w) == Len(l) > i /\ UpperStr(Arg(l, i)) = Word(w)

IsTarget(r) == CT!is_podname(r) \/ CT!is_ip(r)

\* Mutant of ExecPositions: "-n" after the command read as after the target.
ExecPositions_afterTarget(l) ==
    CASE UpperStr(Arg(l, 2)) = DashN -> <<4, 5>>
      [] UpperStr(Arg(l, 3)) = DashN -> <<2, 5>>
      [] UpperStr(Arg(l, 4)) = DashN -> <<2, 5>>
      [] OTHER                       -> <<>>

\* The (resource, cmd) positions for "-n" at index 2, 3 or 4; <<>> if none.
ExecPositions(l) ==
    CASE UpperStr(Arg(l, 2)) = DashN -> <<4, 5>>
      [] UpperStr(Arg(l, 3)) = DashN -> <<2, 5>>
      [] UpperStr(Arg(l, 4)) = DashN -> <<2, 3>>
      [] OTHER                       -> <<>>

\* What analysis_subcommand returns for args_list l and name_space ns, with
\* the resource_name and exec_cmd it leaves behind ("" when not set).
\* An "exec" that fits neither form falls through the ssh and cmdb tests
\* to COMMAND ERROR; the "-n" form sets resource and command, then checks.
Analysis(l, ns) ==
    LET none == Word("")
        pos  == ExecPositions(l)
    IN  CASE IsKeyword(l, 1, "EXEC") /\ ns = NullNs /\ Len(l) = 4 /\ IsTarget(Arg(l, 2)) ->
               [type |-> "EXEC", resource |-> Arg(l, 2), cmd |-> Arg(l, 3)]
          [] IsKeyword(l, 1, "EXEC") /\ ns # NullNs /\ Len(l) = 6 /\ pos # <<>> ->
               [type |-> IF IsTarget(Arg(l, pos[1])) THEN "EXEC" ELSE "COMMAND ERROR",
                resource |-> Arg(l, pos[1]), cmd |-> Arg(l, pos[2])]
          [] IsKeyword(l, 1, "SSH") ->
               [type |-> "SSH", resource |-> IF Len(l) = 3 THEN Arg(l, 2) ELSE none,
                cmd |-> none]
          [] IsKeyword(l, 1, "CMDB") -> [type |-> "CMDB", resource |-> none, cmd |-> none]
          [] OTHER -> [type |-> "COMMAND ERROR", resource |-> none, cmd |-> none]

-----------------------------------------------------------------------------
\* __init__
Init ==
    /\ args_list \in Argvs
    /\ name_space = get_name_space(args_list)
    /\ command_type = "COMMAND ERROR"
    /\ resource_name = Word("")
    /\ exec_cmd = Word("")
    /\ pc = "init"
    /\ called = NoCall

\* run(): self.command_type = self.analysis_subcommand()
AnalysisSubcommand ==
    /\ pc = "init"
    /\ pc' = "analysed"
    /\ LET a == Analysis(args_list, name_space)
       IN  command_type' = a.type /\ resource_name' = a.resource /\ exec_cmd' = a.cmd
    /\ UNCHANGED <<args_list, name_space, called>>

Dispatched(t) == pc = "analysed" /\ command_type = t

\* exec_pod: canonicalise a pod name, then "opsctl[ -r rule] exec <pod>
\* [-n ns] -- /bin/sh -c <cmd>"; the -n is left out for name_space "null".
ExecPod ==
    /\ Dispatched("EXEC")
    /\ LET target == IF CT!is_podname(resource_name) THEN CT!k8s_pn(resource_name)
                     ELSE resource_name
       IN  /\ resource_name' = target
           /\ called' = [kind |-> "exec", target |-> target, cmd |-> exec_cmd,
                         ns |-> IF name_space = NullNs THEN "none" ELSE name_space,
                         rule |-> rule_args]
    /\ pc' = "done"
    /\ UNCHANGED <<args_list, name_space, command_type, exec_cmd>>

\* ssh: WcsSsh(self.resource_name).run()
Ssh ==
    /\ Dispatched("SSH")
    /\ called' = [kind |-> "ssh", seed |-> resource_name]
    /\ pc' = "done"
    /\ UNCHANGED <<args_list, name_space, command_type, resource_name, exec_cmd>>

\* cmdb: CmdbDocker().run(args_list[1:]) (checked in CmdbQuery).
Cmdb ==
    /\ Dispatched("CMDB")
    /\ called' = [kind |-> "cmdb", args |-> Tail(args_list)]
    /\ pc' = "done"
    /\ UNCHANGED <<args_list, name_space, command_type, resource_name, exec_cmd>>

PrintUsage ==
    /\ Dispatched("COMMAND ERROR")
    /\ called' = [kind |-> "usage"]
    /\ pc' = "done"
    /\ UNCHANGED <<args_list, name_space, command_type, resource_name, exec_cmd>>

Done == pc = "done" /\ UNCHANGED vars

Next == AnalysisSubcommand \/ ExecPod \/ Ssh \/ Cmdb \/ PrintUsage \/ Done

\* The process runs to completion once started.
Spec == Init /\ [][Next]_vars /\ WF_vars(Next)
-----------------------------------------------------------------------------
(***************************************************************************)
(* Properties.                                                             *)
(***************************************************************************)
IsFlag(t) == UpperStr(t) \in AllNamespaceFlags \cup {DashN}

\* The exec call spec 4.5 prescribes for argv l, NoCall if l is not one of
\* its forms: exec T C, exec T -n N C, exec T C -n N, with T a pod name or
\* ip and C, N arguments that are not flags.
SpecExecCall(l) ==
    LET call(t, c, n) ==
            [kind |-> "exec", cmd |-> c, ns |-> n, rule |-> rule_args,
             target |-> IF CT!is_podname(t) THEN CT!k8s_pn(t) ELSE t]
        plain(i) == \A k \in i : ~IsFlag(l[k])
    IN  IF ~(Len(l) \in {4, 6} /\ UpperStr(l[2]) = Word("EXEC") /\ IsTarget(l[3]))
        THEN NoCall
        ELSE CASE Len(l) = 4 /\ plain({4}) -> call(l[3], l[4], "none")
               [] Len(l) = 6 /\ UpperStr(l[4]) = DashN /\ plain({5, 6}) ->
                      call(l[3], l[6], l[5])
               [] Len(l) = 6 /\ UpperStr(l[5]) = DashN /\ plain({4, 6}) ->
                      call(l[3], l[4], l[6])
               [] OTHER -> NoCall

(* Spec 4.5: "exec <target> <cmd> [-n <namespace>]", with -n after either *)
(* positional argument, runs <cmd> on the canonical target and passes the *)
(* namespace through unvalidated.  The code finds the namespace with one  *)
(* scan (get_name_space) and the target and command with another          *)
(* (analysis_subcommand), so the two must agree.                          *)
ExecAsSpecified ==
    pc = "done" /\ SpecExecCall(args_list) # NoCall => called = SpecExecCall(args_list)
=============================================================================
