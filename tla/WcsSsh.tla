------------------------------- MODULE WcsSsh -------------------------------
(***************************************************************************)
(* The interactive session of src/dockctl/wcsssh.py (class WcsSsh).        *)
(*                                                                         *)
(* run() logs in, then loops on self.flag.  A loop pass that prompts       *)
(* ("common") reads operator lines until input_common_command breaks, and  *)
(* the same pass then runs the handler the new flag names (query_cmdb,     *)
(* input_dcn + query_dcn, run_ssh_pod) and sets the flag back to "common". *)
(* Each action below is one such pass: the accepted input and its whole    *)
(* handler.  Lines input_common_command ignores (empty, out of range,      *)
(* unclassifiable, "dcn" with no table) change nothing and are stuttering. *)
(*                                                                         *)
(* The three string tables are kept as the sequences of backend records    *)
(* whose rows they print: cmdb_string_table without the index column,      *)
(* pod_list_all and pod_list_dcn with it; "" is <<>>.  An uncaught Python  *)
(* exception (IndexError in get_pod_from_pod_list) ends the process:       *)
(* pc = "crashed".  sent records every remote-session transport call.      *)
(***************************************************************************)
EXTENDS Naturals, Sequences, SequencesExt, FiniteSets

CONSTANTS
    Env, AtomLen, DigitVal, AlphaAtoms, Pods, DcnOf, PodIpOf, RowRank, Null,
    PodsOf,         \* [subsystem name -> SUBSET Pods]: what the backend holds
    InitialArgs,    \* the wcsctl ssh argument ("" when none was given)
    PodInputs,      \* pod names / pod ips the operator may type
    DcnInputs,      \* lines the operator may type at "input dcn : "
    Token,          \* the access token a successful check_user returns
    LoginAnswers,   \* answers of "opsctl auth": [Code, Message, Data]
    MaxSessions     \* bound on remote-session transport calls

VARIABLES
    pc,                 \* "login", "loop", "crashed"
    flag,               \* self.flag
    token,              \* self.token
    resource_name,      \* self.resource_name
    subsystem,          \* self.subsystem
    dcn,                \* self.dcn
    cmdb_string_table,  \* self.cmdb_string_table
    pod_list_all,       \* self.pod_list_all
    pod_list_dcn,       \* self.pod_list_dcn
    chosen,             \* self.chosen
    sent                \* transport calls: [via, target, token, row]

vars == <<pc, flag, token, resource_name, subsystem, dcn, cmdb_string_table,
          pod_list_all, pod_list_dcn, chosen, sent>>

CT == INSTANCE CommonTool
CD == INSTANCE CmdbDocker

Subsystems == DOMAIN PodsOf
NoRow      == "none"
\* split()[2] of the index header "Index  Dcn  PodIp ..."
HeaderField == "PodIp"
NumberInputs == {CT!Str(<<a>>) : a \in CT!DigitAtoms}

\* Backend answers to "opsctl list subsysName s": an error, no data, or
\* some of the subsystem's records (CmdbDocker sorts them).
Answers(s) ==
    {[Code |-> 1, Message |-> "Backend Error", Data |-> Null],
     [Code |-> 0, Message |-> "Success", Data |-> Null]}
    \cup {[Code |-> 0, Message |-> "Success", Data |-> SetToSeq(S)] :
            S \in SUBSET PodsOf[s] \ {{}}}

\* str.lower() of a dcn string; dcn strings are written over digits, C, D.
RECURSIVE Lower(_)
Lower(s) ==
    LET low == [c \in {"C", "D"} |-> IF c = "C" THEN "c" ELSE "d"]
        h   == SubSeq(s, 1, 1)
    IN  IF s = "" THEN ""
        ELSE (IF h \in DOMAIN low THEN low[h] ELSE h) \o Lower(SubSeq(s, 2, Len(s)))

\* Number of lines of a printed table: header plus rows, or [''] for "".
Lines(t) == IF t = <<>> THEN 1 ELSE Len(t) + 1

\* The view display_pod prints and run_ssh_pod selects from.
Shown == IF pod_list_dcn # <<>> THEN pod_list_dcn ELSE pod_list_all

\* query_dcn: the rows of cmdb_string_table whose Dcn column equals dcn.
DcnRows(table, d) == SelectSeq(table, LAMBDA p : Lower(CD!DisplayDcn(p)) = Lower(d))

Log(via, target, row) ==
    sent' = Append(sent, [via |-> via, target |-> target, token |-> token, row |-> row])

-----------------------------------------------------------------------------
Init ==
    /\ pc = "login"
    /\ \E arg \in InitialArgs :
          /\ resource_name = arg
          /\ flag = IF ~CT!IsEmptyStr(arg) /\ (CT!is_podname(arg) \/ CT!is_ip(arg))
                    THEN "once" ELSE "common"
    /\ token = ""
    /\ subsystem = CD!EmptyStr
    /\ dcn = ""
    /\ cmdb_string_table = <<>>
    /\ pod_list_all = <<>>
    /\ pod_list_dcn = <<>>
    /\ chosen = -1
    /\ sent = <<>>

\* check_user's success test; len(None) raises TypeError, so a Code 0
\* "Success" answer with null Data ends the process.
LoginOk(r)      == r.Code = 0 /\ r.Message = "Success" /\ r.Data # ""
LoginTypeError(r) == r.Code = 0 /\ r.Message = "Success" /\ r.Data = Null

\* Mutant of Login: self.token assigned the answer's Message on failure.
Login_tokenMessage ==
    /\ pc = "login"
    /\ \E r \in LoginAnswers :
          IF LoginTypeError(r) THEN pc' = "crashed" /\ UNCHANGED token
          ELSE /\ token' = IF LoginOk(r) THEN r.Data ELSE r.Message
               /\ pc' = "loop"
    /\ UNCHANGED <<flag, resource_name, subsystem, dcn, cmdb_string_table,
                   pod_list_all, pod_list_dcn, chosen, sent>>

\* input_user + check_user: a failed login only prints the message.
Login ==
    /\ pc = "login"
    /\ \E r \in LoginAnswers :
          IF LoginTypeError(r) THEN pc' = "crashed" /\ UNCHANGED token
          ELSE /\ token' = IF LoginOk(r) THEN r.Data ELSE token
               /\ pc' = "loop"
    /\ UNCHANGED <<flag, resource_name, subsystem, dcn, cmdb_string_table,
                   pod_list_all, pod_list_dcn, chosen, sent>>

\* Mutant of RunOnce: the command-line pod name used without k8s_pn.
RunOnce_noCanon ==
    /\ pc = "loop" /\ flag = "once"
    /\ Log("once", resource_name, NoRow)
    /\ flag' = "exit"
    /\ UNCHANGED <<pc, token, resource_name, subsystem, dcn, cmdb_string_table,
                   pod_list_all, pod_list_dcn, chosen>>

\* run_ssh_pod for flag "pod" or "once": a pod name is canonicalised and
\* kept in resource_name before the transport call.
SshTarget(r) == IF CT!is_podname(r) THEN CT!k8s_pn(r) ELSE r

\* flag "once": run_ssh_pod on the command-line target, then exit.
RunOnce ==
    /\ pc = "loop" /\ flag = "once"
    /\ resource_name' = SshTarget(resource_name)
    /\ Log("once", SshTarget(resource_name), NoRow)
    /\ flag' = "exit"
    /\ UNCHANGED <<pc, token, subsystem, dcn, cmdb_string_table,
                   pod_list_all, pod_list_dcn, chosen>>

Prompt == pc = "loop" /\ flag = "common"

\* "exit"
ChooseExit ==
    /\ Prompt
    /\ flag' = "exit"
    /\ UNCHANGED <<pc, token, resource_name, subsystem, dcn, cmdb_string_table,
                   pod_list_all, pod_list_dcn, chosen, sent>>

\* query_cmdb: only a result with Code 0 and data replaces the tables and
\* clears the dcn filter; otherwise "not found" and nothing changes.  A
\* raise in CmdbDocker.run (a null record field) ends the process.
query_cmdb(s) ==
    \E answer \in Answers(s) :
          LET result == CD!Run(<<"cmdb", s>>, answer)
          IN  IF result = CD!Raised
              THEN /\ pc' = "crashed"
                   /\ UNCHANGED <<cmdb_string_table, pod_list_all, pod_list_dcn, dcn>>
              ELSE /\ UNCHANGED pc
                   /\ IF result.Code = 0 /\ result.Data # Null
                      THEN /\ cmdb_string_table' = result.Data
                           /\ pod_list_all' = result.Data
                           /\ pod_list_dcn' = <<>>
                           /\ dcn' = ""
                      ELSE UNCHANGED <<cmdb_string_table, pod_list_all, pod_list_dcn, dcn>>

\* a subsystem name, then query_cmdb.
ChooseSubsys(s) ==
    /\ Prompt
    /\ CT!is_sysname(s)
    /\ subsystem' = s
    /\ query_cmdb(s)
    /\ UNCHANGED <<flag, token, resource_name, chosen, sent>>

\* Mutant of ChooseDcn: query_dcn forgets to reset self.dcn on no match.
ChooseDcn_keepDcn(d) ==
    /\ Prompt
    /\ pod_list_all # <<>>
    /\ dcn' = d
    /\ pod_list_dcn' = DcnRows(cmdb_string_table, d)
    /\ UNCHANGED <<pc, flag, token, resource_name, subsystem, cmdb_string_table,
                   pod_list_all, chosen, sent>>

\* query_dcn with self.dcn = d: no matching row clears the filter.
query_dcn(d) ==
    IF DcnRows(cmdb_string_table, d) = <<>>
    THEN dcn' = "" /\ pod_list_dcn' = <<>>
    ELSE dcn' = d  /\ pod_list_dcn' = DcnRows(cmdb_string_table, d)

\* "dcn" (accepted only once a table is loaded), then input_dcn + query_dcn.
ChooseDcn(d) ==
    /\ Prompt
    /\ pod_list_all # <<>>
    /\ query_dcn(d)
    /\ UNCHANGED <<pc, flag, token, resource_name, subsystem, cmdb_string_table,
                   pod_list_all, chosen, sent>>

\* A number the bound check accepts, then run_ssh_pod with flag "number".
\* The check's "input_cmd > 0" compares a str with an int, which Python 2
\* always finds true, so it admits every number.
NumberAccepted(n) ==
    \/ dcn = "" /\ Lines(pod_list_all) > n
    \/ dcn # "" /\ Lines(pod_list_dcn) >= n

\* get_pod_from_pod_list: line n of the shown table, field 2.
ChooseNumber(s) ==
    /\ Prompt
    /\ Len(sent) < MaxSessions
    /\ CT!IsDigitStr(s)
    /\ LET n == DigitVal[s[1][1]]
           v == Shown
       IN  /\ NumberAccepted(n)
           /\ chosen' = n
           /\ IF n > Len(v) \/ (n = 0 /\ v = <<>>)
              THEN pc' = "crashed" /\ UNCHANGED sent
              ELSE /\ IF n = 0 THEN Log("number", HeaderField, NoRow)
                               ELSE Log("number", CD!DisplayIp(v[n]), v[n])
                   /\ UNCHANGED pc
    /\ UNCHANGED <<flag, token, resource_name, subsystem, dcn, cmdb_string_table,
                   pod_list_all, pod_list_dcn>>

\* Mutant of ChoosePod: k8s_pn applied without the is_podname test.
ChoosePod_canonAll(r) ==
    /\ Prompt
    /\ Len(sent) < MaxSessions
    /\ ~CT!is_sysname(r) /\ ~CT!IsDigitStr(r)
    /\ CT!is_podname(r) \/ CT!is_ip(r)
    /\ resource_name' = CT!k8s_pn(r)
    /\ Log("pod", CT!k8s_pn(r), NoRow)
    /\ UNCHANGED <<pc, flag, token, subsystem, dcn, cmdb_string_table,
                   pod_list_all, pod_list_dcn, chosen>>

\* A pod name or ip, then run_ssh_pod with flag "pod": a pod name is
\* canonicalised (and kept) before the transport call.
ChoosePod(r) ==
    /\ Prompt
    /\ Len(sent) < MaxSessions
    /\ ~CT!is_sysname(r) /\ ~CT!IsDigitStr(r)
    /\ CT!is_podname(r) \/ CT!is_ip(r)
    /\ resource_name' = SshTarget(r)
    /\ Log("pod", SshTarget(r), NoRow)
    /\ UNCHANGED <<pc, flag, token, subsystem, dcn, cmdb_string_table,
                   pod_list_all, pod_list_dcn, chosen>>

\* run() returned (flag "exit") or the process died.
Terminated ==
    /\ flag = "exit" \/ pc = "crashed"
    /\ UNCHANGED vars

Next ==
    \/ Login
    \/ RunOnce
    \/ ChooseExit
    \/ \E s \in Subsystems : ChooseSubsys(s)
    \/ \E d \in DcnInputs : ChooseDcn(d)
    \/ \E s \in NumberInputs : ChooseNumber(s)
    \/ \E r \in PodInputs : ChoosePod(r)
    \/ Terminated

\* Login is the program's own step (one blocking HTTP call, which returns or
\* raises).  Every other step waits for the operator: the once-mode session
\* is an interactive ssh that returns only when the operator leaves it.
Spec == Init /\ [][Next]_vars /\ WF_vars(Login)
-----------------------------------------------------------------------------
(***************************************************************************)
(* Properties.                                                             *)
(***************************************************************************)
TypeOK ==
    /\ pc \in {"login", "loop", "crashed"}
    /\ flag \in {"common", "once", "exit"}
    /\ token \in {"", Token}
    /\ dcn \in DcnInputs \cup {""}
    /\ subsystem \in Subsystems \cup {CD!EmptyStr}
    /\ \A t \in {cmdb_string_table, pod_list_all, pod_list_dcn} :
          t \in Seq(Pods) /\ Len(t) <= Cardinality(Pods)
    /\ chosen \in {-1} \cup {DigitVal[a] : a \in CT!DigitAtoms}
    /\ Len(sent) <= MaxSessions
    /\ \A i \in 1..Len(sent) :
          /\ sent[i].via \in {"once", "pod", "number"}
          /\ sent[i].token \in {"", Token}
          /\ sent[i].row \in Pods \cup {NoRow}

(* The three views stay consistent across any sequence of subsystem       *)
(* queries (found or not) and dcn narrowings: pod_list_all is the indexed  *)
(* copy of cmdb_string_table, a dcn filter is set exactly when a filtered  *)
(* view exists, and that view is exactly the rows of the current full      *)
(* table whose Dcn column matches it.  input_common_command bounds a       *)
(* number by self.dcn while display_pod and run_ssh_pod pick the view by   *)
(* len(self.pod_list_dcn), so the two must never disagree.                 *)
ViewConsistent ==
    /\ pod_list_all = cmdb_string_table
    /\ (dcn = "") <=> (pod_list_dcn = <<>>)
    /\ dcn # "" => pod_list_dcn = DcnRows(cmdb_string_table, dcn)

(* A pod typed at the prompt or given on the command line reaches the     *)
(* transport, after run_ssh_pod's k8s_pn canonicalisation, still as a pod *)
(* name or a pod ip.                                                       *)
DirectTargetValid ==
    \A i \in 1..Len(sent) :
        sent[i].via \in {"once", "pod"} =>
            CT!is_podname(sent[i].target) \/ CT!is_ip(sent[i].target)

(* The refinement mapping onto the state table of spec 4.4: the login    *)
(* pass is Idle, flag "once" is OneShot, the prompt loop is Awaiting, and  *)
(* flag "exit" or a dead process is Exiting.  The command-line argument is *)
(* the seed until it is used or the prompt loop is entered.                *)
Session == INSTANCE SessionSpec WITH
    Seeds  <- InitialArgs,
    NoSeed <- <<>>,
    mode   <- CASE pc = "login"                      -> "Idle"
                [] pc = "crashed" \/ flag = "exit"   -> "Exiting"
                [] flag = "once"                     -> "OneShot"
                [] OTHER                             -> "Awaiting",
    seed   <- IF pc = "login" \/ (pc = "loop" /\ flag = "once")
              THEN resource_name ELSE <<>>,
    opened <- [i \in 1..Len(sent) |-> sent[i].target]

(* WcsSsh.run implements the state table of spec 4.4: nothing is opened   *)
(* before the login pass, "wcsctl ssh <pod>" opens one session on the     *)
(* canonical pod and exits, every prompt pass opens at most one session,  *)
(* and nothing follows exit.                                              *)
SessionRefines == Session!Spec

(* Spec 4.4: a numbered choice resolves to a concrete pod: the transport  *)
(* gets the pod ip of the chosen row, read back from the printed table     *)
(* by get_pod_from_pod_list, never a placeholder or a header word.         *)
NumberTargetIsPod ==
    \A i \in 1..Len(sent) : sent[i].row # NoRow => CT!is_ip(sent[i].target)

(* Spec 4.5 / 7: "wcsctl ssh <subsystem>" starts the interactive flow    *)
(* with that subsystem queried: after a well-formed login the argument     *)
(* becomes the subsystem of the first query.  Only a failed login, which   *)
(* leaves no token, excuses it (spec 7 ends the session there).            *)
SeedQueried ==
    \A s \in Subsystems :
        (pc = "login" /\ resource_name = s) ~>
            (subsystem = s \/ (pc = "loop" /\ token = ""))

(* Spec 4.4 / 7: a number outside the shown view (0 included: the number  *)
(* must be strictly positive) is ignored and prompted again, never used:   *)
(* an accepted number names a row of the view shown when it was typed.     *)
IndexWithinView ==
    [][\A s \in NumberInputs : ChooseNumber(s) => chosen' \in 1..Len(Shown)]_vars

(* Spec 7: an authentication failure ends the session, so no remote       *)
(* session is opened without a token.                                      *)
AuthFailureStops == \A i \in 1..Len(sent) : sent[i].token # ""

(* Spec 3 / 4.4: the pod table is rebuilt on every subsystem query and    *)
(* the dcn filter cleared, so a numbered choice opens a pod of the         *)
(* subsystem the operator named last.                                      *)
SelectionMatchesLastQuery ==
    [][/\ Len(sent') > Len(sent)
       /\ Last(sent').row # NoRow
       => subsystem \in Subsystems /\ Last(sent').row \in PodsOf[subsystem]]_vars
=============================================================================
