------------------------------ MODULE CmdbQuery ------------------------------
(***************************************************************************)
(* One "wcsctl cmdb <resource> [dcn_list]" call: dockctl.cmdb hands       *)
(* argv[1:] to CmdbDocker.run, which sends one request to the backend and  *)
(* renders the answer; dockctl.cmdb then prints it.  The arguments and    *)
(* the backend's answer are chosen in Init; Execute is the whole call.     *)
(***************************************************************************)
EXTENDS Naturals, Sequences, SequencesExt, FiniteSets

CONSTANTS
    Env, AtomLen, DigitVal, AlphaAtoms, Pods, DcnOf, PodIpOf, RowRank, Null,
    Resources,     \* resource arguments (CommonTool strings)
    DcnArgs,       \* dcn_list arguments, each given as its split(",")
    NameRank,      \* [Pods -> Nat]: the subsystem name's place in ascending order
    ErrorMessages  \* the messages of the backend's nonzero-Code answers

VARIABLES
    entry,   \* the program run: "wcsctl" (dockctl.cmdb) or "cmdbdocker" (its __main__)
    args, answer, result, shown
vars == <<entry, args, answer, result, shown>>

CD == INSTANCE CmdbDocker

\* No call made yet.
Pending == [Code |-> -1, Message |-> "Unknown Error", Data |-> "Unknown Error"]
NotShown == [kind |-> "none"]

ArgLists ==
    {<<"cmdb">>}
    \cup {<<"cmdb", r>> : r \in Resources}
    \cup {<<"cmdb", r, d>> : r \in Resources, d \in DcnArgs}

\* The backend's JSON answer: an error, Code 0 with null data, or records.
Answers ==
    {[Code |-> 1, Message |-> m, Data |-> Null] : m \in ErrorMessages}
    \cup {[Code |-> 0, Message |-> "Success", Data |-> Null]}
    \cup {[Code |-> 0, Message |-> "Success", Data |-> SetToSeq(S)] :
            S \in SUBSET Pods \ {{}}}

\* Mutant of PrintResult: every Code 1 read as a parameter error.
PrintResult_anyCode1(res) ==
    CASE res = CD!Raised -> [kind |-> "crash"]
      [] res.Code = 1 -> IF res.Data = Null THEN [kind |-> "crash"] ELSE [kind |-> "usage"]
      [] res.Code # 0 -> [kind |-> "message", text |-> res.Message]
      [] OTHER        -> [kind |-> "table", rows |-> res.Data]

\* What dockctl.cmdb prints for a result: nothing if run() raised, the
\* usage text (.replace on a null Data raises), the message, or the rows.
PrintResult(res) ==
    CASE res = CD!Raised -> [kind |-> "crash"]
      [] res.Code = 1 /\ res.Message = "Parameter Error" ->
             IF res.Data = Null THEN [kind |-> "crash"] ELSE [kind |-> "usage"]
      [] res.Code # 0 -> [kind |-> "message", text |-> res.Message]
      [] OTHER        -> [kind |-> "table", rows |-> res.Data]

\* cmdbdocker's __main__: the same branches, the usage text printed as it is
\* (a null Data prints "None").
MainPrint(res) ==
    CASE res = CD!Raised -> [kind |-> "crash"]
      [] res.Code = 1 /\ res.Message = "Parameter Error" ->
             IF res.Data = Null THEN [kind |-> "message", text |-> "None"] ELSE [kind |-> "usage"]
      [] res.Code # 0 -> [kind |-> "message", text |-> res.Message]
      [] OTHER        -> [kind |-> "table", rows |-> res.Data]

Init ==
    /\ entry \in {"wcsctl", "cmdbdocker"}
    /\ args \in ArgLists /\ answer \in Answers /\ result = Pending /\ shown = NotShown

\* cmdb(al) / __main__: result = cd.run(argv), then the print.
Execute ==
    /\ result.Code = Pending.Code
    /\ result' = CD!Run(args, answer)
    /\ shown' = IF entry = "wcsctl" THEN PrintResult(result') ELSE MainPrint(result')
    /\ UNCHANGED <<entry, args, answer>>

Done == result.Code # Pending.Code /\ UNCHANGED vars

Next == Execute \/ Done

Spec == Init /\ [][Next]_vars /\ WF_vars(Execute)

-----------------------------------------------------------------------------
\* The call seen as spec 4.3 / 7 describe it.
Query == INSTANCE QuerySpec
    WITH ArgSet <- ArgLists, AnswerSet <- Answers, NotStarted <- NotShown

(* Spec 3, 4.2, 4.3, 7, 8 scenarios 4 and 6: every cmdb call, through     *)
(* wcsctl or the standalone cmdbdocker, shows the operator exactly what    *)
(* the query contract promises: usage for a bad resource or dcn token, a   *)
(* backend error's message verbatim, "not found" for null data, and       *)
(* otherwise the records whose real zone contains a token in any case,     *)
(* sorted by subsystem name with ties in backend order; a field sent as    *)
(* null is an absent value (spec 3).  It takes analysis_input, the backend *)
(* answer, generate_prettytable's placeholder fill, filter and sort, and   *)
(* the print branch of the entry point together.                           *)
QueryRefines == Query!Spec
=============================================================================
