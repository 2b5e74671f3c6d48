----------------------------- MODULE CmdbDocker -----------------------------
(***************************************************************************)
(* CmdbDocker.run of src/dockctl/cmdbdocker.py: classify the resource,     *)
(* normalise the dcn list, call the external "opsctl list" backend and     *)
(* turn its JSON answer into a table.  One call is one synchronous         *)
(* function of its arguments and of the backend's answer, so it is an      *)
(* operator, Run(args, response), used by the session (WcsSsh) and by the  *)
(* dispatcher.                                                             *)
(*                                                                         *)
(* A backend record is a pod p \in Pods; the fields the callers look at    *)
(* are DcnOf[p] (a string, "" when the backend left it blank) and          *)
(* PodIpOf[p] (a CommonTool string, "" when blank).  prettytable sorts the *)
(* rows by [SubSysName] + row, i.e. by SubSysName and then by the whole    *)
(* row; RowRank[p] is the position that comparison gives p.                *)
(***************************************************************************)
EXTENDS Naturals, Sequences, SequencesExt, FiniteSets

CONSTANTS
    Env, AtomLen, DigitVal, AlphaAtoms,
    Pods,         \* backend records
    DcnOf,        \* [Pods -> STRING]
    PodIpOf,      \* [Pods -> CommonTool strings]
    RowRank,      \* [Pods -> Nat], injective
    Null          \* JSON null (a model value): the 'Data' of an answer, or a
                  \* record field the backend sent as null

CT == INSTANCE CommonTool

\* The empty string, and the placeholder "-" ("-".split('-') = ['', '']).
EmptyStr    == <<<<"">>>>
Placeholder == <<<<"">>, <<"">>>>

\* for n in i: if len(i[n]) == 0: i[n] = '-'
DisplayDcn(p)  == IF DcnOf[p] = "" THEN "-" ELSE DcnOf[p]
DisplayIp(p)   == IF PodIpOf[p] = EmptyStr THEN Placeholder ELSE PodIpOf[p]

\* str.upper() of a dcn token; tokens are written over digits and c, d.
RECURSIVE Upper(_)
Upper(s) ==
    LET up == [c \in {"c", "d"} |-> IF c = "c" THEN "C" ELSE "D"]
        h  == SubSeq(s, 1, 1)
    IN  IF s = "" THEN ""
        ELSE (IF h \in DOMAIN up THEN up[h] ELSE h) \o Upper(SubSeq(s, 2, Len(s)))

\* Python's  d in s  for strings.
IsSubstring(d, s) ==
    \E i \in 1..(Len(s) + 1) : \E j \in (i - 1)..Len(s) : SubSeq(s, i, j) = d

\* len(i[n]) on a null field raises TypeError out of run(); the call has
\* no result, and this record stands for the raise.
HasNullField(p) == DcnOf[p] = Null \/ PodIpOf[p] = Null
Raised == [Code |-> -2, Message |-> "TypeError", Data |-> Null]

ParamError == [Code |-> 1, Message |-> "Parameter Error", Data |-> "usage"]

\* analysis_resource_name: the first test that holds names the type.
ResourceType(rn) ==
    CASE CT!is_sysid(rn)   -> "SYSID"
      [] CT!is_sysname(rn) -> "SYSNAME"
      [] CT!is_ip(rn)      -> "IP"
      [] CT!is_podname(rn) -> "PODNAME"
      [] OTHER             -> "ERROR"

\* analysis_dcn_list: a token longer than 3 characters is a Parameter Error;
\* the others are upper-cased.  The argument is given as its split(",").
DcnListOk(dcn_list) == \A i \in 1..Len(dcn_list) : Len(dcn_list[i]) <= 3
\* Mutant of NormDcnList: the tokens are not upper-cased.
NormDcnList_noUpper(dcn_list) == dcn_list

NormDcnList(dcn_list) == [i \in 1..Len(dcn_list) |-> Upper(dcn_list[i])]

\* analysis_input over args = <<prog, resource>> or <<prog, resource, dcns>>.
InputOk(args) ==
    /\ Len(args) \in {2, 3}
    /\ ResourceType(args[2]) # "ERROR"
    /\ Len(args) = 3 => DcnListOk(args[3])

DcnList(args) == IF Len(args) = 3 THEN NormDcnList(args[3]) ELSE <<>>

\* The row filter of generate_prettytable, on the placeholder-filled Dcn.
RowShown(p, dcn_list) ==
    dcn_list = <<>> \/ \E k \in 1..Len(dcn_list) : IsSubstring(dcn_list[k], DisplayDcn(p))

\* Mutant of SortRows: sortby not set.
SortRows_none(rows) == rows

\* table.sortby = 'SubSysName'
SortRows(rows) ==
    SetToSortSeq(ToSet(rows), LAMBDA a, b : RowRank[a] < RowRank[b])

\* Mutant of generate_prettytable: the null test made before the Code test.
generate_prettytable_nullFirst(response, dcn_list) ==
    IF response.Data = Null
    THEN [Code |-> 2, Message |-> "No Container App Instance found", Data |-> Null]
    ELSE IF response.Code # 0 THEN response
         ELSE IF \E i \in 1..Len(response.Data) : HasNullField(response.Data[i]) THEN Raised
         ELSE [response EXCEPT
                 !.Data = SortRows(SelectSeq(response.Data,
                                    LAMBDA p : RowShown(p, dcn_list)))]

generate_prettytable(response, dcn_list) ==
    IF response.Code # 0 THEN response
    ELSE IF response.Data = Null
         THEN [Code |-> 2, Message |-> "No Container App Instance found",
               Data |-> Null]
         ELSE IF \E i \in 1..Len(response.Data) : HasNullField(response.Data[i]) THEN Raised
         ELSE [response EXCEPT
                 !.Data = SortRows(SelectSeq(response.Data,
                                    LAMBDA p : RowShown(p, dcn_list)))]

\* run(args) given the backend's answer to the request it sends.
Run(args, response) ==
    IF ~InputOk(args) THEN ParamError
    ELSE generate_prettytable(response, DcnList(args))
=============================================================================
