------------------------------ MODULE QuerySpec ------------------------------
(***************************************************************************)
(* What one "cmdb <resource> [dcn_list]" call promises the operator, from  *)
(* spec 3, 4.1-4.3 and 7, with no reference to how the code computes it:  *)
(*                                                                         *)
(*   ParamError   the resource has no kind (4.1), or a dcn token is not a *)
(*                1-3 character string (3, 4.2): the usage text;           *)
(*   BackendError a nonzero Code: the backend's message, verbatim;         *)
(*   NotFound     Code 0 with no data: an informational message;           *)
(*   PodTable     the records whose real zone contains some token, in any  *)
(*                letter case (all records when no list is given), sorted  *)
(*                by subsystem name, ties in the backend's order.          *)
(*                                                                         *)
(* The arguments and the backend's answer are fixed when the call starts;  *)
(* "shown" is what the operator is shown, once, and it is shown.           *)
(***************************************************************************)
EXTENDS Naturals, Sequences, SequencesExt, FiniteSets

CONSTANTS
    Env, AtomLen, DigitVal, AlphaAtoms, Pods, DcnOf, PodIpOf, RowRank, Null,
    NameRank,       \* [Pods -> Nat]: the subsystem name's place in ascending order
    ArgSet,         \* the argument lists a call may get
    AnswerSet,      \* the answers the backend may give
    NotStarted      \* "shown" before the call ends

VARIABLES args, answer, shown
qvars == <<args, answer, shown>>

\* The string primitives (upper-casing, substring) of the same alphabet.
CD == INSTANCE CmdbDocker
CT == INSTANCE CommonTool

HasKind(r) == CT!is_sysid(r) \/ CT!is_sysname(r) \/ CT!is_ip(r) \/ CT!is_podname(r)

IsDcnToken(t) == Len(t) \in 1..3

Tokens == IF Len(args) = 3 THEN {args[3][i] : i \in 1..Len(args[3])} ELSE {}

Valid ==
    /\ Len(args) \in {2, 3}
    /\ HasKind(args[2])
    /\ \A t \in Tokens : IsDcnToken(t)

\* A zone the backend sent as null is absent: no token is in it.
Zone(p) == IF DcnOf[p] = Null THEN "" ELSE DcnOf[p]

Retained(p) == Tokens = {} \/ \E t \in Tokens : CD!IsSubstring(CD!Upper(t), CD!Upper(Zone(p)))

\* Subsystem name first, then the position in the backend's answer.
Before(data, a, b) ==
    LET at(p) == CHOOSE i \in 1..Len(data) : data[i] = p
    IN  NameRank[a] < NameRank[b] \/ (NameRank[a] = NameRank[b] /\ at(a) < at(b))

Listing(data) ==
    SetToSortSeq({p \in ToSet(data) : Retained(p)}, LAMBDA a, b : Before(data, a, b))

Outcome ==
    CASE ~Valid             -> [kind |-> "usage"]
      [] answer.Code # 0    -> [kind |-> "message", text |-> answer.Message]
      [] answer.Data = Null -> [kind |-> "message", text |-> "No Container App Instance found"]
      [] OTHER              -> [kind |-> "table", rows |-> Listing(answer.Data)]

Init == args \in ArgSet /\ answer \in AnswerSet /\ shown = NotStarted

Query ==
    /\ shown = NotStarted
    /\ shown' = Outcome
    /\ UNCHANGED <<args, answer>>

\* A call is synchronous and always returns (spec 5).
Spec == Init /\ [][Query]_qvars /\ WF_qvars(Query)
=============================================================================
