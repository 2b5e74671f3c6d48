----------------------------- MODULE CommonTool -----------------------------
(***************************************************************************)
(* The resource-identifier grammar of src/dockctl/commontool.py:          *)
(* is_sysid, is_sysname, is_ip, isdcn, is_pod_set_id, is_podname and the   *)
(* canonicalisation k8s_pn / k8s_pn_1.                                     *)
(*                                                                         *)
(* Representation of a string.  Every predicate of commontool.py looks at  *)
(* a string only through rn.split('-'), rn.split('.'), len(), isdigit(),   *)
(* isalpha(), int() and the suffix '-0'.  A string is therefore modelled   *)
(* by its '-'-separated parts, and a part by its '.'-separated atoms:      *)
(*                                                                         *)
(*     "gns-query-10.1"   is   << <<"gns">>, <<"query">>, <<"10","1">> >>  *)
(*                                                                         *)
(* An atom is a separator-free word from the finite set Atoms; what the    *)
(* code asks of it (its length, whether it is all digits or all letters,   *)
(* its integer value) is given by the constants below.  The encoding is    *)
(* one-to-one, so split('-') is the outer sequence, split('.') of a        *)
(* dash-free part is the inner one, and "%s-%s" % (a, b) is concatenation  *)
(* of the outer sequences.                                                 *)
(***************************************************************************)
EXTENDS Naturals, Sequences, SequencesExt

CONSTANTS
    Env,          \* cf.get("common","env").upper(): "UAT", "SIT" or "PRD"
    AtomLen,      \* [Atoms -> Nat]: len() of each atom
    DigitVal,     \* [DigitAtoms -> Nat]: int() of each all-digit atom
    AlphaAtoms    \* the atoms for which str.isalpha() holds

Atoms      == DOMAIN AtomLen
DigitAtoms == DOMAIN DigitVal

\* The string of one dash-free part, i.e. temp[i] of rn.split('-').
Str(p) == <<p>>

\* len(rn): atom lengths plus one per '.' and one per '-'.
StrLen(s) ==
    LET PartLen(p) == FoldLeft(LAMBDA acc, a : acc + AtomLen[a], Len(p) - 1, p)
    IN  FoldLeft(LAMBDA acc, p : acc + PartLen(p), Len(s) - 1, s)

\* str.isdigit() / str.isalpha(): non-empty and every character a digit /
\* a letter; a '.' or a '-' is neither.
IsDigitStr(s) == Len(s) = 1 /\ Len(s[1]) = 1 /\ s[1][1] \in DigitAtoms
IsAlphaStr(s) == Len(s) = 1 /\ Len(s[1]) = 1 /\ s[1][1] \in AlphaAtoms

\* The empty string "" (one part holding the empty atom).
IsEmptyStr(s) == StrLen(s) = 0

\* "%s.%s.%s.%s" % (a, b, c, d) of four dash-free parts.
DotJoin(parts) == <<FlattenSeq(parts)>>

is_sysid(rn) == StrLen(rn) = 4 /\ IsDigitStr(rn)

\* Mutant of is_sysname: "at least two parts" instead of exactly two.
is_sysname_atLeastTwo(rn) ==
    /\ Len(rn) >= 2
    /\ ~IsEmptyStr(Str(rn[1])) /\ IsAlphaStr(Str(rn[1]))
    /\ ~IsEmptyStr(Str(rn[2]))

is_sysname(rn) ==
    /\ Len(rn) = 2
    /\ ~IsEmptyStr(Str(rn[1])) /\ IsAlphaStr(Str(rn[1]))
    /\ ~IsEmptyStr(Str(rn[2]))

\* rn.split('.') has four all-digit fields in 0..255.  A string with a '-'
\* has a '.'-field containing the '-', which is not a digit field.
is_ip(rn) ==
    /\ Len(rn) = 1
    /\ Len(rn[1]) = 4
    /\ \A i \in 1..4 : rn[1][i] \in DigitAtoms /\ DigitVal[rn[1][i]] <= 255

isdcn(rn) == StrLen(rn) = 3

\* Only called on a string of exactly four parts (temp[3] would raise
\* otherwise), which is how is_podname calls it.
is_pod_set_id(rn) ==
    /\ is_sysid(Str(rn[1]))
    /\ IsDigitStr(Str(rn[4]))
    /\ isdcn(Str(rn[3]))

NonProduction == Env \in {"UAT", "SIT"}

is_podname(rn) ==
    \/ Len(rn) = 4 /\ is_pod_set_id(SubSeq(rn, 1, 4))
    \/ /\ Len(rn) = 5 /\ rn[5] = <<"0">>
       /\ NonProduction
       /\ is_pod_set_id(SubSeq(rn, 1, 4))
    \/ NonProduction /\ Len(rn) > 2 /\ is_sysname(SubSeq(rn, 1, 2))
    \/ /\ Env = "PRD" /\ Len(rn) = 6
       /\ is_sysname(SubSeq(rn, 1, 2))
       /\ is_ip(DotJoin(SubSeq(rn, 3, 6)))

\* pn[-2:] == '-0'
EndsDashZero(pn) == Len(pn) >= 2 /\ pn[Len(pn)] = <<"0">>

\* "%s-0" % pn
AppendZero(pn) == Append(pn, <<"0">>)

\* Mutant of k8s_pn_1: the replica suffix added whatever the environment.
k8s_pn_1_anyEnv(pn) ==
    IF ~EndsDashZero(pn) THEN AppendZero(pn)
    ELSE IF Len(pn) = 6 /\ is_ip(DotJoin(SubSeq(pn, 3, 6)))
         THEN AppendZero(pn)
         ELSE pn

k8s_pn_1(pn) ==
    IF NonProduction
    THEN IF ~EndsDashZero(pn) THEN AppendZero(pn)
         ELSE IF Len(pn) = 6 /\ is_ip(DotJoin(SubSeq(pn, 3, 6)))
              THEN AppendZero(pn)
              ELSE pn
    ELSE pn

\* k8s_pn on a str; every caller passes a str.
k8s_pn(pn) == k8s_pn_1(pn)

=============================================================================
