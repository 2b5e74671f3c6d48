----------------------------- MODULE SessionSpec -----------------------------
(***************************************************************************)
(* The session state table of spec 4.4, at the level of what the operator *)
(* sees: the mode the session is in and the remote sessions it has opened. *)
(*                                                                         *)
(*   Idle      authenticate, then OneShot when the command-line seed is a  *)
(*             pod name or ip, AwaitingCommand otherwise;                  *)
(*   OneShot   open exactly one session, on the canonical seed, and exit;  *)
(*   Awaiting  query, narrow (invisible here), open a session, or exit;    *)
(*   Exiting   final.                                                      *)
(*                                                                         *)
(* The process may be ended at any time (an operator interrupt, spec 5).   *)
(* The outcome of authentication is not part of this table: a failed      *)
(* login is checked on its own (AuthFailureStops in WcsSsh).               *)
(***************************************************************************)
EXTENDS Naturals, Sequences

CONSTANTS
    Env, AtomLen, DigitVal, AlphaAtoms,
    Seeds,      \* the wcsctl ssh arguments ("" when none)
    NoSeed      \* the seed once it has been used or dropped

VARIABLES mode, seed, opened
avars == <<mode, seed, opened>>

CT == INSTANCE CommonTool

IsTarget(r)  == ~CT!IsEmptyStr(r) /\ (CT!is_podname(r) \/ CT!is_ip(r))
Canonical(r) == IF CT!is_podname(r) THEN CT!k8s_pn(r) ELSE r

Init == mode = "Idle" /\ seed \in Seeds /\ opened = <<>>

Authenticate ==
    /\ mode = "Idle"
    /\ IF IsTarget(seed) THEN mode' = "OneShot" /\ UNCHANGED seed
       ELSE mode' = "Awaiting" /\ seed' = NoSeed
    /\ UNCHANGED opened

OneShotOpen ==
    /\ mode = "OneShot"
    /\ opened' = Append(opened, Canonical(seed))
    /\ mode' = "Exiting" /\ seed' = NoSeed

\* A numbered or a typed choice: one more session, on some target.
Open ==
    /\ mode = "Awaiting"
    /\ Len(opened') = Len(opened) + 1
    /\ SubSeq(opened', 1, Len(opened)) = opened
    /\ UNCHANGED <<mode, seed>>

Exit ==
    /\ mode \in {"Idle", "OneShot", "Awaiting"}
    /\ mode' = "Exiting" /\ seed' = NoSeed
    /\ UNCHANGED opened

Next == Authenticate \/ OneShotOpen \/ Open \/ Exit

\* Authentication needs no operator input; a session, the one-shot one
\* included, lasts as long as the operator keeps it open.
Spec == Init /\ [][Next]_avars /\ WF_avars(Authenticate)
=============================================================================
