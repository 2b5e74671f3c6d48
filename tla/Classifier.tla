----------------------------- MODULE Classifier -----------------------------
(***************************************************************************)
(* The identifier grammar of commontool.py applied to one input string rn  *)
(* in one deployment environment env.  The environment is a state variable *)
(* here, so a single run covers UAT, SIT and PRD; the grammar is the       *)
(* CommonTool module with its Env parameter bound to env.                  *)
(***************************************************************************)
EXTENDS Naturals, Sequences, SequencesExt

CONSTANTS AtomLen, DigitVal, AlphaAtoms,
          Inputs      \* the strings to classify

VARIABLES env, rn
vars == <<env, rn>>

G == INSTANCE CommonTool WITH Env <- env

Init == env \in {"UAT", "SIT", "PRD"} /\ rn \in Inputs

\* Classification and canonicalisation have no effect on any state.
Classify == UNCHANGED vars

Spec == Init /\ [][Classify]_vars

-----------------------------------------------------------------------------
Kinds(s) ==
    {k \in {"SYSID", "SYSNAME", "IP", "PODNAME"} :
        \/ k = "SYSID"   /\ G!is_sysid(s)
        \/ k = "SYSNAME" /\ G!is_sysname(s)
        \/ k = "IP"      /\ G!is_ip(s)
        \/ k = "PODNAME" /\ G!is_podname(s)}

(* Spec 3 / 8: the four resource kinds are mutually exclusive, so the     *)
(* order in which cmdbdocker.analysis_resource_name and wcsssh's prompt    *)
(* test them never decides what an input means.                            *)
KindsExclusive == \A k1, k2 \in Kinds(rn) : k1 = k2

(* A pod name stays a pod name after k8s_pn, in every environment: the    *)
(* name the remote-session transport gets is one the grammar accepts.      *)
CanonicalKeepsKind == G!is_podname(rn) => G!is_podname(G!k8s_pn(rn))

(* Spec 8: canonicalising a canonicalised pod name is a no-op.             *)
CanonicalIdempotent ==
    G!is_podname(rn) => G!k8s_pn(G!k8s_pn(rn)) = G!k8s_pn(rn)
=============================================================================
