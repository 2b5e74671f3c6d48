---------------------------- MODULE MC_Classifier ----------------------------
(***************************************************************************)
(* Atoms: the empty word, digit words 0, 10 (ip octets), 300 (three       *)
(* digits, above 255) and 5036 (a subsystem id), the letters gns and the   *)
(* mixed zone word 1c2.  Inputs: every string of up to five one-atom       *)
(* parts, six-part strings (the production pod-name shape) over a smaller  *)
(* atom set, and one-part strings of up to four '.'-separated atoms.       *)
(***************************************************************************)
EXTENDS Classifier

MC_AtomLen ==
    [a \in {"", "0", "10", "300", "5036", "gns", "1c2"} |->
        CASE a = "" -> 0 [] a = "0" -> 1 [] a = "10" -> 2
          [] a \in {"300", "gns", "1c2"} -> 3 [] a = "5036" -> 4]
MC_DigitVal ==
    [a \in {"0", "10", "300", "5036"} |->
        CASE a = "0" -> 0 [] a = "10" -> 10 [] a = "300" -> 300 [] a = "5036" -> 5036]
MC_AlphaAtoms == {"gns"}

OneAtom(S) == {<<a>> : a \in S}
MC_Inputs ==
    (BoundedSeq(OneAtom(DOMAIN MC_AtomLen), 5) \ {<<>>})
    \cup [1..6 -> OneAtom({"0", "300", "gns", "1c2"})]
    \cup {<<p>> : p \in BoundedSeq(DOMAIN MC_AtomLen, 4) \ {<<>>}}
=============================================================================
