------------------------------ MODULE ByteMap ------------------------------
(***************************************************************************)
(* What the analysis promises about the bytes of a program, with no region *)
(* map, no worklist and no labels: every byte has one kind at any time,    *)
(* and a step takes one run of bytes of one kind and gives it another.     *)
(* A byte that is code stays code; a vtable is only made of bytes nobody   *)
(* knew; data is only declared before the first code is found.             *)
(***************************************************************************)
EXTENDS Integers

CONSTANT AddrSpace   \* the number of addresses

VARIABLE kind        \* the kind of every mapped byte

Kinds == {"UNKNOWN", "CODE", "DATA", "VTABLE"}

Init ==
    /\ kind = [a \in DOMAIN kind |-> kind[a]]
    /\ DOMAIN kind \subseteq 0 .. AddrSpace - 1
    /\ \A a \in DOMAIN kind : kind[a] \in {"UNKNOWN", "DATA"}

Uniform(lo, hi, k) ==
    /\ lo <= hi
    /\ \A a \in lo .. hi : a \in DOMAIN kind /\ kind[a] = k

Reclassify(lo, hi, k) ==
    kind' = [a \in DOMAIN kind |-> IF a \in lo .. hi THEN k ELSE kind[a]]

FindCode(lo, hi) ==
    /\ \E k \in Kinds \ {"CODE"} : Uniform(lo, hi, k)
    /\ Reclassify(lo, hi, "CODE")

FindVtable(lo, hi) ==
    /\ Uniform(lo, hi, "UNKNOWN")
    /\ Reclassify(lo, hi, "VTABLE")

DeclareData(lo, hi) ==
    /\ \A a \in DOMAIN kind : kind[a] \in {"UNKNOWN", "DATA"}
    /\ \E k \in Kinds : Uniform(lo, hi, k)
    /\ Reclassify(lo, hi, "DATA")

Next ==
    \E lo, hi \in 0 .. AddrSpace - 1 :
        FindCode(lo, hi) \/ FindVtable(lo, hi) \/ DeclareData(lo, hi)

Spec == Init /\ [][Next]_kind

=============================================================================
