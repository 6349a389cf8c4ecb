----------------------------- MODULE MCDataText -----------------------------
(***************************************************************************)
(* Small regions of data for DataText: five or six bytes behind the start  *)
(* of their object, words and runs of two bytes, lines of three.  One set  *)
(* has every content over bytes of each kind, the other varies labels and  *)
(* relocations.                                                            *)
(***************************************************************************)
EXTENDS DataText

Start == 3

Last == 8

DataRegion(bytes, labels, fixups, end) ==
    [base |-> 2, start |-> Start, end |-> end, bytes |-> bytes, labels |-> labels,
     fixups |-> fixups]

\* A zero, a quote, a backslash, a `t', and the first byte behind the
\* characters.
SomeBytes == {0, 34, 92, 116, 127}

Contents ==
    {DataRegion(bytes, {}, {}, 8) : bytes \in [Start .. 7 -> SomeBytes]}

\* The relocated words point into the region or behind it, and where two
\* overlap to nowhere; not all of these addresses have labels.
Relocated(bytes, fixups) ==
    [a \in Start .. Last |->
        IF a - 2 \in fixups THEN (IF a % 2 = 0 THEN 20 ELSE 5)
        ELSE IF a - 3 \in fixups THEN 0 ELSE bytes[a]]

\* Zeros, tabulators and bytes that are no characters, repeated every four.
Patterns ==
    {[a \in Start .. Last |-> p[a % 4]] : p \in [0 .. 3 -> {0, 9, 128}]}

Pieces ==
    {DataRegion(Relocated(bytes, fixups), labels, fixups, end) :
      bytes \in Patterns,
      labels \in {{5, 20}, {20}, {3, 5, 8, 20}, {4, 5, 7, 9, 20}, {5, 6}},
      fixups \in {{}, {1}, {2, 4}, {3, 4}, {6}, {5, 7}},
      end \in {8, 9}}

MCDataRegions == Contents \cup Pieces

=============================================================================
