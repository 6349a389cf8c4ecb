-------------------------------- MODULE Dump --------------------------------
(***************************************************************************)
(* What the listing of a region of data promises, with no directives, no   *)
(* lines and no quotes: an assembler that reads what has been written so   *)
(* far has the first bytes of the region and the labels up to there, each  *)
(* at its byte.                                                            *)
(***************************************************************************)
EXTENDS Integers, Sequences

VARIABLES
    content,   \* the bytes of the region
    places,    \* where in it labels are, counted from zero
    dumped,    \* the bytes the assembler has
    defined    \* the labels the assembler has

dvars == <<content, places, dumped, defined>>

Init ==
    /\ content \in Seq(0 .. 255)
    /\ places \subseteq 0 .. Len(content) - 1
    /\ dumped = <<>>
    /\ defined = {}

\* A label is defined once, in front of its byte.
DefineLabel ==
    /\ Len(dumped) \in places \ defined
    /\ defined' = defined \cup {Len(dumped)}
    /\ UNCHANGED <<content, places, dumped>>

\* Some more bytes, none of which is behind a label still to be defined.
DumpBytes ==
    \E size \in 1 .. Len(content) - Len(dumped) :
        /\ \A p \in places : p < Len(dumped) + size => p \in defined
        /\ dumped' = dumped \o SubSeq(content, Len(dumped) + 1, Len(dumped) + size)
        /\ UNCHANGED <<content, places, defined>>

Next == DefineLabel \/ DumpBytes

Spec == Init /\ [][Next]_dvars

=============================================================================
