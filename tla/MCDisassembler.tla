--------------------------- MODULE MCDisassembler ---------------------------
(***************************************************************************)
(* Instructions for the decoder, in an address space of 22 bits: three of  *)
(* the four bytes of a displacement count.                                 *)
(***************************************************************************)
EXTENDS Disassembler

Encoding(prefixes, opcode, operand) ==
    [prefixes |-> prefixes, opcode |-> opcode, operand |-> operand]

SomePrefixes == {<<>>, <<46>>, <<62>>, <<102>>, <<103>>}

Rel8 == {<<0>>, <<2>>, <<127>>, <<128>>, <<233>>, <<254>>}

Rel16 == {<<0, 0>>, <<5, 1>>, <<255, 127>>, <<254, 255>>, <<15, 232>>}

Rel32 == {<<0, 0, 0, 0>>, <<5, 1, 0, 0>>, <<128, 0, 0, 0>>, <<1, 2, 3, 0>>,
          <<254, 255, 255, 255>>, <<0, 254, 255, 255>>}

Short == {Encoding(p, <<op>>, d) :
            p \in SomePrefixes, op \in {112, 117, 127, 224, 226, 227, 235}, d \in Rel8}

\* 102 makes the displacement two bytes long.
Near == UNION {{Encoding(p, op, d) : d \in IF p = <<102>> THEN Rel16 ELSE Rel32} :
                 p \in SomePrefixes, op \in {<<232>>, <<233>>, <<15, 128>>, <<15, 143>>}}

\* Indirect jumps and calls, and the others of their opcode.
Indirect == {Encoding(p, <<255>>, <<r[1] + 8 * n>> \o r[2]) :
               p \in SomePrefixes, n \in 0 .. 6,
               r \in {<<0, <<>>>>, <<64, <<235>>>>, <<128, <<0, 1, 2, 3>>>>}}

Far == {Encoding(p, op, <<0, 1>> \o (IF p = <<102>> THEN <<>> ELSE <<2, 0>>) \o <<8, 0>>) :
          p \in SomePrefixes, op \in {<<154>>, <<234>>}}

\* Returns and instructions around the branches.
Others == {Encoding(p, e[1], e[2]) :
             p \in SomePrefixes,
             e \in {<<<<195>>, <<>>>>, <<<<203>>, <<>>>>, <<<<207>>, <<>>>>,
                    <<<<194>>, <<232, 0>>>>, <<<<202>>, <<0, 235>>>>,
                    <<<<144>>, <<>>>>, <<<<228>>, <<112>>>>, <<<<184>>, <<233, 0, 0, 0>>>>,
                    <<<<15, 175>>, <<195>>>>, <<<<15, 144>>, <<192>>>>,
                    <<<<128>>, <<15, 128>>>>}}

MCEncodings ==
    Short \cup Near \cup Indirect \cup Far \cup Others
    \cup {Encoding(p, <<>>, <<>>) : p \in SomePrefixes \ {<<>>}}

=============================================================================
