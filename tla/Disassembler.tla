---------------------------- MODULE Disassembler ----------------------------
(***************************************************************************)
(* disassemble and set_target_and_type (disassembler.cpp): libopcodes says *)
(* how long an instruction is, and the code classifies it by its bytes and *)
(* takes the target of a branch from them.                                 *)
(***************************************************************************)
EXTENDS Integers, Sequences, SequencesExt

CONSTANTS
    NULL,
    AddrSpace,   \* the number of addresses: 2^32 in the code
    Encodings,   \* the instructions that may be in the buffer
    Addresses    \* where they may be

(* An instruction as it is encoded:                                        *)
(*   prefixes      46 and 62 (branch hints), 102 and 103 (size of operand  *)
(*                 and address), in their order                            *)
(*   opcode        one byte, or 15 and a second one                        *)
(*   operand       what follows: a displacement, a ModRM byte, or nothing  *)

Byte == 0 .. 255

\* The prefixes of which one is passed over.
Skipped == {46, 62, 102, 103}

IsConditional(opcode) ==
    \/ Len(opcode) = 1 /\ opcode[1] \in 112 .. 127 \cup 224 .. 227
    \/ Len(opcode) = 2 /\ opcode[2] \in 128 .. 143

\* The operand is a displacement from the end of the instruction.
IsRelative(e) == IsConditional(e.opcode) \/ e.opcode \in {<<232>>, <<233>>, <<235>>}

\* One byte for a short branch; four for the others, or two behind 102.
DisplacementBytes(e) ==
    IF Len(e.opcode) = 1 /\ e.opcode[1] \notin {232, 233} THEN 1
    ELSE IF 102 \in ToSet(e.prefixes) THEN 2 ELSE 4

\* A prefix may also stand alone.  A ModRM byte follows 255.
IsEncoding(e) ==
    /\ e.prefixes \in Seq(Skipped)
    /\ \/ \E op \in Byte \ (Skipped \cup {15}) : e.opcode = <<op>>
       \/ \E op \in Byte : e.opcode = <<15, op>>
       \/ e.prefixes # <<>> /\ e.opcode = <<>> /\ e.operand = <<>>
    /\ e.operand \in Seq(Byte)
    /\ IsRelative(e) => Len(e.operand) = DisplacementBytes(e)
    /\ e.opcode = <<255>> => e.operand # <<>>

ASSUME AddrSpaceAssumption == AddrSpace \in Nat \ {0}
ASSUME AddressesAssumption == Addresses \subseteq 0 .. AddrSpace - 1
ASSUME EncodingsAssumption == \A e \in Encodings : IsEncoding(e)

VARIABLES
    code,     \* the instruction in the buffer
    addr,     \* its address
    length,   \* the bytes of the buffer
    inst      \* what is known of the instruction: NULL, then its size, then all

dvars == <<code, addr, length, inst>>

data == code.prefixes \o code.opcode \o code.operand

-----------------------------------------------------------------------------
(* libopcodes. *)

\* The operation a ModRM byte selects.
Operation(modrm) == (modrm \div 8) % 8

\* "jmp" is in the text of an indirect jump, near or far.
SaysJmp(e) == e.opcode = <<255>> /\ Operation(e.operand[1]) \in {4, 5}

\* An instruction that is not whole is a `.byte' or the name of a prefix.
print_insn ==
    /\ inst = NULL
    /\ inst' = IF Len(data) <= length
               THEN [size |-> Len(data), jmp |-> SaysJmp(code)]
               ELSE [size |-> 1, jmp |-> FALSE]
    /\ UNCHANGED <<code, addr, length>>

-----------------------------------------------------------------------------
(* set_target_and_type *)

\* A byte of the instruction, or zero behind it.
ByteAt(n) == IF inst.size >= n THEN data[n] ELSE 0

\* Where the opcode is looked for.
First == IF data[1] \in Skipped /\ inst.size > 1 THEN 2 ELSE 1

Type ==
    LET data0 == ByteAt(First)
        data1 == ByteAt(First + 1)
    IN  CASE \/ data0 = 15 /\ data1 \in 128 .. 143
             \/ data0 \in 112 .. 127 \cup 224 .. 227       -> "COND_JUMP"
          [] data0 \in {233, 234, 235}                     -> "JUMP"
          [] data0 = 232                                   -> "CALL"
          [] data0 \in {194, 195, 202, 203, 207}           -> "RET"
          [] data0 = 255 -> IF inst.jmp THEN "JUMP" ELSE "CALL"
          [] OTHER -> "MISC"

HasTarget == ByteAt(First) # 255 /\ Type \in {"COND_JUMP", "JUMP", "CALL"}

read_s8(byte) == IF byte >= 128 THEN byte - 256 ELSE byte

read_le(bytes) == FoldRight(LAMBDA byte, value : (value * 256 + byte) % AddrSpace, bytes, 0)

\* The last bytes of the instruction.
LastBytes(n) == SubSeq(data, inst.size - n + 1, inst.size)

\* Fault: a displacement of four bytes needs more than five.
Displacement_Five ==
    IF inst.size <= 5 THEN read_s8(data[inst.size]) ELSE read_le(LastBytes(4))

\* By the size of the instruction alone.
Displacement ==
    IF inst.size < 5 THEN read_s8(data[inst.size]) ELSE read_le(LastBytes(4))

set_target_and_type ==
    /\ inst # NULL /\ "type" \notin DOMAIN inst
    /\ inst' = [size |-> inst.size, type |-> Type,
                target |-> IF HasTarget
                           THEN (addr + inst.size + Displacement) % AddrSpace ELSE 0]
    /\ UNCHANGED <<code, addr, length>>

DecoderInit ==
    /\ code \in Encodings
    /\ addr \in Addresses
    /\ length \in 1 .. Len(data)
    /\ inst = NULL

disassemble == print_insn \/ set_target_and_type

DecoderSpec == DecoderInit /\ [][disassemble]_dvars

-----------------------------------------------------------------------------
(* What the encoding means, whatever bytes it is made of. *)

Meaning(e) ==
    CASE IsConditional(e.opcode) -> "COND_JUMP"
      [] e.opcode \in {<<233>>, <<234>>, <<235>>} -> "JUMP"
      [] e.opcode \in {<<154>>, <<232>>} -> "CALL"
      [] e.opcode \in {<<194>>, <<195>>, <<202>>, <<203>>, <<207>>} -> "RET"
      [] e.opcode = <<255>> /\ Operation(e.operand[1]) \in {2, 3} -> "CALL"
      [] e.opcode = <<255>> /\ Operation(e.operand[1]) \in {4, 5} -> "JUMP"
      [] OTHER -> "MISC"

SignedValue(bytes) ==
    CASE Len(bytes) = 1 -> read_s8(bytes[1])
      [] Len(bytes) = 2 -> bytes[1] + 256 * read_s8(bytes[2])
      [] OTHER -> read_le(bytes)

MeantTarget ==
    IF IsRelative(code)
    THEN (addr + Len(data) + SignedValue(code.operand)) % AddrSpace ELSE 0

Meant == [size |-> Len(data), type |-> Meaning(code), target |-> MeantTarget]

-----------------------------------------------------------------------------
(* The decoder of Analyser. *)

\* Where a branch goes of which only the first byte was read, and taken for
\* its displacement: from 32 bytes in front of its end to 127 behind it.
Stray ==
    {(addr + 1 + read_s8(b)) % AddrSpace : b \in 112 .. 127 \cup 224 .. 227 \cup 232 .. 235}

\* Analyser with this instruction at this address.
A == INSTANCE Analyser WITH
        WordSize <- 4, Executables <- {},
        exe <- [text |-> [a \in {addr} |-> {Meant}], stray |-> Stray],
        regions <- <<>>, labels <- <<>>, code_trace_queue <- <<>>,
        phase <- "entry", pc <- "decode", sites <- {}, trace <- NULL,
        scan <- NULL, traced <- <<>>

\* A trace makes the same of both: it goes as far, ends or goes on, and gets
\* the same label and address to trace.
SameTrace(x, y) ==
    /\ x.size = y.size
    /\ A!EndsTrace(x) = A!EndsTrace(y)
    /\ A!HasTarget(x) = A!HasTarget(y)
    /\ A!HasTarget(x) => x.target = y.target /\ A!TargetLabel(x) = A!TargetLabel(y)

-----------------------------------------------------------------------------
(* Properties. *)

IsDecoded == inst # NULL /\ "type" \in DOMAIN inst

\* Only one prefix is passed over, far jumps are read like near ones, and a
\* displacement of two bytes is the subject of Rel16Decoded.  A target of zero
\* is none to the analyser.
IsPlain ==
    /\ Len(code.prefixes) <= 1
    /\ code.opcode # <<234>>
    /\ IsRelative(code) => code.prefixes # <<102>> /\ MeantTarget # 0

\* Classified by a few of its bytes, an instruction is to a trace what it
\* means, in whatever number of bytes the displacement and behind whatever
\* prefix; or, if it is cut by the end of the buffer, what Analyser takes into
\* account for it.
DecodedForAnalyser ==
    IsDecoded /\ IsPlain =>
        \E x \in A!disassemble(addr, length) : SameTrace(inst, x)

\* "Jxx rel16/32 (jump near conditional)", "JMP rel16/rel32 (jump near)"
\* (disassembler.cpp:165, 170): a jump with a displacement of two bytes goes
\* where the displacement says.
Rel16Decoded ==
    /\ IsDecoded /\ inst.size = Len(data)
    /\ Len(code.operand) = 2 /\ IsRelative(code) /\ Meaning(code) # "CALL"
    => inst.target \in {MeantTarget, MeantTarget % 2^16}

=============================================================================
