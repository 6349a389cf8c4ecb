------------------------- MODULE Disassembler_proofs -------------------------
(***************************************************************************)
(* What the classification of an instruction by a few of its bytes makes   *)
(* of every instruction with at most one prefix.                           *)
(***************************************************************************)
EXTENDS Disassembler, TLAPS

-----------------------------------------------------------------------------
(* The bytes of an instruction. *)

LEMMA Joined ==
    ASSUME NEW S, NEW a \in Seq(S), NEW b \in Seq(S), NEW c \in Seq(S)
    PROVE  /\ a \o b \o c \in Seq(S)
           /\ Len(a \o b \o c) = Len(a) + Len(b) + Len(c)
           /\ \A n \in 1 .. Len(a) : (a \o b \o c)[n] = a[n]
           /\ \A n \in 1 .. Len(b) : (a \o b \o c)[Len(a) + n] = b[n]
           /\ \A n \in 1 .. Len(c) : (a \o b \o c)[Len(a) + Len(b) + n] = c[n]
<1>1. a \o b \in Seq(S) /\ Len(a \o b) = Len(a) + Len(b)
  OBVIOUS
<1>2. /\ \A n \in 1 .. Len(a) : (a \o b)[n] = a[n]
      /\ \A n \in 1 .. Len(b) : (a \o b)[Len(a) + n] = b[n]
  OBVIOUS
<1>3. a \o b \o c = (a \o b) \o c
  OBVIOUS
<1>4. /\ (a \o b) \o c \in Seq(S)
      /\ Len((a \o b) \o c) = Len(a \o b) + Len(c)
      /\ \A n \in 1 .. Len(a \o b) : ((a \o b) \o c)[n] = (a \o b)[n]
      /\ \A n \in 1 .. Len(c) : ((a \o b) \o c)[Len(a \o b) + n] = c[n]
  BY <1>1
<1> QED
  BY <1>1, <1>2, <1>3, <1>4

\* The last bytes are the operand.
LEMMA OperandLast ==
    ASSUME NEW S, NEW a \in Seq(S), NEW c \in Seq(S), NEW n, n = Len(a \o c)
    PROVE  SubSeq(a \o c, n - Len(c) + 1, n) = c
<1> DEFINE d == a \o c
<1>1. /\ d \in Seq(S) /\ Len(d) = Len(a) + Len(c) /\ Len(a) \in Nat /\ Len(c) \in Nat
      /\ \A k \in 1 .. Len(c) : d[Len(a) + k] = c[k]
  OBVIOUS
<1> HIDE DEF d
<1>2. n = Len(a) + Len(c) /\ n - Len(c) + 1 = Len(a) + 1
  BY <1>1 DEF d
<1>3. /\ SubSeq(d, Len(a) + 1, n) \in Seq(S)
      /\ Len(SubSeq(d, Len(a) + 1, n)) = Len(c)
      /\ \A k \in 1 .. Len(c) : SubSeq(d, Len(a) + 1, n)[k] = d[Len(a) + k]
  BY <1>1, <1>2
<1>4. SubSeq(d, Len(a) + 1, n) = c
  BY <1>1, <1>3
<1> QED
  BY <1>2, <1>4 DEF d

\* A call without a target is to a trace as an instruction of no interest.
LEMMA TraceSame ==
    ASSUME NEW x, NEW y, x.size = y.size, x.target = y.target,
           \/ x.type = y.type
           \/ x.target = 0 /\ x.type \in {"MISC", "CALL"} /\ y.type \in {"MISC", "CALL"}
    PROVE  SameTrace(x, y)
<1>1. A!EndsTrace(x) <=> A!EndsTrace(y)
  BY DEF A!EndsTrace
<1>2. A!HasTarget(x) <=> A!HasTarget(y)
  BY DEF A!HasTarget
<1>3. A!HasTarget(x) => A!TargetLabel(x) = A!TargetLabel(y)
  <2>1. A!HasTarget(x) => x.type = y.type
    BY DEF A!HasTarget
  <2> QED
    BY <2>1 DEF A!TargetLabel
<1>4. A!EndsTrace(x) \in BOOLEAN /\ A!EndsTrace(y) \in BOOLEAN
  BY DEF A!EndsTrace
<1>5. A!HasTarget(x) \in BOOLEAN /\ A!HasTarget(y) \in BOOLEAN
  BY DEF A!HasTarget
<1> QED
  BY <1>1, <1>2, <1>3, <1>4, <1>5, Zenon DEF SameTrace

LEMMA Decodes ==
    ASSUME NEW x, NEW whole, whole = Meant,
           \/ whole.size <= length /\ x = whole
           \/ ~ (whole.size <= length) /\ x \in A!Truncated(whole)
    PROVE  x \in A!disassemble(addr, length)
<1> DEFINE read(i) == IF i.size <= length THEN {i} ELSE A!Truncated(i)
<1>1. x \in read(whole)
  OBVIOUS
<1>2. A!disassemble(addr, length) = UNION {read(i) : i \in {whole}}
  BY DEF A!disassemble
<1> HIDE DEF read
<1> QED
  BY <1>1, <1>2

LEMMA CodeBytes ==
    ASSUME IsEncoding(code)
    PROVE  /\ code.prefixes \in Seq(Byte) /\ code.opcode \in Seq(Byte)
           /\ code.operand \in Seq(Byte) /\ data \in Seq(Byte)
           /\ Len(data) = Len(code.prefixes) + Len(code.opcode) + Len(code.operand)
           /\ \A n \in 1 .. Len(code.prefixes) :
                data[n] = code.prefixes[n] /\ data[n] \in Skipped
           /\ \A n \in 1 .. Len(code.opcode) :
                data[Len(code.prefixes) + n] = code.opcode[n]
           /\ \A n \in 1 .. Len(code.operand) :
                data[Len(code.prefixes) + Len(code.opcode) + n] = code.operand[n]
           /\ Len(data) > 0
           /\ {Len(code.prefixes), Len(code.opcode), Len(code.operand)} \subseteq Nat
<1>1. PICK a, b, c : a = code.prefixes /\ b = code.opcode /\ c = code.operand
  OBVIOUS
<1>2. a \in Seq(Skipped) /\ c \in Seq(Byte)
  BY <1>1 DEF IsEncoding
<1>3. b \in Seq(Byte) /\ (Len(b) > 0 \/ Len(a) > 0)
  <2>1. CASE \E op \in Byte \ (Skipped \cup {15}) : b = <<op>>
    BY <2>1
  <2>2. CASE \E op \in Byte : b = <<15, op>>
    <3>1. 15 \in Byte
      BY DEF Byte
    <3> QED
      BY <2>2, <3>1
  <2>3. CASE a # <<>> /\ b = <<>>
    BY <1>2, <2>3
  <2> QED
    BY <1>1, <2>1, <2>2, <2>3 DEF IsEncoding
<1>4. a \in Seq(Byte) /\ \A n \in 1 .. Len(a) : a[n] \in Skipped
  <2>1. Skipped \subseteq Byte
    BY DEF Skipped, Byte
  <2> QED
    BY <1>2, <2>1
<1>5. data = a \o b \o c
  BY <1>1 DEF data
<1>6. PICK d : d = a \o b \o c
  OBVIOUS
<1>7. /\ d \in Seq(Byte)
      /\ Len(d) = Len(a) + Len(b) + Len(c)
      /\ \A n \in 1 .. Len(a) : d[n] = a[n]
      /\ \A n \in 1 .. Len(b) : d[Len(a) + n] = b[n]
      /\ \A n \in 1 .. Len(c) : d[Len(a) + Len(b) + n] = c[n]
  BY <1>2, <1>3, <1>4, <1>6, Joined
<1>8. {Len(a), Len(b), Len(c)} \subseteq Nat
  BY <1>2, <1>3
<1>9. Len(d) > 0
  BY <1>3, <1>7, <1>8
<1>10. \A n \in 1 .. Len(a) : d[n] = a[n] /\ d[n] \in Skipped
  BY <1>4, <1>7
<1>11. data = d
  BY <1>5, <1>6
<1> QED
  BY <1>1, <1>2, <1>3, <1>4, <1>7, <1>8, <1>9, <1>10, <1>11

-----------------------------------------------------------------------------
(* An instruction that is whole. *)

IsWhole == inst = [size |-> Len(data), jmp |-> SaysJmp(code)]

\* The opcode is found behind no prefix or one.
LEMMA OpcodeFound ==
    ASSUME IsEncoding(code), Len(code.prefixes) <= 1, IsWhole
    PROVE  /\ \A op \in Byte \ (Skipped \cup {15}) :
                code.opcode = <<op>> => ByteAt(First) = op
           /\ \A op \in Byte :
                code.opcode = <<15, op>> => ByteAt(First) = 15 /\ ByteAt(First + 1) = op
           /\ code.opcode = <<>> => ByteAt(First) \in Skipped
<1>1. PICK p, q, r, b, d :
        /\ p = Len(code.prefixes) /\ q = Len(code.opcode) /\ r = Len(code.operand)
        /\ b = code.opcode /\ d = data
  OBVIOUS
<1>2. /\ Len(d) = p + q + r /\ p \in {0, 1} /\ q \in Nat /\ r \in Nat
      /\ \A n \in 1 .. p : d[n] \in Skipped
      /\ \A n \in 1 .. q : d[p + n] = b[n]
      /\ q = Len(b) /\ Len(d) > 0
  <2>1. p \in Nat /\ p <= 1 /\ q \in Nat /\ r \in Nat
    BY <1>1, CodeBytes
  <2>2. p \in {0, 1}
    BY <2>1
  <2>3. \A n \in 1 .. p : d[n] \in Skipped
    BY <1>1, CodeBytes
  <2>4. \A n \in 1 .. q : d[p + n] = b[n]
    BY <1>1, CodeBytes
  <2>5. Len(d) = p + q + r /\ Len(d) > 0 /\ q = Len(b)
    BY <1>1, CodeBytes
  <2> QED
    BY <2>1, <2>2, <2>3, <2>4, <2>5
<1>3. inst.size = Len(d)
  BY <1>1 DEF IsWhole
<1>4. First = IF d[1] \in Skipped /\ Len(d) > 1 THEN 2 ELSE 1
  BY <1>1, <1>3 DEF First
<1>5. \A n : ByteAt(n) = IF Len(d) >= n THEN d[n] ELSE 0
  BY <1>1, <1>3 DEF ByteAt
<1>6. ASSUME NEW op \in Byte \ (Skipped \cup {15}), code.opcode = <<op>>
      PROVE  ByteAt(First) = op
  <2>1. q = 1 /\ b[1] = op
    BY <1>1, <1>2, <1>6
  <2>2. d[p + 1] = op /\ Len(d) >= p + 1
    BY <1>2, <2>1
  <2>3. p = 1 => d[1] \in Skipped
    BY <1>2
  <2>4. p = 0 => d[1] \notin Skipped
    BY <2>2
  <2>5. First = p + 1
    BY <1>2, <1>4, <2>2, <2>3, <2>4
  <2> QED
    BY <1>5, <2>2, <2>5
<1>7. ASSUME NEW op \in Byte, code.opcode = <<15, op>>
      PROVE  ByteAt(First) = 15 /\ ByteAt(First + 1) = op
  <2>1. q = 2 /\ b[1] = 15 /\ b[2] = op
    BY <1>1, <1>2, <1>7
  <2>2. d[p + 1] = 15 /\ d[p + 2] = op /\ Len(d) >= p + 2
    BY <1>2, <2>1
  <2>3. p = 1 => d[1] \in Skipped
    BY <1>2
  <2>4. p = 0 => d[1] \notin Skipped
    BY <2>2 DEF Skipped
  <2>5. First = p + 1 /\ Len(d) >= p + 1 /\ p + 1 + 1 = p + 2
    BY <1>2, <1>4, <2>2, <2>3, <2>4
  <2> QED
    BY <1>5, <2>2, <2>5
<1>8. ASSUME code.opcode = <<>> PROVE ByteAt(First) \in Skipped
  <2>1. q = 0 /\ r = 0
    BY <1>1, <1>8 DEF IsEncoding
  <2>2. Len(d) = 1 /\ d[1] \in Skipped
    BY <1>2, <2>1
  <2> QED
    BY <1>4, <1>5, <2>2
<1> QED
  BY <1>6, <1>7, <1>8

\* The size tells displacements of one byte from those of four.
LEMMA DisplacementRead ==
    ASSUME IsEncoding(code), IsPlain, IsWhole, IsRelative(code)
    PROVE  Displacement = SignedValue(code.operand)
<1>1. PICK a, b, c, d :
        a = code.prefixes /\ b = code.opcode /\ c = code.operand /\ d = data
  OBVIOUS
<1>2. /\ a \in Seq(Byte) /\ b \in Seq(Byte) /\ c \in Seq(Byte)
      /\ Len(d) = Len(a) + Len(b) + Len(c)
      /\ \A n \in 1 .. Len(c) : d[Len(a) + Len(b) + n] = c[n]
      /\ Len(a) \in {0, 1} /\ Len(b) \in Nat
  <2>1. /\ a \in Seq(Byte) /\ b \in Seq(Byte) /\ c \in Seq(Byte)
        /\ Len(d) = Len(a) + Len(b) + Len(c)
        /\ \A n \in 1 .. Len(c) : d[Len(a) + Len(b) + n] = c[n]
    BY <1>1, CodeBytes
  <2>2. Len(a) \in Nat /\ Len(b) \in Nat /\ Len(a) <= 1
    BY <1>1, <2>1 DEF IsPlain
  <2>3. PICK p \in Nat : p = Len(a)
    BY <2>2
  <2>4. p \in {0, 1}
    BY <2>2, <2>3
  <2> QED
    BY <2>1, <2>2, <2>3, <2>4
<1>3. d = (a \o b) \o c /\ a \o b \in Seq(Byte)
  BY <1>1, <1>2 DEF data
<1>4. 102 \notin ToSet(a)
  <2>1. a # <<102>>
    BY <1>1 DEF IsPlain
  <2>2. \A n \in 1 .. Len(a) : n = 1 /\ Len(a) = 1
    <3>1. PICK p \in {0, 1} : p = Len(a)
      BY <1>2
    <3> QED
      BY <3>1
  <2>3. ASSUME NEW n \in 1 .. Len(a), a[n] = 102 PROVE FALSE
    <3>1. Len(a) = 1 /\ a[1] = 102
      BY <2>2, <2>3
    <3>2. a = <<102>>
      BY <1>2, <3>1
    <3> QED
      BY <2>1, <3>2
  <2>4. DOMAIN a = 1 .. Len(a)
    BY <1>2
  <2> QED
    BY <2>3, <2>4 DEF ToSet
<1>5. /\ Len(b) \in {1, 2}
      /\ Len(c) = IF Len(b) = 1 /\ b[1] \notin {232, 233} THEN 1 ELSE 4
  BY <1>1, <1>4 DEF IsEncoding, IsRelative, IsConditional, DisplacementBytes
<1>6. inst.size = Len(d) /\ data = d
  BY <1>1 DEF IsWhole
<1>7. CASE Len(c) = 1
  <2>1. Len(b) = 1
    BY <1>5, <1>7
  <2>2. Len(d) < 5 /\ d[Len(d)] = c[1]
    <3>1. PICK p \in {0, 1} : p = Len(a)
      BY <1>2
    <3>2. Len(d) = p + 2
      BY <1>2, <1>7, <2>1, <3>1
    <3>3. d[p + 1 + 1] = c[1]
      BY <1>2, <1>7, <2>1, <3>1
    <3>4. p + 1 + 1 = p + 2 /\ p + 2 < 5
      OBVIOUS
    <3> QED
      BY <3>2, <3>3, <3>4
  <2> QED
    BY <1>1, <1>6, <1>7, <2>2 DEF Displacement, SignedValue
<1>8. CASE Len(c) = 4
  <2>1. Len(d) >= 5 /\ Len(d) \in Nat
    <3>1. PICK p \in {0, 1}, q \in {1, 2} : p = Len(a) /\ q = Len(b)
      BY <1>2, <1>5
    <3>2. Len(d) = p + q + 4
      BY <1>2, <1>8, <3>1
    <3> QED
      BY <3>1, <3>2
  <2>2. LastBytes(4) = c
    <3>1. PICK e \in Seq(Byte) : e = a \o b
      BY <1>3
    <3>2. d = e \o c
      BY <1>3, <3>1
    <3>3. SubSeq(d, Len(d) - Len(c) + 1, Len(d)) = c
      BY <1>2, <3>1, <3>2, OperandLast
    <3> QED
      BY <1>6, <1>8, <3>3 DEF LastBytes
  <2> QED
    BY <1>1, <1>6, <1>8, <2>1, <2>2 DEF Displacement, SignedValue
<1> QED
  BY <1>5, <1>7, <1>8

\* What an opcode of one byte means.
LEMMA OneByte ==
    ASSUME NEW op \in Byte \ (Skipped \cup {15}), code.opcode = <<op>>,
           IsPlain, NEW n, n = Operation(code.operand[1])
    PROVE  /\ op \in Nat /\ op # 15 /\ op # 234
           /\ IsConditional(code.opcode) <=> op \in 112 .. 127 \cup 224 .. 227
           /\ IsRelative(code) <=> op \in 112 .. 127 \cup 224 .. 227 \cup {232, 233, 235}
           /\ Meaning(code) =
                CASE op \in 112 .. 127 \cup 224 .. 227 -> "COND_JUMP"
                  [] op \in {233, 234, 235} -> "JUMP"
                  [] op \in {154, 232} -> "CALL"
                  [] op \in {194, 195, 202, 203, 207} -> "RET"
                  [] op = 255 /\ n \in {2, 3} -> "CALL"
                  [] op = 255 /\ n \in {4, 5} -> "JUMP"
                  [] OTHER -> "MISC"
<1>1. PICK b : b = code.opcode
  OBVIOUS
<1>2. /\ IsRelative(code) <=> IsConditional(b) \/ b \in {<<232>>, <<233>>, <<235>>}
      /\ Meaning(code) =
            CASE IsConditional(b) -> "COND_JUMP"
              [] b \in {<<233>>, <<234>>, <<235>>} -> "JUMP"
              [] b \in {<<154>>, <<232>>} -> "CALL"
              [] b \in {<<194>>, <<195>>, <<202>>, <<203>>, <<207>>} -> "RET"
              [] b = <<255>> /\ n \in {2, 3} -> "CALL"
              [] b = <<255>> /\ n \in {4, 5} -> "JUMP"
              [] OTHER -> "MISC"
  BY <1>1 DEF IsRelative, Meaning
<1>3. b = <<op>> /\ b # <<234>>
  BY <1>1 DEF IsPlain
<1>4. op \in Nat /\ op # 15 /\ op # 234
  BY <1>3 DEF Byte
<1>5. IsConditional(b) <=> op \in 112 .. 127 \cup 224 .. 227
  BY <1>3 DEF IsConditional
<1>6. \A k \in Nat : b = <<k>> <=> op = k
  BY <1>3
<1>7. /\ IsRelative(code) <=> IsConditional(b) \/ op \in {232, 233, 235}
      /\ Meaning(code) =
            CASE IsConditional(b) -> "COND_JUMP"
              [] op \in {233, 234, 235} -> "JUMP"
              [] op \in {154, 232} -> "CALL"
              [] op \in {194, 195, 202, 203, 207} -> "RET"
              [] op = 255 /\ n \in {2, 3} -> "CALL"
              [] op = 255 /\ n \in {4, 5} -> "JUMP"
              [] OTHER -> "MISC"
  BY <1>2, <1>6
<1>8. IsConditional(code.opcode) <=> op \in 112 .. 127 \cup 224 .. 227
  BY <1>1, <1>5
<1>9. IsRelative(code) <=> op \in 112 .. 127 \cup 224 .. 227 \cup {232, 233, 235}
  BY <1>5, <1>7
<1>10. Meaning(code) =
          CASE op \in 112 .. 127 \cup 224 .. 227 -> "COND_JUMP"
            [] op \in {233, 234, 235} -> "JUMP"
            [] op \in {154, 232} -> "CALL"
            [] op \in {194, 195, 202, 203, 207} -> "RET"
            [] op = 255 /\ n \in {2, 3} -> "CALL"
            [] op = 255 /\ n \in {4, 5} -> "JUMP"
            [] OTHER -> "MISC"
  BY <1>5, <1>7
<1> QED
  BY <1>4, <1>8, <1>9, <1>10

\* The opcode alone tells what a whole instruction is, but for indirect and
\* far calls, which have no target, and what else begins with 255.
LEMMA WholeType ==
    ASSUME IsEncoding(code), IsPlain, IsWhole
    PROVE  /\ HasTarget <=> IsRelative(code)
           /\ \/ Type = Meaning(code)
              \/ /\ ~ IsRelative(code)
                 /\ Type \in {"MISC", "CALL"} /\ Meaning(code) \in {"MISC", "CALL"}
<1>1. PICK b : b = code.opcode
  OBVIOUS
<1>2. PICK data0, data1 : data0 = ByteAt(First) /\ data1 = ByteAt(First + 1)
  OBVIOUS
<1>3. Len(code.prefixes) <= 1 /\ b # <<234>>
  BY <1>1 DEF IsPlain
<1>4. Type =
        CASE \/ data0 = 15 /\ data1 \in 128 .. 143
             \/ data0 \in 112 .. 127 \cup 224 .. 227       -> "COND_JUMP"
          [] data0 \in {233, 234, 235}                     -> "JUMP"
          [] data0 = 232                                   -> "CALL"
          [] data0 \in {194, 195, 202, 203, 207}           -> "RET"
          [] data0 = 255 -> IF inst.jmp THEN "JUMP" ELSE "CALL"
          [] OTHER -> "MISC"
  BY <1>2 DEF Type
<1>5. HasTarget <=> data0 # 255 /\ Type \in {"COND_JUMP", "JUMP", "CALL"}
  BY <1>2 DEF HasTarget
<1>6. inst.jmp <=> b = <<255>> /\ Operation(code.operand[1]) \in {4, 5}
  BY <1>1 DEF IsWhole, SaysJmp
<1>7. PICK n : n = Operation(code.operand[1])
  OBVIOUS
<1>8. /\ IsRelative(code) <=> IsConditional(b) \/ b \in {<<232>>, <<233>>, <<235>>}
      /\ Meaning(code) =
            CASE IsConditional(b) -> "COND_JUMP"
              [] b \in {<<233>>, <<234>>, <<235>>} -> "JUMP"
              [] b \in {<<154>>, <<232>>} -> "CALL"
              [] b \in {<<194>>, <<195>>, <<202>>, <<203>>, <<207>>} -> "RET"
              [] b = <<255>> /\ n \in {2, 3} -> "CALL"
              [] b = <<255>> /\ n \in {4, 5} -> "JUMP"
              [] OTHER -> "MISC"
  BY <1>1, <1>7 DEF IsRelative, Meaning
<1>9. ASSUME NEW op \in Byte \ (Skipped \cup {15}), b = <<op>>
      PROVE  /\ HasTarget <=> IsRelative(code)
             /\ \/ Type = Meaning(code)
                \/ /\ ~ IsRelative(code)
                   /\ Type \in {"MISC", "CALL"} /\ Meaning(code) \in {"MISC", "CALL"}
  <2>1. data0 = op
    BY <1>1, <1>2, <1>3, <1>9, OpcodeFound
  <2>2. op \in Nat /\ op # 15 /\ op # 234
    BY <1>1, <1>7, <1>9, OneByte
  <2>3. IsRelative(code) <=> op \in 112 .. 127 \cup 224 .. 227 \cup {232, 233, 235}
    BY <1>1, <1>7, <1>9, OneByte
  <2>4. Meaning(code) =
          CASE op \in 112 .. 127 \cup 224 .. 227 -> "COND_JUMP"
            [] op \in {233, 234, 235} -> "JUMP"
            [] op \in {154, 232} -> "CALL"
            [] op \in {194, 195, 202, 203, 207} -> "RET"
            [] op = 255 /\ n \in {2, 3} -> "CALL"
            [] op = 255 /\ n \in {4, 5} -> "JUMP"
            [] OTHER -> "MISC"
    BY <1>1, <1>7, <1>9, OneByte
  <2>5. b = <<255>> <=> op = 255
    BY <1>9
  <2>6. inst.jmp <=> op = 255 /\ n \in {4, 5}
    BY <1>6, <1>7, <2>5
  <2>7. CASE op \in 112 .. 127 \cup 224 .. 227
    <3>1. Type = "COND_JUMP"
      BY <1>4, <2>1, <2>7
    <3>2. Meaning(code) = "COND_JUMP" /\ IsRelative(code)
      BY <2>3, <2>4, <2>7
    <3>3. op # 255
      BY <2>7
    <3> QED
      BY <1>5, <2>1, <3>1, <3>2, <3>3
  <2>8. CASE op = 255
    <3>1. ~ HasTarget /\ ~ IsRelative(code)
      BY <1>5, <2>1, <2>3, <2>8
    <3>2. Type = IF n \in {4, 5} THEN "JUMP" ELSE "CALL"
      <4>1. Type = IF inst.jmp THEN "JUMP" ELSE "CALL"
        BY <1>4, <2>1, <2>8
      <4> QED
        BY <2>6, <2>8, <4>1
    <3>3. Meaning(code) = IF n \in {2, 3} THEN "CALL"
                          ELSE IF n \in {4, 5} THEN "JUMP" ELSE "MISC"
      BY <2>4, <2>8
    <3> QED
      BY <3>1, <3>2, <3>3
  <2>9. CASE op # 255 /\ op \notin 112 .. 127 \cup 224 .. 227
    <3>1. Type = IF op \in {233, 235} THEN "JUMP" ELSE IF op = 232 THEN "CALL"
                 ELSE IF op \in {194, 195, 202, 203, 207} THEN "RET" ELSE "MISC"
      BY <1>4, <2>1, <2>2, <2>9
    <3>2. Meaning(code) =
            IF op \in {233, 235} THEN "JUMP" ELSE IF op \in {154, 232} THEN "CALL"
            ELSE IF op \in {194, 195, 202, 203, 207} THEN "RET" ELSE "MISC"
      BY <2>2, <2>4, <2>9
    <3>3. IsRelative(code) <=> op \in {232, 233, 235}
      BY <2>3, <2>9
    <3>4. HasTarget <=> op \in {232, 233, 235}
      BY <1>5, <2>1, <2>9, <3>1
    <3> QED
      BY <3>1, <3>2, <3>3, <3>4
  <2> QED
    BY <2>7, <2>8, <2>9
<1>10. ASSUME NEW op \in Byte, b = <<15, op>>
       PROVE  (HasTarget <=> IsRelative(code)) /\ Type = Meaning(code)
  <2>1. data0 = 15 /\ data1 = op
    BY <1>1, <1>2, <1>3, <1>10, OpcodeFound
  <2>2. IsConditional(b) <=> op \in 128 .. 143
    BY <1>10 DEF IsConditional
  <2>3. \A k \in Nat : b # <<k>>
    BY <1>10
  <2>4. CASE op \in 128 .. 143
    <3>1. Type = "COND_JUMP"
      BY <1>4, <2>1, <2>4
    <3>2. Meaning(code) = "COND_JUMP" /\ IsRelative(code)
      BY <1>8, <2>2, <2>3, <2>4
    <3> QED
      BY <1>5, <2>1, <3>1, <3>2
  <2>5. CASE op \notin 128 .. 143
    <3>1. Type = "MISC"
      BY <1>4, <2>1, <2>5
    <3>2. Meaning(code) = "MISC" /\ ~ IsRelative(code)
      BY <1>8, <2>2, <2>3, <2>5
    <3> QED
      BY <1>5, <3>1, <3>2
  <2> QED
    BY <2>4, <2>5
<1>11. ASSUME b = <<>>
       PROVE  (HasTarget <=> IsRelative(code)) /\ Type = Meaning(code)
  <2>1. data0 \in Skipped
    BY <1>1, <1>2, <1>3, <1>11, OpcodeFound
  <2>2. Type = "MISC"
    BY <1>4, <2>1 DEF Skipped
  <2>3. ~ IsConditional(b) /\ \A k \in Nat : b # <<k>>
    BY <1>11 DEF IsConditional
  <2>4. Meaning(code) = "MISC" /\ ~ IsRelative(code)
    BY <1>8, <2>3
  <2> QED
    BY <1>5, <2>2, <2>4
<1> QED
  BY <1>1, <1>9, <1>10, <1>11 DEF IsEncoding

\* A whole instruction is taken for what it means.
LEMMA WholeDecoded ==
    ASSUME IsEncoding(code), IsPlain, IsWhole, Len(data) <= length,
           set_target_and_type
    PROVE  \E x \in A!disassemble(addr, length) : SameTrace(inst', x)
<1>1. Meant \in A!disassemble(addr, length)
  <2>1. PICK whole : whole = Meant
    OBVIOUS
  <2>2. whole.size <= length
    BY <2>1 DEF Meant
  <2> QED
    BY <2>1, <2>2, Decodes
<1>2. PICK i : i = inst'
  OBVIOUS
<1>3. i = [size |-> inst.size, type |-> Type,
           target |-> IF HasTarget THEN (addr + inst.size + Displacement) % AddrSpace
                      ELSE 0]
  BY <1>2 DEF set_target_and_type
<1>4. inst.size = Len(data)
  BY DEF IsWhole
<1>5. HasTarget => Displacement = SignedValue(code.operand)
  BY WholeType, DisplacementRead
<1>6. i.target = MeantTarget
  BY <1>3, <1>4, <1>5, WholeType DEF MeantTarget
<1>7. i.size = Meant.size /\ i.type = Type /\ i.target = Meant.target
      /\ Meant.type = Meaning(code)
  BY <1>3, <1>4, <1>6 DEF Meant
<1>8. ~ IsRelative(code) => i.target = 0
  BY <1>6 DEF MeantTarget
<1>9. SameTrace(i, Meant)
  BY <1>7, <1>8, WholeType, TraceSame
<1> QED
  BY <1>1, <1>2, <1>9

-----------------------------------------------------------------------------
(* An instruction that is cut by the end of the buffer. *)

IsCut == inst = [size |-> 1, jmp |-> FALSE]

\* It is classified by its first byte, and a branch has that for its
\* displacement.
LEMMA CutRead ==
    ASSUME IsCut
    PROVE  /\ ByteAt(First) = data[1] /\ ByteAt(First + 1) = 0
           /\ Displacement = read_s8(data[1])
           /\ Type =
                CASE data[1] \in 112 .. 127 \cup 224 .. 227   -> "COND_JUMP"
                  [] data[1] \in {233, 234, 235}              -> "JUMP"
                  [] data[1] = 232                            -> "CALL"
                  [] data[1] \in {194, 195, 202, 203, 207}    -> "RET"
                  [] data[1] = 255                            -> "CALL"
                  [] OTHER                                    -> "MISC"
<1>1. inst.size = 1 /\ inst.jmp = FALSE
  BY DEF IsCut
<1>2. First = 1
  BY <1>1 DEF First
<1>3. ByteAt(First) = data[1] /\ ByteAt(First + 1) = 0
  BY <1>1, <1>2 DEF ByteAt
<1>4. Displacement = read_s8(data[1])
  BY <1>1 DEF Displacement
<1>5. PICK data0, data1 : data0 = data[1] /\ data1 = ByteAt(First + 1)
  OBVIOUS
<1>6. Type =
        CASE \/ data0 = 15 /\ data1 \in 128 .. 143
             \/ data0 \in 112 .. 127 \cup 224 .. 227       -> "COND_JUMP"
          [] data0 \in {233, 234, 235}                     -> "JUMP"
          [] data0 = 232                                   -> "CALL"
          [] data0 \in {194, 195, 202, 203, 207}           -> "RET"
          [] data0 = 255 -> IF inst.jmp THEN "JUMP" ELSE "CALL"
          [] OTHER -> "MISC"
  BY <1>3, <1>5 DEF Type
<1>7. data1 \notin 128 .. 143
  BY <1>3, <1>5
<1>8. Type =
        CASE data0 \in 112 .. 127 \cup 224 .. 227   -> "COND_JUMP"
          [] data0 \in {233, 234, 235}              -> "JUMP"
          [] data0 = 232                            -> "CALL"
          [] data0 \in {194, 195, 202, 203, 207}    -> "RET"
          [] data0 = 255                            -> "CALL"
          [] OTHER                                  -> "MISC"
  BY <1>1, <1>6, <1>7
<1> QED
  BY <1>3, <1>4, <1>5, <1>8

\* The first byte is a prefix, or 15, or the opcode.
LEMMA FirstByte ==
    ASSUME IsEncoding(code), Len(code.prefixes) <= 1
    PROVE  \/ data[1] \in Skipped \cup {15}
           \/ \E op \in Byte \ (Skipped \cup {15}) : data[1] = op /\ code.opcode = <<op>>
<1>1. PICK a, b, p : a = code.prefixes /\ b = code.opcode /\ p = Len(a)
  OBVIOUS
<1>2. /\ p \in Nat /\ \A n \in 1 .. p : data[n] \in Skipped
      /\ \A n \in 1 .. Len(b) : data[p + n] = b[n]
      /\ a \in Seq(Byte)
  BY <1>1, CodeBytes
<1>3. CASE p > 0
  BY <1>2, <1>3
<1>4. CASE p = 0
  <2>1. \A n \in 1 .. Len(b) : data[n] = b[n]
    BY <1>2, <1>4
  <2>2. a = <<>>
    <3>1. Len(a) = 0 /\ a \in Seq(Byte)
      BY <1>1, <1>2, <1>4
    <3> QED
      BY <3>1
  <2>3. CASE \E op \in Byte \ (Skipped \cup {15}) : b = <<op>>
    BY <1>1, <2>1, <2>3
  <2>4. CASE \E op \in Byte : b = <<15, op>>
    <3>1. Len(b) = 2 /\ b[1] = 15
      BY <2>4
    <3> QED
      BY <2>1, <3>1
  <2> QED
    BY <1>1, <2>2, <2>3, <2>4 DEF IsEncoding
<1> QED
  BY <1>2, <1>3, <1>4

LEMMA CutDecoded ==
    ASSUME IsEncoding(code), IsPlain, IsCut, ~ (Len(data) <= length),
           set_target_and_type
    PROVE  \E x \in A!disassemble(addr, length) : SameTrace(inst', x)
<1>1. PICK i, whole : i = inst' /\ whole = Meant
  OBVIOUS
<1>2. i = [size |-> 1, type |-> Type,
           target |-> IF HasTarget THEN (addr + 1 + Displacement) % AddrSpace ELSE 0]
  BY <1>1 DEF set_target_and_type, IsCut
<1>3. PICK data0 : data0 = data[1]
  OBVIOUS
<1>4. /\ Displacement = read_s8(data0)
      /\ HasTarget <=> data0 # 255 /\ Type \in {"COND_JUMP", "JUMP", "CALL"}
      /\ Type =
            CASE data0 \in 112 .. 127 \cup 224 .. 227   -> "COND_JUMP"
              [] data0 \in {233, 234, 235}              -> "JUMP"
              [] data0 = 232                            -> "CALL"
              [] data0 \in {194, 195, 202, 203, 207}    -> "RET"
              [] data0 = 255                            -> "CALL"
              [] OTHER                                  -> "MISC"
  BY <1>3, CutRead DEF HasTarget
<1>5. \A x \in A!Truncated(whole) : x \in A!disassemble(addr, length)
  <2>1. ~ (whole.size <= length)
    BY <1>1 DEF Meant
  <2> QED
    BY <1>1, <2>1, Decodes
<1>6. whole.type = Meaning(code) /\ whole.target = MeantTarget
  BY <1>1 DEF Meant
<1>7. PICK misc : misc = [size |-> 1, type |-> "MISC", target |-> 0]
  OBVIOUS
<1>8. misc \in A!Truncated(whole)
  BY <1>7 DEF A!Truncated
<1>9. ASSUME i.target = 0, i.type \in {"MISC", "CALL"}
      PROVE  \E x \in A!Truncated(whole) : SameTrace(i, x)
  <2>1. i.size = misc.size /\ i.target = misc.target /\ misc.type = "MISC"
    BY <1>2, <1>7, <1>9
  <2>2. SameTrace(i, misc)
    BY <1>9, <2>1, TraceSame
  <2> QED
    BY <1>8, <2>2
<1>10. \E x \in A!Truncated(whole) : SameTrace(i, x)
  <2>1. CASE data0 \in Skipped \cup {15}
    <3>1. data0 \in Nat /\ data0 < 104
      BY <2>1 DEF Skipped
    <3>2. Type = "MISC"
      <4>1. /\ data0 \notin 112 .. 127 \cup 224 .. 227
            /\ data0 \notin {233, 234, 235} /\ data0 # 232 /\ data0 # 255
            /\ data0 \notin {194, 195, 202, 203, 207}
        BY <3>1
      <4> QED
        BY <1>4, <4>1, ZenonT(30)
    <3>3. ~ HasTarget
      BY <1>4, <3>2
    <3>4. i.type = "MISC" /\ i.target = 0
      BY <1>2, <3>2, <3>3
    <3> QED
      BY <1>9, <3>4
  <2>2. ASSUME NEW op \in Byte \ (Skipped \cup {15}), data0 = op, code.opcode = <<op>>
        PROVE  \E x \in A!Truncated(whole) : SameTrace(i, x)
    <3>1. PICK n : n = Operation(code.operand[1])
      OBVIOUS
    <3>2. op \in Nat /\ op # 15 /\ op # 234
      BY <2>2, <3>1, OneByte
    <3>3. IsRelative(code) <=> op \in 112 .. 127 \cup 224 .. 227 \cup {232, 233, 235}
      BY <2>2, <3>1, OneByte
    <3>4. Meaning(code) =
            CASE op \in 112 .. 127 \cup 224 .. 227 -> "COND_JUMP"
              [] op \in {233, 234, 235} -> "JUMP"
              [] op \in {154, 232} -> "CALL"
              [] op \in {194, 195, 202, 203, 207} -> "RET"
              [] op = 255 /\ n \in {2, 3} -> "CALL"
              [] op = 255 /\ n \in {4, 5} -> "JUMP"
              [] OTHER -> "MISC"
      BY <2>2, <3>1, OneByte
    <3>5. Type =
            CASE op \in 112 .. 127 \cup 224 .. 227   -> "COND_JUMP"
              [] op \in {233, 234, 235}              -> "JUMP"
              [] op = 232                            -> "CALL"
              [] op \in {194, 195, 202, 203, 207}    -> "RET"
              [] op = 255                            -> "CALL"
              [] OTHER                               -> "MISC"
      BY <1>4, <2>2
    <3>6. CASE IsRelative(code)
      <4>1. op \in 112 .. 127 \cup 224 .. 227 \/ op \in {233, 235} \/ op = 232
        BY <3>3, <3>6
      <4>2. op # 255
        BY <4>1
      <4>3. Meaning(code) = Type /\ Type \in {"COND_JUMP", "JUMP", "CALL"}
        <5>1. CASE op \in 112 .. 127 \cup 224 .. 227
          <6>0. /\ op \in 112 .. 127 \cup 224 .. 227
                /\ op \notin {233, 234, 235} /\ op # 232 /\ op # 255 /\ op # 154
                /\ op \notin {194, 195, 202, 203, 207}
            BY <5>1
          <6>1. Type = "COND_JUMP"
            BY <3>5, <6>0, ZenonT(30)
          <6>2. Meaning(code) = "COND_JUMP"
            BY <3>4, <6>0, ZenonT(30)
          <6> QED
            BY <6>1, <6>2
        <5>2. CASE op \in {233, 235}
          <6>1. Type = "JUMP" /\ Meaning(code) = "JUMP"
            BY <3>4, <3>5, <5>2
          <6> QED
            BY <6>1
        <5>3. CASE op = 232
          <6>1. Type = "CALL" /\ Meaning(code) = "CALL"
            BY <3>4, <3>5, <5>3
          <6> QED
            BY <6>1
        <5> QED
          BY <4>1, <5>1, <5>2, <5>3
      <4>4. HasTarget /\ Type \in {"COND_JUMP", "JUMP", "CALL"}
        BY <1>4, <2>2, <4>2, <4>3
      <4>5. i.target \in Stray
        <5>1. op \in 112 .. 127 \cup 224 .. 227 \cup 232 .. 235
          BY <4>1
        <5>2. i.target = (addr + 1 + read_s8(op)) % AddrSpace
          BY <1>2, <1>4, <2>2, <4>4
        <5> QED
          BY <5>1, <5>2 DEF Stray
      <4>6. whole.target # 0 /\ whole.type = Type
        BY <1>6, <3>6, <4>3 DEF IsPlain
      <4>7. i = [size |-> 1, type |-> whole.type, target |-> i.target]
        BY <1>2, <4>6
      <4>8. i \in A!Truncated(whole)
        <5>1. i \in {[size |-> 1, type |-> whole.type, target |-> t] : t \in Stray}
          BY <4>5, <4>7
        <5>2. whole.type \in {"COND_JUMP", "JUMP", "CALL"} /\ whole.target # 0
          BY <4>4, <4>6
        <5> QED
          BY <5>1, <5>2 DEF A!Truncated
      <4> QED
        BY <4>8, TraceSame
    <3>7. CASE op = 255
      <4>1. Type = "CALL" /\ ~ HasTarget
        BY <1>4, <2>2, <3>5, <3>7
      <4> QED
        BY <1>2, <1>9, <4>1
    <3>8. CASE op \in {194, 195, 202, 203, 207}
      <4>1. Type = "RET"
        BY <3>5, <3>8
      <4>2. Meaning(code) = "RET"
        BY <3>4, <3>8
      <4>3. i = [size |-> 1, type |-> "RET", target |-> 0]
        BY <1>2, <1>4, <4>1
      <4>4. i \in A!Truncated(whole)
        BY <1>6, <4>2, <4>3 DEF A!Truncated
      <4> QED
        BY <4>4, TraceSame
    <3>9. CASE ~ IsRelative(code) /\ op # 255 /\ op \notin {194, 195, 202, 203, 207}
      <4>1. Type = "MISC"
        BY <3>2, <3>3, <3>5, <3>9
      <4>2. ~ HasTarget
        BY <1>4, <4>1
      <4> QED
        BY <1>2, <1>9, <4>1, <4>2
    <3> QED
      BY <3>6, <3>7, <3>8, <3>9
  <2> QED
    BY <1>3, <2>1, <2>2, FirstByte DEF IsPlain
<1> QED
  BY <1>1, <1>5, <1>10

-----------------------------------------------------------------------------
(* The decoder. *)

DecoderInv ==
    /\ IsEncoding(code)
    /\ \/ inst = NULL
       \/ Len(data) <= length /\ IsWhole
       \/ ~ (Len(data) <= length) /\ IsCut
       \/ "type" \in DOMAIN inst
    /\ DecodedForAnalyser

LEMMA SameCode ==
    ASSUME UNCHANGED <<code, addr, length>>
    PROVE  /\ IsPlain' = IsPlain
           /\ A!disassemble(addr, length)' = A!disassemble(addr, length)
  BY DEF data, IsPlain, IsRelative, MeantTarget, A!disassemble, Meant, Meaning,
     Stray, A!Truncated

LEMMA DecoderStep == DecoderInv /\ [disassemble]_dvars => DecoderInv'
<1> SUFFICES ASSUME DecoderInv, [disassemble]_dvars PROVE DecoderInv'
  OBVIOUS
<1>1. CASE UNCHANGED dvars
  <2>1. UNCHANGED <<code, addr, length, inst>>
    BY <1>1 DEF dvars
  <2>2. data' = data /\ IsWhole' = IsWhole /\ IsCut' = IsCut
    BY <2>1 DEF data, IsWhole, IsCut, SaysJmp
  <2>3. IsPlain' = IsPlain /\ A!disassemble(addr, length)' = A!disassemble(addr, length)
    BY <2>1, <2>2, SameCode
  <2>4. \A x : SameTrace(inst, x)' = SameTrace(inst, x)
    BY <2>1 DEF SameTrace
  <2>5. IsDecoded' = IsDecoded
    BY <2>1 DEF IsDecoded
  <2>6. DecodedForAnalyser'
    BY <2>3, <2>4, <2>5 DEF DecodedForAnalyser, DecoderInv
  <2> QED
    BY <2>1, <2>2, <2>6 DEF DecoderInv
<1>2. CASE print_insn
  <2>1. UNCHANGED <<code, addr, length>> /\ data' = data
    BY <1>2 DEF print_insn, data
  <2>2. \/ Len(data)' <= length' /\ IsWhole'
        \/ ~ (Len(data)' <= length') /\ IsCut'
    BY <1>2, <2>1 DEF print_insn, IsWhole, IsCut, SaysJmp
  <2>3. ~ IsDecoded'
    <3>1. "type" \notin DOMAIN inst'
      BY <1>2 DEF print_insn
    <3> QED
      BY <3>1 DEF IsDecoded
  <2> QED
    BY <2>1, <2>2, <2>3 DEF DecoderInv, DecodedForAnalyser
<1>3. CASE set_target_and_type
  <2>1. /\ UNCHANGED <<code, addr, length>> /\ data' = data
        /\ inst # NULL /\ "type" \notin DOMAIN inst
        /\ "type" \in DOMAIN inst'
    BY <1>3 DEF set_target_and_type, data
  <2>2. IsPlain => \E x \in A!disassemble(addr, length) : SameTrace(inst', x)
    BY <1>3, <2>1, WholeDecoded, CutDecoded DEF DecoderInv
  <2>3. IsPlain' = IsPlain /\ A!disassemble(addr, length)' = A!disassemble(addr, length)
    BY <2>1, SameCode
  <2>4. \A x : SameTrace(inst, x)' = SameTrace(inst', x)
    BY DEF SameTrace
  <2>5. DecodedForAnalyser'
    BY <2>2, <2>3, <2>4 DEF DecodedForAnalyser
  <2> QED
    BY <2>1, <2>5 DEF DecoderInv
<1> QED
  BY <1>1, <1>2, <1>3 DEF disassemble

\* Classified by a few of its bytes, an instruction with at most one prefix is
\* to a trace what it means, whole or cut (disassembler.cpp:139-217).
THEOREM DecodesForAnalyser == DecoderSpec => []DecodedForAnalyser
<1>1. DecoderInit => DecoderInv
  BY EncodingsAssumption DEF DecoderInit, DecoderInv, DecodedForAnalyser, IsDecoded
<1>2. DecoderInv => DecodedForAnalyser
  BY DEF DecoderInv
<1> QED
  BY <1>1, <1>2, DecoderStep, PTL DEF DecoderSpec

=============================================================================
