----------------------------- MODULE MCAnalyser -----------------------------
(***************************************************************************)
(* Small executables for the analyser.  Every byte of a code object has a  *)
(* set of instructions that may start there, so that one executable of the *)
(* model stands for all the programs that pick one instruction per byte.   *)
(***************************************************************************)
EXTENDS Analyser

Misc(size)        == [size |-> size, type |-> "MISC", target |-> 0]
Ret               == [size |-> 1, type |-> "RET", target |-> 0]
Jump(size, t)     == [size |-> size, type |-> "JUMP", target |-> t]
CondJump(size, t) == [size |-> size, type |-> "COND_JUMP", target |-> t]
Call(size, t)     == [size |-> size, type |-> "CALL", target |-> t]

Object(base, size, exec) == [base |-> base, size |-> size, exec |-> exec]

NoFixups == [off \in {} |-> 0]

Bytes(objects) == UNION {ObjectBytes(objects[n]) : n \in DOMAIN objects}

\* The image of the objects, in a machine whose bytes have four values and
\* whose words have two bytes: the file has `raw' at every byte, and each
\* relocated word holds the address of its target, low byte first.
ImageByte(objects, fixups, raw, a) ==
    LET At(n, i) == \E off \in DOMAIN fixups[n] : objects[n].base + off + i = a
        Target(n, i) == fixups[n][CHOOSE off \in DOMAIN fixups[n] :
                                    objects[n].base + off + i = a]
    IN  IF \E n \in DOMAIN objects : At(n, 0)
        THEN Target(CHOOSE n \in DOMAIN objects : At(n, 0), 0) % 4
        ELSE IF \E n \in DOMAIN objects : At(n, 1)
        THEN Target(CHOOSE n \in DOMAIN objects : At(n, 1), 1) \div 4
        ELSE IF a \in Bytes(objects) THEN raw[a] ELSE 0

ImageWords(objects, fixups, raw) ==
    [a \in Bytes(objects) |->
        ImageByte(objects, fixups, raw, a)
            + 4 * ImageByte(objects, fixups, raw, a + 1)]

-----------------------------------------------------------------------------
(* Control flow only: code at 1..6, and a second object of two bytes that  *)
(* touches the first or not and holds data or code; nothing anywhere else. *)
(* Branches go back, forward, into instructions, into the second object    *)
(* and to unmapped bytes; long instructions are cut by the end of a region. *)

FlowObjects(base, exec) == <<Object(1, 6, TRUE), Object(base, 2, exec)>>

FlowText(objects) ==
    [a \in Bytes(objects) |->
        CASE a = 1 -> {Misc(1), Jump(2, 4), CondJump(2, 5), Call(2, 8)}
          [] a = 2 -> {Misc(2), Ret, Call(2, 6)}
          [] a = 3 -> {Misc(1), Call(1, 3), Jump(2, 2), CondJump(3, 7)}
          [] a = 4 -> {Misc(2), Ret, CondJump(1, 1), Jump(2, 0)}
          [] a = 5 -> {Misc(1), Ret, Jump(2, 3), Call(3, 2)}
          [] a = 6 -> {Ret, CondJump(1, 9), Jump(2, 1), Misc(2)}
          [] a = 7 -> {Misc(1), Ret}
          [] a = 8 -> {Misc(1), Ret, Jump(1, 5)}
          [] a = 9 -> {Misc(2), Call(1, 2)}]

FlowExecutable(objects, off) ==
    [objects |-> objects, fixups |-> <<NoFixups, NoFixups>>,
     eip_object |-> 1, eip_offset |-> off, text |-> FlowText(objects),
     words |-> [a \in Bytes(objects) |-> 0], stray |-> {0, 4, 12}]

FlowExecutables ==
    {FlowExecutable(FlowObjects(base, exec), off) :
        base \in {7, 8}, exec \in BOOLEAN, off \in {0, 2, 6}}

-----------------------------------------------------------------------------
(* Relocations: code at 1..8, data at 10..13, words of two bytes.  The      *)
(* targets are vtables in the code object, plain code, data, and nothing.  *)

RelocObjects == <<Object(1, 8, TRUE), Object(10, 4, FALSE)>>

RelocText ==
    [a \in Bytes(RelocObjects) |->
        CASE a = 1 -> {Misc(1), Ret}
          [] a = 2 -> {Jump(1, 5), Ret}
          [] a = 3 -> {Misc(1), Ret}
          [] a = 4 -> {Misc(2), Jump(1, 8)}
          [] a = 6 -> {Ret, CondJump(2, 4)}
          [] a = 8 -> {Ret, Jump(1, 11)}
          [] a = 9 -> {Ret}
          [] a = 10 -> {Misc(1)}
          [] OTHER -> {Ret, Misc(1)}]

\* Per object, at most one relocated offset in the code and one or two in
\* the data.
RelocFixups ==
    {<<c, d>> :
        c \in [{3} -> {4, 9}] \cup [{5} -> {3, 13}] \cup {NoFixups},
        d \in [{0} -> {4, 7}] \cup [{0, 2} -> {3, 6, 12}]}

\* The bytes of the file are all one, or zero from 4 to 7.
RelocBytes(zeros) == [a \in Bytes(RelocObjects) |-> IF a \in zeros THEN 0 ELSE 1]

SplitRelocs ==
    {[objects |-> RelocObjects, fixups |-> f,
      eip_object |-> 1, eip_offset |-> 0, text |-> RelocText,
      words |-> ImageWords(RelocObjects, f, RelocBytes(zeros)),
      stray |-> {8}] :
        f \in RelocFixups, zeros \in {{}, 4 .. 7}}

\* Two code objects that touch, with vtables on both sides of the border.
TouchObjects == <<Object(1, 4, TRUE), Object(5, 4, TRUE)>>

TouchText ==
    [a \in Bytes(TouchObjects) |->
        CASE a = 1 -> {Ret, Misc(1)}
          [] a = 4 -> {Misc(1), Misc(2)}
          [] a = 6 -> {Ret, Jump(1, 3)}
          [] OTHER -> {Misc(1)}]

TouchRelocs ==
    {[objects |-> TouchObjects, fixups |-> <<c, d>>,
      eip_object |-> 1, eip_offset |-> 0, text |-> TouchText,
      words |-> ImageWords(TouchObjects, <<c, d>>, [a \in Bytes(TouchObjects) |-> raw]),
      stray |-> {8}] :
        c \in [{0} -> {3, 7}] \cup [{2} -> {3, 5}],
        d \in [{2} -> {3, 5}] \cup [{0, 2} -> {3, 5}],
        raw \in {0, 1}}

RelocExecutables == SplitRelocs \cup TouchRelocs

=============================================================================
