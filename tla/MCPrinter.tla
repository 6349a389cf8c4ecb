----------------------------- MODULE MCPrinter -----------------------------
(***************************************************************************)
(* Small executables for the printer, with one instruction per byte: code  *)
(* at 1..7, data at 9..12, words and runs of two bytes.                    *)
(***************************************************************************)
EXTENDS Printer

Inst(size, type, t) == [size |-> size, type |-> type, target |-> t]

Misc(size) == Inst(size, "MISC", 0)

Ret == Inst(1, "RET", 0)

Object(base, size, exec) == [base |-> base, size |-> size, exec |-> exec]

PrinterObjects == <<Object(1, 7, TRUE), Object(9, 4, FALSE)>>

ProgramBytes == 1 .. 7 \cup 9 .. 12

\* What may stand at the bytes that differ between programs.
Choices ==
    [t1 : {Misc(2), Inst(2, "CALL", 5)},
     t3 : {Ret, Inst(2, "JUMP", 6)},
     t4 : {Inst(1, "JUMP", 6)},
     t5 : {Ret, Misc(3)},
     t6 : {Ret, Inst(2, "COND_JUMP", 8)},
     t7 : {Ret, Inst(1, "JUMP", 10)}]

Text(c) ==
    [a \in ProgramBytes |->
        CASE a = 1 -> {c.t1}
          [] a = 2 -> {Ret}
          [] a = 3 -> {c.t3}
          [] a = 4 -> {c.t4}
          [] a = 5 -> {c.t5}
          [] a = 6 -> {c.t6}
          [] a = 7 -> {c.t7}
          [] a = 10 -> {Ret}
          [] OTHER -> {Misc(1)}]

NoFixups == [off \in {} |-> 0]

\* The relocated words of the image, low byte first, in bytes of four values;
\* every other byte is one, or zero if it is in `zeros'.
ImageByte(fixups, zeros, a) ==
    LET Word(n, i) == {off \in DOMAIN fixups[n] : PrinterObjects[n].base + off + i = a}
        Holders(i) == {<<n, off>> \in {1, 2} \X Address : off \in Word(n, i)}
        Target(i)  == LET h == CHOOSE h \in Holders(i) : TRUE IN fixups[h[1]][h[2]]
    IN  IF Holders(0) # {} THEN Target(0) % 4
        ELSE IF Holders(1) # {} THEN Target(1) \div 4
        ELSE IF a \in ProgramBytes \ zeros THEN 1 ELSE 0

Words(fixups, zeros) ==
    [a \in ProgramBytes |->
        ImageByte(fixups, zeros, a) + 4 * ImageByte(fixups, zeros, a + 1)]

Fixups ==
    {<<c, d>> :
        c \in {NoFixups} \cup [{5} -> {3}] \cup {[o \in {3, 5} |-> IF o = 3 THEN 6 ELSE 2]},
        d \in [{0} -> {3, 12}] \cup {[o \in {0, 2} |-> 4 + o]} \cup {[o \in {1, 2} |-> 3 + o]}}

Executable(c, f, zeros, off) ==
    [objects |-> PrinterObjects, fixups |-> f, eip_object |-> 1,
     eip_offset |-> off, text |-> Text(c), words |-> Words(f, zeros),
     stray |-> {12}, known |-> FALSE, known_regions |-> <<>>,
     known_labels |-> <<>>, removed |-> {}]

\* The labels of the entry point, of a vtable entry and one given by hand are
\* removed at the end.
Removing(e) ==
    [e EXCEPT !.known = TRUE, !.removed = {1, 2, 3},
              !.known_labels =
                <<[address |-> 3, label |-> [type |-> "FUNCTION", named |-> TRUE]]>>]

PrinterExecutables ==
    {Executable(c, f, z[1], z[2]) :
        c \in Choices, f \in Fixups, z \in {<<{}, 0>>, <<4 .. 7, 0>>, <<4 .. 7, 2>>}}
    \cup {Removing(Executable(c, f, {}, 0)) : c \in Choices, f \in Fixups}

=============================================================================
