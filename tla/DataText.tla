------------------------------ MODULE DataText ------------------------------
(***************************************************************************)
(* The text print_region (le_disasm.cpp) writes for a region of data,      *)
(* directive by directive: relocated words, runs of zeros, strings, and    *)
(* single bytes, which share a line whose quote stays open between them.   *)
(* This is the part that Printer leaves open.                              *)
(*                                                                         *)
(* Of the text the model keeps what an assembler that reads it has made of *)
(* it so far: bytes, labels and whether a quote is open.                   *)
(***************************************************************************)
EXTENDS Integers, Sequences

CONSTANTS
    NULL,
    AddrSpace,     \* the number of addresses: 2^32 in the code
    WordSize,      \* the bytes of a relocated word: 4 in the code
    MinRun,        \* the shortest run of zeros or characters: 4 in the code
    LineBytes,     \* the bytes of a line: 8 in the code
    DataRegions    \* the regions of data the printer may be given

(* What the printer sees of a region:                                      *)
(*   base          where its object starts                                 *)
(*   start, end    where the region does                                   *)
(*   bytes         the bytes of the object                                 *)
(*   labels        the addresses with labels, in the region or not         *)
(*   fixups        the offsets of the relocated words in the object        *)

IsDataRegion(d) ==
    /\ {d.base, d.start, d.end} \subseteq Nat
    /\ d.base <= d.start /\ d.start < d.end /\ d.end < AddrSpace
    /\ d.start .. d.end - 1 \subseteq DOMAIN d.bytes
    /\ \A a \in DOMAIN d.bytes : d.base <= a /\ d.bytes[a] \in 0 .. 255
    /\ d.labels \subseteq Nat
    /\ d.fixups \subseteq Nat

ASSUME SizesAssumption == {AddrSpace, WordSize, MinRun, LineBytes} \subseteq Nat \ {0}
ASSUME NullAssumption == NULL \notin Int
ASSUME DataAssumption == \A d \in DataRegions : IsDataRegion(d)

VARIABLES
    data,            \* the region
    loop,            \* the loop that has control, or how the printer ended
    addr,            \* what has been printed
    len,             \* what is left of a piece
    bytes_in_line,   \* how many bytes the line with the open quote has
    text             \* what has been written, as an assembler reads it

tvars == <<data, loop, addr, len, bytes_in_line, text>>

(* What an assembler makes of the text:                                    *)
(*   bytes    the bytes                                                    *)
(*   labels   the labels defined, with the number of bytes before them     *)
(*   items    labels and lines as Printer has them                         *)
(*   open     a quote is open                                              *)
(*   ok       there has been no error: a directive or a label inside a     *)
(*            quote, bytes outside one, a label defined twice, a string    *)
(*            that cannot be read                                          *)

NoText == [bytes |-> <<>>, labels |-> {}, items |-> <<>>, open |-> FALSE, ok |-> TRUE]

TextInit ==
    /\ data \in DataRegions
    /\ loop = "lines"
    /\ addr = data.start
    /\ len = 0
    /\ bytes_in_line = 0
    /\ text = NoText

-----------------------------------------------------------------------------
(* Writing and assembling. *)

Item(a, size, refs) == [address |-> a, size |-> size, refs |-> refs]

\* A directive on a line of its own; the bytes it stands for and the labels it
\* refers to.
Directive(t, bytes, refs) ==
    [t EXCEPT !.bytes = @ \o bytes,
              !.items = Append(@, Item(data.start + Len(t.bytes), Len(bytes), refs)),
              !.ok = @ /\ ~ t.open]

\* One byte inside a quote.
QuotedByte(t, byte) ==
    [t EXCEPT !.bytes = Append(@, byte),
              !.items = Append(@, Item(data.start + Len(t.bytes), 1, {})),
              !.ok = @ /\ t.open]

OpenQuote(t) == [t EXCEPT !.open = TRUE, !.ok = @ /\ ~ t.open]

CloseQuote(t) == [t EXCEPT !.open = FALSE, !.ok = @ /\ t.open]

print_label(t, a) ==
    [t EXCEPT !.labels = @ \cup {<<a, Len(t.bytes)>>},
              !.items = Append(@, Item(a, 0, {})),
              !.ok = @ /\ ~ t.open /\ \A l \in t.labels : l[1] # a]

\* The end of the line of bytes, if there is one.
EndLine(t) == IF bytes_in_line > 0 THEN CloseQuote(t) ELSE t

\* Fault: quotes are written as they are.
Escape_NoQuotes(c) ==
    CASE c = 9  -> <<92, 116>>
      [] c = 13 -> <<92, 114>>
      [] c = 10 -> <<92, 110>>
      [] c = 92 -> <<92, 92>>
      [] OTHER  -> <<c>>

\* print_escaped_string: what is written for a character.  Tabulators, line
\* ends, backslashes and quotes take two characters.
Escape(c) ==
    CASE c = 9  -> <<92, 116>>
      [] c = 13 -> <<92, 114>>
      [] c = 10 -> <<92, 110>>
      [] c \in {92, 34} -> <<92, c>>
      [] OTHER  -> <<c>>

\* The assembler: a character of a line of text that is neither a quote nor a
\* backslash stands for itself, one behind a backslash for what it names.
Readable(chars) ==
    \/ Len(chars) = 1 /\ chars[1] \in 32 .. 126 \ {34, 92}
    \/ Len(chars) = 2 /\ chars[1] = 92 /\ chars[2] \in {92, 34, 110, 114, 116}

Character(chars) ==
    LET c == chars[Len(chars)]
    IN  IF Len(chars) = 1 \/ c \in {92, 34} THEN c
        ELSE CASE c = 116 -> 9 [] c = 114 -> 13 [] c = 110 -> 10

\* A string in quotes with what the directive adds behind it.
StringDirective(t, chars, zeros) ==
    IF \A k \in DOMAIN chars : Readable(chars[k])
    THEN Directive(t, [k \in DOMAIN chars |-> Character(chars[k])] \o zeros, {})
    ELSE [t EXCEPT !.ok = FALSE]

BytesFrom(a, size) == [k \in 1 .. size |-> data.bytes[a + k - 1]]

print_escaped_string(bytes) == [k \in DOMAIN bytes |-> Escape(bytes[k])]

-----------------------------------------------------------------------------
(* A piece of data: up to a label, a relocation or the end of the region. *)

Offset(a) == a - data.base

Nearest(S) == CHOOSE x \in S : \A y \in S : x <= y

\* Fault: a label in front of which bytes were printed stays in their line.
StartPiece_QuoteOpen ==
    /\ loop = "lines" /\ addr < data.end
    /\ text' = IF addr \in data.labels THEN print_label(text, addr) ELSE text
    /\ len' = Nearest({data.end - addr}
                      \cup {a - addr : a \in {b \in data.labels : b > addr}}
                      \cup {o - Offset(addr) : o \in {p \in data.fixups : p > Offset(addr)}})
    /\ loop' = "piece"
    /\ UNCHANGED <<data, addr, bytes_in_line>>

\* The line of bytes is ended by a label, and goes on past a relocation.
StartPiece ==
    /\ loop = "lines" /\ addr < data.end
    /\ IF addr \in data.labels
       THEN /\ text' = print_label(EndLine(text), addr)
            /\ bytes_in_line' = 0
       ELSE UNCHANGED <<text, bytes_in_line>>
    /\ len' = Nearest({data.end - addr}
                      \cup {a - addr : a \in {b \in data.labels : b > addr}}
                      \cup {o - Offset(addr) : o \in {p \in data.fixups : p > Offset(addr)}})
    /\ loop' = "piece"
    /\ UNCHANGED <<data, addr>>

PieceDone ==
    /\ loop = "piece" /\ len = 0
    /\ loop' = "lines"
    /\ UNCHANGED <<data, addr, len, bytes_in_line, text>>

\* The next bytes of the piece have been printed.
Advance(size) == addr' = addr + size /\ len' = len - size

\* A directive for the next bytes of the piece, on a line of its own.
PrintDirective(size) ==
    /\ loop = "piece" /\ len > 0
    /\ bytes_in_line' = 0
    /\ Advance(size)
    /\ UNCHANGED <<data, loop>>

\* Fault: something must follow the word.
data_is_address_NotLast == len > WordSize /\ Offset(addr) \in data.fixups

data_is_address == len >= WordSize /\ Offset(addr) \in data.fixups

\* read_le
Word(a) ==
    LET value[n \in 0 .. WordSize] ==
            IF n = 0 THEN 0 ELSE data.bytes[a + WordSize - n] + 256 * value[n - 1]
    IN  value[WordSize]

\* The assembler: the bytes of the address of a label.
Shifted(value) ==
    LET shifted[k \in 0 .. WordSize] == IF k = 0 THEN value ELSE shifted[k - 1] \div 256
    IN  shifted

WordBytes(value) == [k \in 1 .. WordSize |-> Shifted(value)[k - 1] % 256]

PrintAddress ==
    /\ data_is_address
    /\ Word(addr) \in data.labels
    /\ text' = Directive(EndLine(text), WordBytes(Word(addr)), {Word(addr)})
    /\ PrintDirective(WordSize)

\* assert (dlabel != NULL)
AddressWithoutLabel ==
    /\ loop = "piece" /\ len > 0
    /\ data_is_address
    /\ Word(addr) \notin data.labels
    /\ loop' = "aborted"
    /\ text' = EndLine(text)
    /\ bytes_in_line' = 0
    /\ UNCHANGED <<data, addr, len>>

-----------------------------------------------------------------------------
(* Zeros, strings and bytes. *)

Zeros == {0}

Characters == 32 .. 126 \cup {9, 10, 13}

\* How many of the next bytes of the piece are of a kind.
RunOf(Kind) ==
    CHOOSE n \in 0 .. len :
        /\ \A k \in 0 .. n - 1 : data.bytes[addr + k] \in Kind
        /\ n < len => data.bytes[addr + n] \notin Kind

data_is_zeros == RunOf(Zeros) >= MinRun

data_is_string == RunOf(Characters) >= MinRun

\* Fault: the zero may be behind the piece.
zero_terminated_Behind ==
    LET x == addr + RunOf(Characters) IN x \in DOMAIN data.bytes /\ data.bytes[x] = 0

\* The zero behind the characters, if it is in the piece.
zero_terminated ==
    LET x == RunOf(Characters) IN x < len /\ data.bytes[addr + x] = 0

PrintZeros ==
    /\ ~ data_is_address /\ data_is_zeros
    /\ text' = Directive(EndLine(text), [k \in 1 .. RunOf(Zeros) |-> 0], {})
    /\ PrintDirective(RunOf(Zeros))

\* The terminating zero is not written: `.string' adds one, `.ascii' does not.
PrintString ==
    LET size  == RunOf(Characters)
        chars == print_escaped_string(BytesFrom(addr, size))
    IN  /\ ~ data_is_address /\ ~ data_is_zeros /\ data_is_string
        /\ text' = StringDirective(EndLine(text), chars,
                                   IF zero_terminated THEN <<0>> ELSE <<>>)
        /\ PrintDirective(IF zero_terminated THEN size + 1 ELSE size)

ByteWritten ==
    LET t == QuotedByte(IF bytes_in_line = 0 THEN OpenQuote(text) ELSE text, data.bytes[addr])
    IN  IF bytes_in_line + 1 = LineBytes THEN CloseQuote(t) ELSE t

PrintByte ==
    /\ loop = "piece" /\ len > 0
    /\ ~ data_is_address /\ ~ data_is_zeros /\ ~ data_is_string
    /\ text' = ByteWritten
    /\ bytes_in_line' = IF bytes_in_line + 1 = LineBytes THEN 0 ELSE bytes_in_line + 1
    /\ Advance(1)
    /\ UNCHANGED <<data, loop>>

RegionDone ==
    /\ loop = "lines" /\ addr >= data.end
    /\ text' = EndLine(text)
    /\ loop' = "after"
    /\ UNCHANGED <<data, addr, len, bytes_in_line>>

print_region ==
    \/ StartPiece \/ PieceDone
    \/ PrintAddress \/ AddressWithoutLabel
    \/ PrintZeros \/ PrintString \/ PrintByte
    \/ RegionDone

TextSpec == TextInit /\ [][print_region]_tvars

-----------------------------------------------------------------------------
(* The abstract specifications. *)

Content == BytesFrom(data.start, data.end - data.start)

LabelsInside == data.labels \cap data.start .. data.end - 1

Dumped ==
    INSTANCE Dump WITH content <- Content,
                       places <- {a - data.start : a \in LabelsInside},
                       dumped <- text.bytes,
                       defined <- {l[2] : l \in text.labels}

\* However the region is cut into words, runs, strings and bytes, an assembler
\* makes of the text the bytes of the region, one after the other, with each
\* label at its byte.
ImplementsDump == Dumped!Spec

\* Of the memory, Printer knows the words.
PrinterView ==
    [objects |-> <<[base |-> data.base, size |-> data.end - data.base, exec |-> FALSE]>>,
     fixups  |-> <<[off \in data.fixups |-> NULL]>>,
     words   |-> [a \in data.start .. data.end - WordSize |-> Word(a)]]

Printed ==
    INSTANCE Printer WITH
        Executables <- {},
        exe <- PrinterView,
        regions <- [a \in {data.start} |->
                      [address |-> a, size |-> data.end - a, type |-> "DATA"]],
        labels <- [a \in data.labels |-> [type |-> "DATA", named |-> FALSE]],
        code_trace_queue <- <<>>, phase <- "done", pc <- "return", sites <- {},
        trace <- NULL, scan <- NULL, traced <- <<>>, stage <- "print", next <- 1,
        reg <- data.start, next_label <- NULL, listing <- text.items

\* Each of the steps is one Printer allows for data, so that what holds there
\* for any runs holds for those of the code.
ImplementsPrinter ==
    [][Printed!print_region]_<<loop, addr, len, text.items>>

-----------------------------------------------------------------------------
(* Properties. *)

\* A line of bytes is open when its count says so, over all pieces it goes
\* through, and is ended before a label, a directive and the end of the region,
\* at which all bytes and labels have been written.
TextWellFormed ==
    /\ text.ok
    /\ bytes_in_line \in 0 .. LineBytes - 1
    /\ loop # "after" => text.open = (bytes_in_line > 0)
    /\ loop = "after" =>
        /\ ~ text.open
        /\ text.bytes = Content
        /\ {l[1] : l \in text.labels} = LabelsInside

\* A relocated word is written as an address exactly if it lies in the region
\* with neither a label nor a relocation inside it, whatever pieces, runs and
\* lines come before it; any other is written as the bytes of the old address.
RelocsWritten ==
    loop = "after" =>
        {text.items[i].address : i \in {j \in DOMAIN text.items : text.items[j].refs # {}}}
        = {a \in data.start .. data.end - WordSize :
             /\ Offset(a) \in data.fixups
             /\ \A b \in a + 1 .. a + WordSize - 1 :
                  b \notin data.labels /\ Offset(b) \notin data.fixups}

=============================================================================
