# le_disasm in TLA+

`le_disasm` disassembles a Linear Executable (the format of DOS extenders) into
a source that can be assembled again. This directory holds TLA+ models of it,
the configurations that check them with TLC, and theorems about them whose
proofs TLAPS checks. Line numbers are those of the files in `src/`.

The program is sequential, and reads one file and writes one text. What is hard
about it is not concurrency but a long-lived mutable structure, the map of
*regions*, that three passes split, merge and search, while labels are set,
kept or replaced by rules that depend on what was there before. A mistake shows
many iterations later, as a failed assertion of the printer, as bytes printed
twice or never, or as a jump to a label nobody defined.

## 1. The system

| Component | State | Operations | Talks to |
| --- | --- | --- | --- |
| Region map (`regions.cpp`, `analyser.cpp:30-278`) | `Analyser::regions`, start address → region (size, type) | look up by address, insert a region into its parent (split head and tail), merge with both neighbours | called by every pass |
| Analyser (`analyser.cpp`) | `regions`, `labels`, `code_trace_queue`; locals of the loops, among them a `Region *` | construction from the objects; `run`: trace from the entry point, scan for vtables, trace or label what is left of the relocations | reads the image, the fixups, the decoder |
| Labels (`label.cpp`, `analyser.cpp:477`) | address → type, name | set (functions and named labels are never replaced), remove | analyser, known files, printer |
| Known files (`known_file.cpp`, `known_labels_*.cpp`) | tables | recognise the file; insert regions and labels before `run`, queue the labels; remove labels after it | analyser |
| Disassembler (`disassembler.cpp`) | none between two calls | decode one instruction from a bounded buffer, classify it, find its target | libopcodes (external) |
| Image (`image.cpp`) | objects with their bytes | find the object of an address, the word at an address | analyser, printer |
| LE loader (`le.cpp`) | stream position, header, page and object tables, fixups by object and offset, the set of targets | read the header, the tables and the fixup records, page by page | |
| Relocation (`le_image.cpp`) | the objects' bytes | copy the pages, write the target of each fixup into them | loader, image |
| Printer and main program (`le_disasm.cpp`) | the address printed so far | load, analyse, print each region by its type | all of them |

How they interact: `main_execute` loads the file, builds the image, constructs
the analyser, lets `KnownFile` prepare it, runs it, lets `KnownFile` correct
it, and prints. There are no threads, callbacks or persistent state. The
interactions that matter are inside the analyser: `run` calls the passes, each
pass calls `trace_code`, which empties the worklist, each entry of which is
traced by `trace_code_at_address`, which ends in `insert_region`. Everything a
caller looked up before such a call (a `Region *`, the type of a region) may be
stale after it.

What is hard, and what correctness means for it:

- *The map.* It stays an exact partition of the bytes of the objects: no byte
  lost, none claimed twice. Regions of one type that touch are one region. A
  region found before a loop of decodes or scans is still that region when the
  loop's result is inserted into it, so that the assertions of `insert_region`
  hold.
- *The worklist.* It ends although a loop in the program queues its target at
  each pass; it forgets nothing; nothing is traced without a label.
- *The labels.* Two label rules meet: first come for functions and names, last
  come for everything else. Code labels must survive the data and vtable labels
  later passes set.
- *The bytes.* Each byte of code was decoded, and once. Code is never taken
  back. Vtables are found in code objects only, and unknown bytes do not
  appear elsewhere.
- *The result.* No relocation is left pointing to unknown bytes; what the
  printer asserts about labels holds.
- *The tables of known files.* Data regions stop traces; code behind them is
  still reached; labels removed afterwards are the only ones missing.
- *The listing.* Each byte that was classified is printed once, at a line and
  with the instruction it was traced as; each label is defined once.
- *The text.* An assembler reads from the directives for a piece of data the
  bytes that are there, with the labels at their places, and relocated words
  become addresses again.
- *The decoder.* What it makes of a branch, of something that only looks like
  one, and of an instruction that is cut short, is what the analyser counts on.
- *The file.* Each fixup record is applied once, in its own object and page, and
  inside the object; files are refused for what is wrong with them only.

`PROJECT.json` lists these under `hazards`, each with the line where it bites.

## 2. The modules

| Module | Models | Uses |
| --- | --- | --- |
| `Regions` | the region map as pure operators on a value | |
| `ByteMap` | abstract specification: what the analysis may do to the kind of each byte | |
| `Analyser` | the analyser, one action per loop iteration | `Regions`, refines `ByteMap` |
| `KnownFile` | `main_execute` around the analyser, with the tables of known files | `Analyser` |
| `Printer` | `print_code` and `print_region` over what `KnownFile` leaves | `KnownFile` |
| `Dump` | abstract specification: bytes and labels an assembler gets, in order | |
| `DataText` | the text `print_region` writes for a region of data | refines `Dump` and the data part of `Printer` |
| `Disassembler` | `disassemble` and `set_target_and_type` | compared with the decoder of `Analyser` |
| `Loader` | `LinearExecutable::load`: header, tables, fixup records | |
| `LeImage` | `create_image` and `apply_fixups` over what `Loader` leaves | `Loader` |
| `MCAnalyser`, `MCKnownFile`, `MCPrinter`, `MCDataText`, `MCDisassembler`, `MCLoader` | small executables, regions of data, instructions and files for TLC | |
| `Basics_proofs` | facts about sequences and numbers | |
| `Regions_proofs` | what the operations on a region map do | `Regions` |
| `Analyser_proofs` | the invariant of the analyser; what it leaves behind | `Regions_proofs`, `Basics_proofs` |
| `KnownFile_proofs` | the same for the program with tables | `Analyser_proofs` |
| `Printer_proofs` | the listing | `KnownFile_proofs` |
| `DataText_proofs` | the text of data and its two refinements | `DataText`, `Basics_proofs` |
| `LeImage_proofs` | loading and the image | `LeImage`, `Basics_proofs` |
| `Disassembler_proofs` | the decoder of `Analyser` | `Disassembler` |

### Regions

A map is a function from start addresses to records, `std::map<uint32_t,
Region>`. A `Region *` is the key of its entry, or `NULL`; this is exact as
entries of a `std::map` stay where they are and keep their key. Addresses and
sizes are `uint32_t`, and every sum is taken modulo `AddrSpace`, which stands
for 2^32; so is the end address, which the code computes in 32 bits before it
returns it as a `size_t` (`regions.cpp:50`).

`insert_region` is the composition of the steps of the code: the part of the
parent behind the new region is added first, then the parent is cut back or
overwritten, and then `check_merge_regions` joins the new entry with the
previous and the next one; after a merge with the previous entry the second
test is made on that one, as in the code (`analyser.cpp:265-276`).

### Analyser

The program has no points at which anything else could run, so what an action
is, is a matter of choice: the model has one action per iteration of each loop,
so that every invariant is seen between any two iterations, and each action
does all that its iteration does. `phase` is the pass of `run`, `pc` the loop
that has control in it, `trace` and `scan` hold the locals of the decode loop
and of the vtable scan, `sites` the fixups a pass has left; `traced` is a
history variable that no action reads.

| Code | Actions |
| --- | --- |
| constructor, `add_initial_regions` | `Init` |
| `run`, `add_eip_to_trace_queue` | `add_eip_to_trace_queue` |
| `trace_code` | `SkipQueued`, `StartTrace`, `EntryTraced`, `FixupTraced` |
| `trace_code_at_address` | `DecodeInstruction`, `RegionExhausted`, `InsertCode` |
| `trace_vtables` | `SkipVtable`, `StartScan`, `ScanEntry`, `NoVtable`, `VtableFound`, `InsertVtable`, `VtablesDone` |
| `trace_remaining_relocs` | `SkipReloc`, `TraceReloc`, `LabelData`, `RelocsDone` |

The program under analysis is the constant `Executables`, a set of records: the
objects, the fixups, the entry point, the words of the image, and for each byte
the *set* of instructions that may be there. Each decode picks one of them.
This is more than a program can do (a byte could decode differently in two
traces), and hence safe for invariants; it makes one executable of the model
stand for very many programs.

The decoder is external (libopcodes); what the analyser relies on is a size and
a class, and a target for branches. One thing is kept in detail as it surprises: at the end
of a region the decoder is given fewer bytes than the instruction has, returns a
one-byte pseudo-instruction, and `set_target_and_type` classifies that by its
first byte. `Truncated` lists what can come out: nothing, a return, a call
without a target, or a branch whose target was computed from the wrong bytes
(`stray`).

What is taken from the loader is `IsExecutable`: objects that are not empty,
do not overlap and end below the top of the address space; targets of fixups are
any addresses at all, also unmapped ones. The header of the format guarantees
none of this and the loader does not check it; an executable that breaks it is
out of the scope of the models (see the hazards).

### KnownFile

`stage` is how far `main_execute` has come; `run` is the step of `Analyser`.
The tables are fields of the executable, constrained by `IsKnown` to what the
tables in the source have in common: data regions inside a code object, in
order and with something between any two, and code labels.

### Printer

When `stage` is `"print"` the analysis does not change any more, and the printer
walks over `regions` and `labels`. `loop` is the loop of `print_code` or
`print_region` that has control, or how the program ended: at the end of the
listing, by an assertion (`"aborted"`), or by following a null pointer
(`"crashed"`, the label of a vtable that has none).

| Code | Actions |
| --- | --- |
| `print_code`, before its loop | `StartPrinting` |
| `print_region`, the cases of `switch` | `BeginRegion`, `BeginVtable`, `VtableWithoutLabel`, `SkipUnknown` |
| the loop over code | `PrintInstruction` |
| the loops over data | `StartPiece`, `PrintAddress`, `AddressWithoutLabel`, `PrintData`, `PieceDone` |
| the loop over a vtable | `PrintVtableWord`, `EntryWithoutLabel` |
| the end of each loop | `RegionDone` |
| `print_code`, behind `print_region` | `AdvanceRegion` |

`listing` is a history variable: the labels defined, in order, and the lines with
their addresses, the bytes they stand for and the labels they refer to. The
column, the name of a label, the section and the directive are left out. So is
what data consist of: where `data_is_zeros` or `data_is_string` look at the
bytes, the model allows a run of any length from `MinRun` (4 in the code) up to
the rest of the piece, or none. The properties therefore hold whatever the
data are; `ImplementsPrinter` of `DataText` shows that the runs of the code are
among those.

The printer decodes every region again. `OneMeaning` makes the decoder give what
it gave the analyser, one instruction for each byte; the difference that is left,
and that `PrintedAsTraced` is about, is where the decoder starts and where its
buffer ends.

`ImageRelocated` says that the image the printer reads holds, at each relocation,
its target, unless another relocated word lies over the end of it. That is what
`WordsRelocated` says of the image `create_image` leaves, and what `LeImage_proofs`
proves of it: a word that does not fit into its object is refused, and of two
words that overlap the later one is whole.

### DataText and Dump

The case `DATA` of `print_region`, for one region, with its bytes. `loop`, `addr`
and `len` are those of `Printer`; `bytes_in_line` is the variable of the code,
which counts the bytes on a line whose quote is still open and keeps its value
from one piece to the next. `text` is not the text itself but what an assembler
has made of it: bytes, labels with the number of bytes in front of them, lines as
`Printer` has them, whether a quote is open, and whether there has been an error.

| Code | Actions |
| --- | --- |
| the loop over the pieces | `StartPiece`, `PieceDone`, `RegionDone` |
| `data_is_address` | `PrintAddress`, `AddressWithoutLabel` |
| `data_is_zeros` | `PrintZeros` |
| `data_is_string`, `print_escaped_string` | `PrintString` |
| otherwise | `PrintByte` |

The assembler is external: of it are modelled the meaning of `.long`, `.fill`,
`.ascii` and `.string` (which adds a zero), the escapes that
`print_escaped_string` writes, and that a quote, a line end or any other byte
that is not printable cannot stand in a string as it is. A character is escaped
on its way out and read back on its way in (`Escape`, `Character`), so that one
that is not escaped, or escaped to something else, is seen. The bytes of a line
(`\x..`) are always two digits and are taken as the bytes they are.

`Dump` is what all this is for: the bytes of the region one after the other, and
each label once, at its byte, whatever the directives. `DataText` is shown to
implement it (`ImplementsDump`), and each of its steps to be one that `Printer`
allows for a region of data (`ImplementsPrinter`, with the regions, labels and
fixups of `Printer` computed from the region at hand).

### Disassembler

`print_insn` is libopcodes: it gives the size of an instruction that is whole,
one for an instruction that is cut by the end of the buffer, and a text, of which
`set_target_and_type` only asks whether it contains "jmp". The rest is the code:
prefixes, the first bytes, the type, the displacement by the size of the
instruction.

What the encoding means is stated beside it, from the fields of the encoding
instead of bytes at places (`Meaning`, `IsRelative`, `MeantTarget`). What an
encoding is, is the assumption `IsEncoding`: prefixes, an opcode of one or two
bytes that is none, and for a branch a displacement of the length the opcode and
the prefixes say (`DisplacementBytes`).
`DecodedForAnalyser` then says: what the code makes of an instruction is, to a
trace, what it means; or, when it is cut, one of the results in
`Analyser!disassemble`. "To a trace" is `SameTrace`: how far it goes, whether it
goes on, and the label and address it gets, in terms of the operators of
`Analyser`. This discharges what `Analyser` assumes of its decoder, for the
instructions `IsPlain` describes.

### Loader and LeImage

`load` is the loop that has control, or how loading ended: `"failed"` when `load`
throws an `Error`, `"outside"` when it looks up the records of a page the file
does not have, `"no_image"` when `create_image` returns a null pointer (with
which `main_execute` goes on), `"undefined"` when a word is written outside the
bytes of an object, `"done"` otherwise.

| Code | Actions |
| --- | --- |
| `load_header` with `load_le_header_offset`, `load_object_table`, `load_object_page_table`, `load_fixup_record_offsets` | the actions of these names, each of which reads its table or fails |
| `load_fixup_record_pages`, `load_fixup_record_table` | `BeginFixups`, `LoadFixup`, `RefuseFixup`, `FixupsOfPageLoaded`, `NoSuchPage`, `FixupsOfObjectLoaded`, `FixupsLoaded` |
| `create_image` | `BeginObject`, `CopyPage`, `ReadError`, `PagesCopied`, `FixupsApplied`, `ImageDone` |
| `apply_fixups` | `ApplyFixup`, `WriteOutside`, `RefuseToApply` |

A file is what its tables say: the model does not copy the values of the tables,
as the loader takes them over unchanged. The stream is kept as what can go wrong
with it: parts of the file, or pages, that lie behind its end. A record is its
kind, its offset in the page, its target object and the offset there; how many
bytes it takes only matters where the records of a page end with too few of
them (`remainder`). A byte of the image is zero, a byte of a page of the file,
or a byte of the word that holds a target, so that a byte in a wrong place is
seen whatever its value.

`IsFile` is what is assumed of a file: pages are not empty, the last one is not
longer than the others, bases, sizes and the numbers of pages are addresses (they
have 32 bits), and an object table has at most 2^32 - 2 pages. The page of an
object to begin with is its first one less one, and the page to stop at the sum of
that and of the number of pages, both in 32 bits (`le.cpp:384`, `445-446`,
`le_image.cpp:76`): `StartPage` and `PageEnd` count from one as the file does, and an
object without a first page, or with so many that the sum wraps, has none
(`PagesOf`), and loads. All else is free, among it records at any place, also in front of their object,
and objects that claim pages the file does not have. The offsets of the records
of such a page are looked up without a test (`le.cpp:452-457`), and what is read
is not defined: loading ends with `"outside"`.

`Loader` and `Analyser` are not composed: the analyser does not depend on the
bytes of the file, only on what `IsExecutable` says. Of that, the loader
guarantees nothing about the places of the objects or the entry point.
`get_fixup_addresses` of the analyser is the set of the targets of the fixup map;
`FixupsExact` shows this to be so unless two records with different targets
name one word.

### Faults

Some definitions are preceded by a comment `Fault:` and are used nowhere. Each
is a definition of the model changed as a plausible bug in the code would change
it (a reset that is missing, an assertion's bound that is off by one, a label
rule turned round). Each property was measured against one of them: with the
fault in place of the definition, TLC finds the property violated.
`PROJECT.json` pairs them under `mutants`.

## 3. What is checked

All runs but the decoder's use words of two bytes instead of four, and 16
addresses (64 for the loader, 2^16 for `data_text`); they state `CHECK_DEADLOCK FALSE` because the program ends.

| Run | Executables | Checks |
| --- | --- | --- |
| `flow` | code at 1..6, a second object of two bytes that touches it or not and is code or data; no relocations; three entry points | the map is exact (`RegionsPartition`) and maximal (`RegionsMaximal`), the assertions of `insert_region` hold (`InsertAsserts`), every branch target has a code label (`TargetsLabelled`), code is what was decoded and each byte once (`CodeIsTraced`), and the analysis ends (`Termination`) |
| `relocs` | code at 1..8, data at 10..13, one relocated word in the code, one or two in the data, targets in code, in data, and nowhere; image of ones or with zeros; and two code objects that touch, 1..4 and 5..8, with vtables on both sides of the border, image of ones or of zeros | types, the held `Region *` (`RegionHeld`), the worklist (`WorklistLabelled`, `LabelsFollowed`), the starts of code (`CodeStartsLabelled`), the result (`RelocsClassified`), the objects (`DataObjectsStayData`, and `ReadsWithinObject`: what a trace or a scan may read ends with the object, except for a trace into a vtable), the label rule (`CodeLabelsKept`), refinement (`ImplementsByteMap`), `Termination` |
| `known_file` | code at 1..9, data at 11..12, four tables, three entry points, and files not recognised | the map again with regions inserted beforehand, the assertions for these (`KnownInsertAsserts`), that known labels become code and known data stop traces (`KnownLabelsTraced`, `KnownDataSkipped`), labels removed at the end (`CodeStartsStayLabelled`), refinement |
| `printer` | code at 1..7, data at 9..12, two instructions to choose from at each of five places, each of three fixup tables of the code with each of four of the data, labels removed by hand or not, runs of two bytes | each byte of code, data and vtables is printed once and in order (`PrintedOnce`, which says nothing of a listing with a vtable whose size is no multiple of a word: its last word is printed over what follows), labels are defined once and data are not printed over them (`LabelsPrinted`), no label of a vtable keeps those behind it from being defined (`VtableLabelsPrinted`), the listing shows the instructions that were traced (`PrintedAsTraced`), it stops early only for the reasons listed in `PrinterStops`, and it ends (`PrinterEnds`) |
| `loader` | files of one to three pages of four bytes with two objects; the header at each of its places or not there, each part missing; seven object tables, with pages shared out in order or not, objects longer and shorter than their pages, without any, without a first one, with more than there are, or with so many that the sum of the page numbers wraps; no to two records per page, at offsets from -3 to 3, overlapping, twice the same, or not supported; pages of the types 0, 3 and 5, pages missing | fixups are those of the records, at their places (`FixupsExact`), exactly the files with something missing or unknown are refused (`LoadedIffSound`), each byte of the image is the right one (`ImageExact`), words are written into the objects only, but for one kind of record (`WritesInside`), and loading ends (`LoadEnds`) |
| `data_text` | regions of five or six bytes behind the start of their object: every content over a zero, a quote, a backslash, a `t` and a byte that is no character; and patterns of zeros, tabulators and other bytes under labels and relocations next to each other, overlapping, at and over the end; lines of three bytes, runs of two | quotes are closed where they must be and nothing is lost (`TextWellFormed`), relocated words are addresses if they can be (`RelocsWritten`), the assembler gets the region (`ImplementsDump`), the steps are those of `Printer` (`ImplementsPrinter`) |
| `decoder` | branches of every kind and size, with no or one prefix; displacements forward, back, and that look like opcodes or prefixes; others whose second byte or operand does; each cut at every place, at five addresses out of 2^22 | what comes out is what `Analyser` assumes (`DecodedForAnalyser`) |
| `data_pointers` | those of `relocs` | finds a program for which the assertion at `le_disasm.cpp:384` fails |
| `code_end` | those of `flow` | finds a program with a code region that ends with neither a label nor a jump or return, against `regions.hpp:28` |
| `undefined_labels` | those of `printer` | finds a listing that refers to a label it does not define, against `README.md:8` |
| `last_word` | those of `loader` | finds a file with nothing wrong that is not loaded, against `README.md:7` |
| `rel16` | those of `decoder` | finds a near jump whose target is not where its displacement says, against `disassembler.cpp:165-170` |

Why the bounds are enough to be of use: six to nine bytes of code allow every
case of insertion (at the start, in the middle, at the end, the whole parent)
and of merging (none, previous, next, both, across objects), branches back and
forward, into the middle of an instruction, into another object and out of every
object; instructions of up to three bytes are cut by the end of a region at
every place. The objects do not start at 0, so there are unmapped bytes in front
of, between and behind them. Two fixups per object are enough to have the
trace of one change the region of the other's target. Each action fires in at
least one run. For the properties of section 4 the size of the instance does not
matter: they are proved.

Fairness: `WF_vars(Next)`. The program is one thread that never waits for
anything, so it takes a step whenever it has one; nothing is assumed about which
step. `Termination` needs no more, and `PrinterEnds` no more than the same for the
whole program, `WF_pvars(PrinterNext)`; for `LoadEnds` it is `WF_ivars(ImageNext)`.

The `printer` executables are made so that everything the analysis can leave for
the printer occurs: vtables that are whole, cut by code at a word and inside one,
with and without a label at their start; data with relocated words next to each
other, overlapping, and cut by a label; code regions whose instructions were
truncated when traced; labels behind the last region. Two bytes for a run are
enough, as nothing depends on the length but where the piece ends.

The loader's files have pages of four bytes and words of two, so that a word can
lie inside a page, cross into the next one, and be recorded with either page or
with both. Three pages and two objects are the least with which an object's
pages do not start at the file's first one, the file's last page is not the last
object's, and a record refused late comes after others that were read.

For `data_text` five bytes are enough for a line to fill, for a run behind a line
that is open, for a string with its zero inside the piece, at its end, or behind
it, and for a relocation to end a piece while a line is open. `DataText` and
`Disassembler` state no fairness and no liveness: that the loop over data ends is
`PrinterEnds`, and each of the steps of `DataText` is one of `Printer`; the decoder
has two steps.

The decoder counts in an address space of 2^22, which TLC's integers allow, so
that the lower bytes of a displacement of four count; the fourth is always lost
in the modulo. All four must be those at the end of the instruction
for the lower three to be right.

### What the runs found

- `data_pointers`: `print_region` asserts that a relocated word printed as data
  has a label for its target (`le_disasm.cpp:384`). `trace_remaining_relocs`
  labels targets in unknown and data regions and leaves targets in code alone
  (`analyser.cpp:384-413`), as if code always had a label where data point to.
  A pointer to the middle of a traced block, say to the second instruction of a
  function, has none, and the assertion fails.
- `code_end`: the comment of `regions.hpp:28` says a code region has "either
  label or jump/ret instruction at end". A trace that reaches the end of its
  region (of the object, or the start of a vtable or of known data) ends the
  region with neither.
- `undefined_labels`: a jump into the middle of an instruction that has been
  traced gets a label (`analyser.cpp:141-150`) and is not traced
  (`analyser.cpp:123`). The jump is printed with the label
  (`le_disasm.cpp:139-142`), which is only defined at the start of an instruction
  (`le_disasm.cpp:314-325`). The listing cannot be assembled, although the
  program is to "dump compilable assembly" (`README.md:8`).
- `last_word`: `apply_fixups` refuses a word that ends where its object ends,
  `offset + 4 >= size` (`le_image.cpp:41`); `create_image` returns a null pointer
  and nothing is disassembled.
- `rel16`: the comments of `set_target_and_type` name displacements of two bytes
  (`disassembler.cpp:165-170`), but an instruction of less than five bytes is
  taken to have a displacement of one, and any other of four
  (`disassembler.cpp:208-215`). A jump with an operand size prefix goes where the
  high byte of its displacement says. Such jumps are rare in 32-bit code.

## 4. What is proved

Every theorem holds for all values of the constants that satisfy the named
assumptions of the modules; TLC evaluates these on the instances it checks. They
are: `AddrSpace`, `WordSize`, `MinRun` and `LineBytes` are positive, `NULL` is no
number, and what the program is given is an executable (`IsExecutable`), has
tables (`IsKnown`), is a file (`IsFile`) or a region of data (`IsDataRegion`) as
section 2 describes; for the printer each byte has one meaning (`OneMeaning`) and
the image is relocated (`ImageRelocated`); for the decoder what is in its buffer is
an instruction (`IsEncoding`).

| Module | Theorems | From |
| --- | --- | --- |
| `Regions_proofs` | `LookupCorrect`, `InsertAllowed`, `InsertCorrect`, `InsertWithin`, `InsertTouches`, `InsertHolds`, `InsertHoldsNew` | |
| `Analyser_proofs` | `TypeOK`, `RegionsPartition`, `RegionHeld`, `InsertAsserts`, `CodeStartsLabelled`, `WorklistLabelled`, `LabelsFollowed`, `CodeLabelsKept`, `ImplementsByteMap` | `Inv` |
| | `RegionsMaximal`, `ReadsWithinObject`, `TargetsLabelled`, `DataObjectsStayData`, `CodeIsTraced`, `RelocsClassified`, `VtableInv` | `Inv`, `CodeInv`, `TracedInOneRegion`, `FreeWithinObjects` |
| `KnownFile_proofs` | `RegionsPartition`, `RegionsMaximal`, `KnownInsertAsserts`, `CodeStartsStayLabelled`, `KnownLabelsTraced`, `KnownDataSkipped`, `ImplementsByteMap`, each for the program with tables | `KnownInv`, `KnownCode` |
| `Printer_proofs` | `PrintedOnce`, `LabelsPrinted`, `PrintedAsTraced`, `VtableLabelsPrinted`, `PrinterStops` | `ListingInv`, `TraceInv`, `VtablePrintInv`, `StopInv` |
| `DataText_proofs` | `TextWellFormed`, `RelocsWritten`, `ImplementsDump`, `ImplementsPrinter` | `TextInv` |
| `LeImage_proofs` | `FixupsExact`, `LoadedIffSound`, `ImageExact`, `WritesInside`, `WordsRelocated` | `LoadInv`, `ImageInv` |
| `Disassembler_proofs` | `DecodedForAnalyser` | `DecoderInv` |
| `Basics_proofs` | facts about sequences and numbers the others share | |

None of the properties is inductive on its own. What they need is this.

**The map.** `Regions_proofs` says of every well-formed map what the operations on
it do, and nothing above it opens `insert_region` again. `InsertCorrect`: the
map is well-formed again, the bytes of the new region have its type, all others
the type they had. The argument goes step by step through the code: what
`split_tail`, `split_head` and `absorb` do to the byte view (`InRegion`,
`HasKind`) of the map, and that `joinable` is what `absorb` needs. The heart of it
is that no sum wraps: each end is below `AddrSpace`, so the modulo is the
identity. `InsertTouches`, `InsertHolds` and `InsertWithin` are about regions instead
of bytes: where two are left to be merged, that bytes that lay in one region lie in
one afterwards if the new region does not cut them, and that no region of another
type than the new one grows.

**The analyser.** `Inv` (`InvHolds`) is the conjunction of

- `TypeOK` and `RegionsPartition`: the shape of the state, and the precondition
  of every lemma about the map;
- `RegionHeld`: the link between the locals of the loops and the map. It is what
  makes `InsertAsserts` true at the end of a loop, and needs that nothing but
  the loop's own `insert_region` changes the map while a region is held;
- `WorklistLabelled`: a code label for all that waits, which makes the start of
  the next region labelled; its last parts (nothing waits between two fixups,
  only functions wait during a scan) are what a data or vtable label cannot
  break;
- `CodeStartsLabelled` and `LabelsFollowed`: the invariant in both directions,
  code has labels and labels have code; a merge can only drop starts;
- `NamesAreFunctions`: named labels are functions, so that `set_label` refusing
  to replace a named label never leaves an address with the wrong class.

The step is proved action by action, each action conjunct by conjunct.
`Refinement` maps each step of the analyser to a `ByteMap` step of one run of
bytes, or to a stutter.

**What the analysis leaves.** `CodeIsTraced` says which bytes are code when the
passes are between two traces. In the middle of a trace the decoded instructions
are in `traced` and not yet in the map, so `CodeInv` says: a byte has been decoded
if and only if it is code or belongs to the trace in progress (`BeingTraced`),
and decoded instructions lie apart. It is kept because the region held is not
code. `TracedInOneRegion` adds that each instruction lies in one region of code,
which the printer needs and which is not a fact about bytes: it takes
`InsertHolds`. `RelocsClassified` needs that the fixups a pass has been through
stay dealt with while the pass works on the others.

`ReadsWithinObject` rests on `FreeWithinObjects`: what is unknown or data lies within
one object. Where objects touch that is not a fact about bytes, and it is not true of
code or of vtables, which are joined across the border. It is an invariant because an
insertion joins regions of the inserted type only (`InsertWithin`), and never
inserts what is unknown or data. From it and `RegionHeld` follows that the
decoder and the scan, which get the bytes of one object and the room of a region, stay
within the object. A trace into a vtable is left out: the vtable can go on in the
next object.

**Vtables.** A vtable of the map can be the join of several that were scanned from
different addresses, and later code can have been traced into any of them. So
`VtableInv` speaks of bytes and of the targets of relocations, not of regions.
A scan begins at the target of a relocation and goes no further than the next one
(`ScanInside`), and an insertion of code only takes bytes away; hence a byte of a
vtable that no relocation points to follows another one, or code
(`VtablesBegin`), and from each target of a relocation the vtable goes on in whole
words to the next target and to its end, if that is not code (`VtablesWhole`).
What the printer needs of the labels is that those which are not of code
are at targets of relocations, in the data or in code (`LabelsPlaced`), that the
targets inside vtables have labels (`VtablesLabelled`), and that every word counted
from one is zero or refers to a label (`EntriesLabelled`). `VtablesJoined`
says that two regions that touch are never both vtables, so that the bytes of a
vtable region are all there is of it. `KnownVtables` carries this to the time of
printing.

**Known files.** `KnownInv` follows `stage`: while the tables are inserted, the
state is one the passes may start in (`Prepared`: nothing is code, what waits is
labelled, and what is still to be inserted lies in one region each); from the run
on it is `Inv`, whose step lemmas are used as they are; after the run labels are
removed, so only `TypeOK` and `RegionsPartition` are left. `KnownCode` carries
`CodeInv` and `TracedInOneRegion` to the time of printing.

**The printer.** `ListingInv` is about a listing that is under way: all that lies
in front of the place the loops have come to is printed, nothing behind it is
(`PrintedSoFar`), and the same for the labels (`LabelsSoFar`); `Place` says what
the loops know of their region. `TraceInv` does it for instructions: decoding a
region from its start again meets the instructions that were traced in it, one
after the other. Between two of them nothing is skipped, as every byte of
code has been decoded (`CodeInv`), and the end of a region is no new place to be
cut, as no traced instruction reaches over it (`TracedInOneRegion`).

`VtablesSoFar` is the same for the labels of vtables. The loop keeps one label it
waits for and writes it when it comes to that address; `NextLabelAhead` says that
it is never passed over: all labels in a vtable are at targets of relocations, and
the words are counted from its start, which has a label and hence is one, too.
No vtable has to be excepted from `VtableLabelsPrinted`, not even one with a size
that is no multiple of a word.

`StopInv` says where the printer may stop. For a word of data, `FixupsAhead` (no
relocation inside a piece) and `ImageRelocated` give that the word read is the
target of the relocation (`WordRelocated`), and `RelocsClassified` that this has a
label, or is unmapped, or code. For a vtable, `VtablesBegin` and `VtablesJoined`
give that its first byte is the target of a relocation, which has a label unless
it was removed, or follows code, which has cut it (`VtableStop`). For an entry it
is `EntriesLabelled` (`EntryStop`).

**The text.** `TextInv` relates the text to the region: the bytes are those up to
`addr`, the labels those up to it and the one in front of the piece, the lines
with addresses are at those words that can be written as addresses, and a quote is
open exactly if `bytes_in_line` counts something. `PieceFits` is what makes it
inductive: inside a piece there is neither a label nor a relocation, and it ends
at one or with the region. That a word is written as the bytes it was read from
(`WordBack`) and that an escaped character is read as itself (`EscapeReads`) are
lemmas of their own. The two refinements follow from the invariant, action by
action: `DumpRefinement` takes each directive to the bytes it stands for,
`PrinterRefinement` each step to one of `Printer`. Hence what is proved of
`Printer`, where a run may be anywhere, holds for the runs the code finds.

**The decoder.** `DecoderInv` knows that `print_insn` leaves either the size of the
whole instruction or a size of one. A whole instruction with at most one prefix
has its opcode where the code looks for it (`OpcodeFound`), which tells its type
(`WholeType`), except for what begins with 255 and for far calls, where the code and
the meaning are the same to a trace only; and for a displacement the size of the
whole is less than five exactly if it has one byte (`DisplacementRead`). A cut one is
classified by its first byte, which is a prefix, 15, or the opcode (`FirstByte`); if
it is the opcode of a branch, the target is made from that byte, which `Stray`
has.

**The file.** `LoadInv` says of the records and pages read so far what the
properties say of all of them (`FixupsSoFar`), and that what has been read was
sound (`TablesRead`, `RecordsRead`); `ImageInv` does the same for the pages copied
and the fixups applied. `ImageExact` is the hard one: a page that is
shorter than those before it, or missing, leaves the bytes of the next one where
they are, and a word written later wins over one written earlier only where they
overlap. `WordsRelocated` follows from the same invariant, and is what
`ImageRelocated` assumes of the executables the printer gets.

Attempts to prove these changed the models. `FixupsExact` used to
compare offsets as numbers; the loader computes them in 32 bits, so a record in
front of its object is found at an offset that has wrapped, and the property now
says so. `IsKnown` says that the regions of a table do not touch, which is true
of the tables in the source and which `KnownDataSkipped` rests on. `WordBytes` is
written with a recursive function of its own (`Shifted`). `VtableLabelsPrinted`
used to except vtables whose size is no multiple of a word; the proof does not
need that, and the property holds without it. `PrinterStops` needs
`ImageRelocated`, and `IsEncoding` used to leave the length of a displacement
open, from which the code draws its conclusions.

Induction is done over sets of numbers (`LeastNat`, `InductionUpTo` and
`Recursion` of `Basics_proofs`): the theorems of the library that take a predicate
as a parameter are beyond the provers installed.

Only model-checked are `Termination`, `PrinterEnds` and `LoadEnds`: liveness under
fairness is out of the provers' reach. Every other property of the passing runs is a
theorem.

## 5. What is not modelled

- Of the loader: the bytes of the tables, and fixup records that are not internal
  references or have 16-bit object numbers, which are reported and then read as
  if they were (`le.cpp:489-498`).
- What the analyser does with a null image (`le_disasm.cpp:587-591`).
- Of the listing: names, sections, columns, and the text of instructions, in
  which addresses are replaced by labels (`Operands` of `Printer` keeps which).
- libopcodes and the assembler, which are external. The targets of far jumps and
  instructions with two prefixes: the code gives them targets that mean nothing,
  and no document says what they should become.
- Unknown bytes of code objects: `print_region` prints nothing for them
  (`le_disasm.cpp:488`), which `PrintedOnce` states.
- Objects of the executable that are empty, overlap or end at the top of the
  address space. The reads past the bytes of an object that follow from joining
  code or vtables of two objects that touch: the models have one address space. By
  `ReadsWithinObject` only a trace into a vtable can read there, and the printer.
- Wording, formatting, streams, and the version and build files.

## 6. Plan

In this order:

1. `Regions`, `Analyser`, `ByteMap`, `KnownFile` with their runs and the
   theorems of section 4: done.
2. `Printer` with its runs: done.
3. `Loader` and `LeImage` with their runs: done.
4. `Disassembler`, `DataText` and `Dump` with their runs: done.
5. Theorems about the results of the analyser, known files, the listing, the text
   of data and the file: done (section 4).
6. Vtables in the listing, where the printer stops, and the decoder: done.

What could follow is one specification of the loader and the printer together, in
which `ImageRelocated` would be used as a theorem instead of being assumed of
`Executables` and proved of the image separately.
