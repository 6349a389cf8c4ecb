------------------------------ MODULE Printer ------------------------------
(***************************************************************************)
(* print_code and print_region (le_disasm.cpp): the listing written from   *)
(* the regions and labels the analysis has left, region by region.         *)
(*                                                                         *)
(* Of the listing the model keeps which bytes have been written, at which  *)
(* addresses lines begin, which labels have been defined, and which have   *)
(* been referred to.  Directives, sections and wording are left out, and   *)
(* so is the content of data, which is in DataText: here a run of zeros or *)
(* characters may be anywhere.                                             *)
(***************************************************************************)
EXTENDS KnownFile

CONSTANT MinRun    \* the shortest run of zeros or characters: 4 in the code

ASSUME MinRunAssumption == MinRun \in Nat \ {0}

\* The printer decodes the bytes the analyser has decoded: here every byte
\* has one meaning.
ASSUME OneMeaning ==
    \A e \in Executables : \A n \in DOMAIN e.objects :
        \A a \in ObjectBytes(e.objects[n]) : \E inst \in e.text[a] : e.text[a] = {inst}

\* The image holds the target of each relocation, unless another one has its
\* word over the end of it (apply_fixups in le_image.cpp).
ASSUME ImageRelocated ==
    \A e \in Executables : \A n \in DOMAIN e.objects : \A off \in DOMAIN e.fixups[n] :
        /\ off + WordSize <= e.objects[n].size
        /\ \/ e.words[e.objects[n].base + off] = e.fixups[n][off]
           \/ \E o \in DOMAIN e.fixups[n] : off < o /\ o < off + WordSize

VARIABLES
    loop,         \* the loop that has control, or how the printer ended
    reg,          \* the region print_code has come to
    addr,         \* print_region: what has been printed of it
    len,          \* print_region: what is left of a piece of data
    next_label,   \* print_region: the label a vtable is printed up to
    listing       \* history: what has been written

pvars == <<kvars, loop, reg, addr, len, next_label, listing>>

PrinterInit ==
    /\ KnownInit
    /\ loop = "region"
    /\ reg = NULL
    /\ addr = 0
    /\ len = 0
    /\ next_label = NULL
    /\ listing = <<>>

-----------------------------------------------------------------------------
(* Writing.  The listing is a sequence of items: labels, which have no      *)
(* bytes, and lines of code or data, which may refer to labels.            *)

print_line(a, size, refs) == <<[address |-> a, size |-> size, refs |-> refs]>>

print_label(a) == print_line(a, 0, {})

\* The label at an address, if it has one.
print_label_at(a) == IF a \in DOMAIN labels THEN print_label(a) ELSE <<>>

-----------------------------------------------------------------------------
(* The region in print and its object. *)

Type == regions[reg].type

End == get_end_address(regions[reg])

ObjectIndex == get_object_at_address(reg)

Offset(a) == (a - exe.objects[ObjectIndex].base) % AddrSpace

ObjectFixups == exe.fixups[ObjectIndex]

FirstRegion == CHOOSE k \in DOMAIN regions : \A j \in DOMAIN regions : k <= j

\* for (itr = regions->begin (); ...)
StartPrinting ==
    /\ loop = "region" /\ reg = NULL
    /\ reg' = FirstRegion
    /\ UNCHANGED <<loop, addr, len, next_label, listing>>

BeginRegion ==
    /\ loop = "region" /\ reg # NULL
    /\ Type \in {"CODE", "DATA"}
    /\ addr' = reg
    /\ loop' = "lines"
    /\ UNCHANGED <<reg, len, next_label, listing>>

\* What the analysis has not reached is not printed.
SkipUnknown ==
    /\ loop = "region" /\ reg # NULL
    /\ Type = "UNKNOWN"
    /\ loop' = "after"
    /\ UNCHANGED <<reg, addr, len, next_label, listing>>

\* Fault: the next label is not looked up before the first word.
BeginVtable_NoNext ==
    /\ loop = "region" /\ reg # NULL
    /\ Type = "VTABLE"
    /\ reg \in DOMAIN labels
    /\ listing' = listing \o print_label(reg)
    /\ next_label' = next_label
    /\ addr' = reg
    /\ loop' = "lines"
    /\ UNCHANGED <<reg, len>>

BeginVtable ==
    /\ loop = "region" /\ reg # NULL
    /\ Type = "VTABLE"
    /\ reg \in DOMAIN labels
    /\ listing' = listing \o print_label(reg)
    /\ next_label' = get_next_value(DOMAIN labels, reg)
    /\ addr' = reg
    /\ loop' = "lines"
    /\ UNCHANGED <<reg, len>>

\* The label of a vtable is printed without a test whether it exists.
VtableWithoutLabel ==
    /\ loop = "region" /\ reg # NULL
    /\ Type = "VTABLE"
    /\ reg \notin DOMAIN labels
    /\ loop' = "crashed"
    /\ UNCHANGED <<reg, addr, len, next_label, listing>>

-----------------------------------------------------------------------------
(* print_region: code. *)

\* replace_addresses_with_labels: the addresses in the text of an
\* instruction are the target of a branch and the relocated operands.  A
\* truncated instruction is text without an address.
Operands(inst) ==
    IF inst \notin exe.text[addr] THEN {}
    ELSE (IF HasTarget(inst) THEN {inst.target} ELSE {})
         \cup {ObjectFixups[off] : off \in
                 {o \in DOMAIN ObjectFixups :
                    Offset(addr) <= o /\ o + WordSize <= Offset(addr) + inst.size}}

PrintInstruction ==
    /\ loop = "lines" /\ Type = "CODE"
    /\ addr < End
    /\ \E inst \in disassemble(addr, End - addr) :
        /\ listing' = listing \o print_label_at(addr)
                       \o print_line(addr, inst.size, Operands(inst) \cap DOMAIN labels)
        /\ addr' = addr + inst.size
    /\ UNCHANGED <<loop, reg, len, next_label>>

-----------------------------------------------------------------------------
(* print_region: data, cut into pieces at labels and relocations. *)

\* Fault: the relocation at the address itself counts.
ToNextFixup_AtAddress ==
    LET offs == {o \in DOMAIN ObjectFixups : o >= Offset(addr)}
    IN  IF offs = {} THEN {}
        ELSE {(CHOOSE o \in offs : \A p \in offs : o <= p) - Offset(addr)}

\* The distance to the next relocation; the one at the address itself is
\* passed over.
ToNextFixup ==
    LET off == get_next_value(DOMAIN ObjectFixups, Offset(addr))
    IN  IF off = NULL THEN {} ELSE {off - Offset(addr)}

ToNextLabel ==
    LET next_one == get_next_value(DOMAIN labels, addr)
    IN  IF next_one = NULL THEN {} ELSE {next_one - addr}

Least(S) == CHOOSE x \in S : \A y \in S : x <= y

\* Fault: a piece may run past the end of its region.
StartPiece_PastEnd ==
    /\ loop = "lines" /\ Type = "DATA"
    /\ addr < End
    /\ listing' = listing \o print_label_at(addr)
    /\ len' = Least({AddrSpace - addr} \cup ToNextLabel \cup ToNextFixup)
    /\ loop' = "piece"
    /\ UNCHANGED <<reg, addr, next_label>>

StartPiece ==
    /\ loop = "lines" /\ Type = "DATA"
    /\ addr < End
    /\ listing' = listing \o print_label_at(addr)
    /\ len' = Least({End - addr} \cup ToNextLabel \cup ToNextFixup)
    /\ loop' = "piece"
    /\ UNCHANGED <<reg, addr, next_label>>

data_is_address == len >= WordSize /\ Offset(addr) \in DOMAIN ObjectFixups

\* A relocated word is printed as the label it points to.
PrintAddress ==
    /\ loop = "piece" /\ len > 0
    /\ data_is_address
    /\ read_le(addr) \in DOMAIN labels
    /\ listing' = listing \o print_line(addr, WordSize, {read_le(addr)})
    /\ addr' = addr + WordSize
    /\ len' = len - WordSize
    /\ UNCHANGED <<loop, reg, next_label>>

\* assert (dlabel != NULL)
AddressWithoutLabel ==
    /\ loop = "piece" /\ len > 0
    /\ data_is_address
    /\ read_le(addr) \notin DOMAIN labels
    /\ loop' = "aborted"
    /\ UNCHANGED <<reg, addr, len, next_label, listing>>

\* data_is_zeros, data_is_string: how long a run may be, whatever the bytes.
RunSizes == MinRun .. len

\* A run of zeros or characters, or a byte.
PrintData ==
    /\ loop = "piece" /\ len > 0
    /\ ~ data_is_address
    /\ \E size \in {1} \cup RunSizes :
        /\ listing' = listing \o print_line(addr, size, {})
        /\ addr' = addr + size
        /\ len' = len - size
    /\ UNCHANGED <<loop, reg, next_label>>

PieceDone ==
    /\ loop = "piece" /\ len = 0
    /\ loop' = "lines"
    /\ UNCHANGED <<reg, addr, len, next_label, listing>>

-----------------------------------------------------------------------------
(* print_region: vtables. *)

AtNextLabel == next_label # NULL /\ addr = next_label

PrintVtableWord ==
    /\ loop = "lines" /\ Type = "VTABLE"
    /\ addr < End
    /\ read_le(addr) # 0 => read_le(addr) \in DOMAIN labels
    /\ listing' = listing \o (IF AtNextLabel THEN print_label(addr) ELSE <<>>)
                   \o print_line(addr, WordSize, {read_le(addr)} \ {0})
    /\ next_label' = IF AtNextLabel THEN get_next_value(DOMAIN labels, addr)
                     ELSE next_label
    /\ addr' = addr + WordSize
    /\ UNCHANGED <<loop, reg, len>>

\* assert (label != NULL)
EntryWithoutLabel ==
    /\ loop = "lines" /\ Type = "VTABLE"
    /\ addr < End
    /\ read_le(addr) # 0 /\ read_le(addr) \notin DOMAIN labels
    /\ loop' = "aborted"
    /\ UNCHANGED <<reg, addr, len, next_label, listing>>

RegionDone ==
    /\ loop = "lines"
    /\ addr >= End
    /\ loop' = "after"
    /\ UNCHANGED <<reg, addr, len, next_label, listing>>

-----------------------------------------------------------------------------
(* print_code, after print_region. *)

PreviousRegion == get_previous_value(DOMAIN regions, reg)

NextRegion == get_next_value(DOMAIN regions, reg)

Overlaps ==
    PreviousRegion # NULL /\ get_end_address(regions[PreviousRegion]) > reg

\* Fault: the label is also printed where a region starts.
LabelBehind_Touching == NextRegion = NULL \/ NextRegion >= End

\* A label behind the region, if no region starts there to print it.
LabelBehind == NextRegion = NULL \/ NextRegion > End

\* The assertion that regions do not overlap comes after both have been
\* printed.
AdvanceRegion ==
    /\ loop = "after"
    /\ loop' = CASE Overlaps -> "aborted"
                 [] NextRegion = NULL -> "end"
                 [] OTHER -> "region"
    /\ reg' = IF loop' = "region" THEN NextRegion ELSE reg
    /\ listing' = IF LabelBehind /\ ~ Overlaps
                  THEN listing \o print_label_at(End) ELSE listing
    /\ UNCHANGED <<addr, len, next_label>>

print_region ==
    \/ BeginRegion \/ SkipUnknown \/ BeginVtable \/ VtableWithoutLabel
    \/ PrintInstruction
    \/ StartPiece \/ PrintAddress \/ AddressWithoutLabel \/ PrintData \/ PieceDone
    \/ PrintVtableWord \/ EntryWithoutLabel
    \/ RegionDone

print_code ==
    /\ stage = "print"
    /\ StartPrinting \/ print_region \/ AdvanceRegion
    /\ UNCHANGED kvars

analyse ==
    /\ KnownNext
    /\ UNCHANGED <<loop, reg, addr, len, next_label, listing>>

PrinterNext == analyse \/ print_code

PrinterSpec == PrinterInit /\ [][PrinterNext]_pvars /\ WF_pvars(PrinterNext)

-----------------------------------------------------------------------------
(* Properties. *)

RegionBytes(k) == k .. k + regions[k].size - 1

Labels == {listing[i].address : i \in {j \in DOMAIN listing : listing[j].size = 0}}

Lines == {listing[i].address : i \in {j \in DOMAIN listing : listing[j].size > 0}}

PrintedBytes ==
    UNION {listing[i].address .. listing[i].address + listing[i].size - 1 :
             i \in DOMAIN listing}

\* The listing is in the order of the addresses and prints every byte of code,
\* data and vtables once and nothing else, although its lines are as long as
\* instructions, words and runs happen to be.  The words of a vtable that
\* code has cut may run over its end.
PrintedOnce ==
    (\A k \in DOMAIN regions :
        regions[k].type = "VTABLE" => regions[k].size % WordSize = 0) =>
    /\ \A i \in 1 .. Len(listing) - 1 :
        listing[i].address + listing[i].size <= listing[i + 1].address
    /\ loop = "end" =>
        PrintedBytes = {a \in Address : IsMapped(regions, a)
                                        /\ ~ HasKind(regions, a, "UNKNOWN")}

\* No label is defined twice, although print_code prints labels behind a
\* region and print_region those at its start.  Each label at the start of a
\* line of code or data is defined, and data are never printed over a label.
LabelsPrinted ==
    /\ \A i, j \in DOMAIN listing :
        listing[i].size = 0 /\ listing[j].size = 0
        /\ listing[i].address = listing[j].address => i = j
    /\ loop = "end" => \A a \in DOMAIN labels :
        /\ HasKind(regions, a, "DATA") => a \in Lines
        /\ a \in Lines /\ (HasKind(regions, a, "CODE") \/ HasKind(regions, a, "DATA"))
            => a \in Labels

\* The labels in a vtable are met word by word, and one that is not at a word
\* would keep all those behind it from being defined.  None is, wherever the
\* vtables that have been joined began and wherever code has cut them.
VtableLabelsPrinted ==
    loop = "end" => \A k \in DOMAIN regions :
        regions[k].type = "VTABLE" =>
            DOMAIN labels \cap RegionBytes(k) \subseteq Labels

\* A region of code is printed as the instructions that were traced in it,
\* although its traces started at other addresses, in regions of other sizes,
\* unless an instruction was cut by the end of a region then.
PrintedAsTraced ==
    loop = "end" => \A k \in DOMAIN regions : regions[k].type = "CODE" =>
        LET found == DOMAIN traced \cap RegionBytes(k)
        IN  (\A a \in found : traced[a] \in exe.text[a])
                => Lines \cap RegionBytes(k) = found

\* The vtable has been cut by code that was traced into it.
VtableIsCut(k) ==
    \/ regions[k].size % WordSize # 0
    \/ \E j \in DOMAIN regions :
        regions[j].type = "CODE" /\ get_end_address(regions[j]) = k

\* What the assertions of the printer rest on: regions never overlap, data
\* refer to something labelled unless it is unmapped, code, or had its label
\* removed by hand, a vtable has a label unless code has cut it, and so have
\* its entries, cut or not.
PrinterStops ==
    /\ loop = "crashed" => VtableIsCut(reg) \/ reg \in exe.removed
    /\ loop = "aborted" =>
        /\ ~ Overlaps
        /\ Type = "DATA" =>
            \/ read_le(addr) \in exe.removed
            \/ get_object_at_address(read_le(addr)) = NULL
            \/ HasKind(regions, read_le(addr), "CODE")
        /\ Type = "VTABLE" => read_le(addr) \in exe.removed

\* The listing ends: no piece of data is empty, so that its loop goes on.
PrinterEnds == <>(loop \in {"end", "aborted", "crashed"})

\* "it will dump compilable assembly" (README.md:8): whatever the listing
\* refers to by a label, it defines.
RefsDefined ==
    loop = "end" => \A i \in DOMAIN listing : listing[i].refs \subseteq Labels

=============================================================================
