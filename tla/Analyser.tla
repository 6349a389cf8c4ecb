------------------------------ MODULE Analyser ------------------------------
(***************************************************************************)
(* The analyser of le_disasm (analyser.cpp): starting from the regions of  *)
(* the objects, it traces code from the entry point, looks for vtables     *)
(* among the targets of relocations, and traces or labels what is left.    *)
(*                                                                         *)
(* The program is sequential.  It is cut into one action per iteration of  *)
(* each of its loops, so that the worklist, the region map and the labels  *)
(* are seen between any two of them.  The calls                            *)
(*                                                                         *)
(*   run -> trace_code -> trace_code_at_address -> insert_region           *)
(*   run -> trace_vtables -> insert_region, trace_code -> ...              *)
(*   run -> trace_remaining_relocs -> trace_code -> ...                    *)
(*                                                                         *)
(* are two control variables: `phase' is the pass run() is in, `pc' the    *)
(* loop that has control inside that pass.                                 *)
(***************************************************************************)
EXTENDS Regions, Sequences, FiniteSets, Functions

CONSTANTS
    Executables,   \* the loaded executables the analyser may be given
    WordSize       \* the bytes of a vtable entry: 4 in the code

(* What LinearExecutable, Image and the disassembler show of a program:    *)
(*   objects     the object headers, in order: base, size, exec            *)
(*   fixups      per object, the relocated offsets and their targets       *)
(*   eip_object, eip_offset   the entry point                              *)
(*   text        per byte, the instructions the bytes from there on may be *)
(*   words       per byte, the word the relocated image has there          *)
(*   stray       where the target of a truncated branch may fall           *)

InstructionType == {"MISC", "COND_JUMP", "JUMP", "CALL", "RET"}

InstructionSet ==
    [size : Address \ {0}, type : InstructionType, target : Address]

LabelType == {"JUMP", "FUNCTION", "VTABLE", "DATA"}

LabelSet == [type : LabelType, named : BOOLEAN]

ObjectBytes(object) == object.base .. object.base + object.size - 1

\* An executable the loader can return, as far as the analyser depends on
\* it: objects that hold something, lie apart and end below the top of the
\* address space.
IsExecutable(e) ==
    /\ e.objects \in Seq([base : Address, size : Address \ {0}, exec : BOOLEAN])
    /\ \A n \in DOMAIN e.objects :
        e.objects[n].base + e.objects[n].size < AddrSpace
    /\ \A m, n \in DOMAIN e.objects :
        m # n => \/ e.objects[m].base + e.objects[m].size <= e.objects[n].base
                 \/ e.objects[n].base + e.objects[n].size <= e.objects[m].base
    /\ DOMAIN e.fixups = DOMAIN e.objects
    /\ \A n \in DOMAIN e.fixups : \A off \in DOMAIN e.fixups[n] :
        off \in Address /\ e.fixups[n][off] \in Address
    /\ e.eip_object \in DOMAIN e.objects
    /\ e.eip_offset \in Address
    /\ \A n \in DOMAIN e.objects : \A a \in ObjectBytes(e.objects[n]) :
        /\ e.text[a] \in SUBSET InstructionSet \ {{}}
        /\ e.words[a] \in Address
    /\ e.stray \subseteq Address

ASSUME WordSizeAssumption == WordSize \in Nat \ {0}
ASSUME ExecutablesAssumption == \A e \in Executables : IsExecutable(e)

VARIABLES
    exe,                \* the executable under analysis (le, image)
    regions,            \* Analyser::regions
    labels,             \* Analyser::labels: address -> [type, named]
    code_trace_queue,   \* Analyser::code_trace_queue
    phase,              \* the pass of run()
    pc,                 \* the loop that has control
    sites,              \* fixups the pass has not finished, as <<n, offset>>
    trace,              \* locals of trace_code_at_address
    scan,               \* locals of the vtable scan of trace_vtables
    traced              \* history: the instruction found at each address

vars == <<exe, regions, labels, code_trace_queue, phase, pc, sites, trace,
          scan, traced>>

-----------------------------------------------------------------------------
(* The executable and its image. *)

Objects == DOMAIN exe.objects

\* image.cpp: the first object whose data hold the address.
get_object_at_address(addr) ==
    IF \E n \in Objects : addr \in ObjectBytes(exe.objects[n])
    THEN CHOOSE n \in Objects : addr \in ObjectBytes(exe.objects[n])
    ELSE NULL

FixupSites == UNION {{<<n, off>> : off \in DOMAIN exe.fixups[n]} : n \in Objects}

FixupAddress(site) == exe.fixups[site[1]][site[2]]

get_fixup_addresses == {FixupAddress(s) : s \in FixupSites}

\* The order in which both passes visit the fixups: by object, and in the
\* order of the std::map within the object.
Precedes(s, t) == s[1] < t[1] \/ (s[1] = t[1] /\ s[2] <= t[2])

CurrentSite == CHOOSE s \in sites : \A t \in sites : Precedes(s, t)

\* util.hpp: the word at an address of the image.
read_le(addr) == exe.words[addr]

\* What libopcodes and set_target_and_type make of an instruction whose bytes
\* run past the end of the buffer: a one-byte `.byte', still classified by
\* its first byte.  A branch is then given a target computed from that byte,
\* an indirect jump becomes a call, and a prefix or a two-byte opcode hides
\* the instruction altogether.
Truncated(inst) ==
    {[size |-> 1, type |-> "MISC", target |-> 0]}
    \cup (IF inst.type = "RET"
          THEN {[size |-> 1, type |-> "RET", target |-> 0]} ELSE {})
    \cup (IF inst.type \in {"JUMP", "CALL"} /\ inst.target = 0
          THEN {[size |-> 1, type |-> "CALL", target |-> 0]} ELSE {})
    \cup (IF inst.type \in {"COND_JUMP", "JUMP", "CALL"} /\ inst.target # 0
          THEN {[size |-> 1, type |-> inst.type, target |-> t] : t \in exe.stray}
          ELSE {})

\* Fault: an instruction may run past the end of the region.
disassemble_PastEnd(addr, length) == exe.text[addr]

disassemble(addr, length) ==
    UNION {IF inst.size <= length THEN {inst} ELSE Truncated(inst) :
             inst \in exe.text[addr]}

-----------------------------------------------------------------------------
(* Labels. *)

Label(type) == [type |-> type, named |-> FALSE]

\* Fault: no label is ever replaced.
set_label_First(map, addr, label) ==
    IF addr \in DOMAIN map THEN map
    ELSE [a \in DOMAIN map \cup {addr} |-> IF a = addr THEN label ELSE map[a]]

\* Fault: every label is replaced.
set_label_Last(map, addr, label) ==
    [a \in DOMAIN map \cup {addr} |-> IF a = addr THEN label ELSE map[a]]

\* A function label and a label with a name are never replaced.
set_label(map, addr, label) ==
    IF addr \in DOMAIN map /\ (map[addr].type = "FUNCTION" \/ map[addr].named)
    THEN map
    ELSE [a \in DOMAIN map \cup {addr} |-> IF a = addr THEN label ELSE map[a]]

-----------------------------------------------------------------------------
(* Construction: add_initial_regions. *)

InitialType(object) == IF object.exec THEN "UNKNOWN" ELSE "DATA"

Bases(e) == {e.objects[n].base : n \in DOMAIN e.objects}

ObjectAt(e, base) ==
    e.objects[CHOOSE n \in DOMAIN e.objects : e.objects[n].base = base]

InitialRegions(e) ==
    [b \in Bases(e) |->
        Region(b, ObjectAt(e, b).size, InitialType(ObjectAt(e, b)))]

InitialLabels(e) ==
    [b \in {a \in Bases(e) : ~ ObjectAt(e, a).exec} |-> Label("DATA")]

NoTrace == [reg |-> NULL, start |-> 0, addr |-> 0, end |-> 0]

NoScan == [reg |-> NULL, address |-> 0, size |-> 0, count |-> 0]

Init ==
    /\ exe \in Executables
    /\ regions = InitialRegions(exe)
    /\ labels = InitialLabels(exe)
    /\ code_trace_queue = <<>>
    /\ phase = "entry"
    /\ pc = "run"
    /\ sites = {}
    /\ trace = NoTrace
    /\ scan = NoScan
    /\ traced = <<>>

-----------------------------------------------------------------------------
(* run: queue the entry point and trace. *)

EntryPoint == (exe.objects[exe.eip_object].base + exe.eip_offset) % AddrSpace

add_eip_to_trace_queue ==
    /\ phase = "entry" /\ pc = "run"
    /\ code_trace_queue' = Append(code_trace_queue, EntryPoint)
    /\ labels' = set_label(labels, EntryPoint,
                           [type |-> "FUNCTION", named |-> TRUE])
    /\ pc' = "trace_code"
    /\ UNCHANGED <<exe, regions, phase, sites, trace, scan, traced>>

-----------------------------------------------------------------------------
(* trace_code: the worklist loop. *)

Queued == Head(code_trace_queue)

\* Fault: code is traced again.
Traceable_Again(reg) == reg # NULL

Traceable(reg) == reg # NULL /\ regions[reg].type # "CODE"

\* Fault: an address that is skipped stays at the head of the worklist.
SkipQueued_Kept ==
    /\ pc = "trace_code"
    /\ code_trace_queue # <<>>
    /\ ~ Traceable(get_region_at_address(regions, Queued))
    /\ UNCHANGED vars

\* An unmapped address is reported and an address already traced is dropped.
SkipQueued ==
    LET reg == get_region_at_address(regions, Queued)
    IN  /\ pc = "trace_code"
        /\ code_trace_queue # <<>>
        /\ ~ Traceable(reg)
        /\ code_trace_queue' = Tail(code_trace_queue)
        /\ UNCHANGED <<exe, regions, labels, phase, pc, sites, trace, scan,
                       traced>>

\* Any other region is traced, whatever its type, from the queued address to
\* at most its end.  The end is read once, before the loop.
StartTrace ==
    LET reg == get_region_at_address(regions, Queued)
    IN  /\ pc = "trace_code"
        /\ code_trace_queue # <<>>
        /\ Traceable(reg)
        /\ trace' = [reg |-> reg, start |-> Queued, addr |-> Queued,
                     end |-> get_end_address(regions[reg])]
        /\ code_trace_queue' = Tail(code_trace_queue)
        /\ pc' = "decode"
        /\ UNCHANGED <<exe, regions, labels, phase, sites, scan, traced>>

\* Fault: run() comes back to the entry pass.
EntryTraced_Again ==
    /\ pc = "trace_code" /\ phase = "entry"
    /\ code_trace_queue = <<>>
    /\ pc' = "next_fixup"
    /\ sites' = FixupSites
    /\ UNCHANGED <<exe, regions, labels, code_trace_queue, phase, trace, scan,
                   traced>>

\* Back in run() or in the pass that called trace_code.
EntryTraced ==
    /\ pc = "trace_code" /\ phase = "entry"
    /\ code_trace_queue = <<>>
    /\ phase' = "vtables"
    /\ pc' = "next_fixup"
    /\ sites' = FixupSites
    /\ UNCHANGED <<exe, regions, labels, code_trace_queue, trace, scan, traced>>

FixupTraced ==
    /\ pc = "trace_code" /\ phase \in {"vtables", "relocs"}
    /\ code_trace_queue = <<>>
    /\ pc' = "next_fixup"
    /\ sites' = sites \ {CurrentSite}
    /\ UNCHANGED <<exe, regions, labels, code_trace_queue, phase, trace, scan,
                   traced>>

-----------------------------------------------------------------------------
(* trace_code_at_address: the decode loop. *)

HasTarget(inst) ==
    inst.target # 0 /\ inst.type \in {"CALL", "COND_JUMP", "JUMP"}

TargetLabel(inst) ==
    Label(IF inst.type = "CALL" THEN "FUNCTION" ELSE "JUMP")

follow_target(inst) ==
    IF HasTarget(inst)
    THEN /\ labels' = set_label(labels, inst.target, TargetLabel(inst))
         /\ code_trace_queue' = Append(code_trace_queue, inst.target)
    ELSE UNCHANGED <<labels, code_trace_queue>>

EndsTrace(inst) == inst.type \in {"JUMP", "RET"}

DecodeInstruction ==
    /\ pc = "decode"
    /\ trace.addr < trace.end
    /\ \E inst \in disassemble(trace.addr, trace.end - trace.addr) :
        /\ follow_target(inst)
        /\ trace' = [trace EXCEPT !.addr = @ + inst.size]
        /\ traced' = [a \in DOMAIN traced \cup {trace.addr} |->
                        IF a = trace.addr THEN inst ELSE traced[a]]
        /\ pc' = IF EndsTrace(inst) THEN "insert_code" ELSE "decode"
    /\ UNCHANGED <<exe, regions, phase, sites, scan>>

RegionExhausted ==
    /\ pc = "decode"
    /\ trace.addr >= trace.end
    /\ pc' = "insert_code"
    /\ UNCHANGED <<exe, regions, labels, code_trace_queue, phase, sites, trace,
                   scan, traced>>

TracedRegion ==
    Region(trace.start, (trace.addr - trace.start) % AddrSpace, "CODE")

InsertCode ==
    /\ pc = "insert_code"
    /\ regions' = insert_region(regions, trace.reg, TracedRegion)
    /\ trace' = NoTrace
    /\ pc' = "trace_code"
    /\ UNCHANGED <<exe, labels, code_trace_queue, phase, sites, scan, traced>>

-----------------------------------------------------------------------------
(* trace_vtables. *)

FixupRegion == get_region_at_address(regions, FixupAddress(CurrentSite))

RegionIsExecutable(reg) ==
    exe.objects[get_object_at_address(regions[reg].address)].exec

\* Fault: vtables are also looked for in data.
MaybeVtable_InData(reg) == reg # NULL /\ regions[reg].type \in {"UNKNOWN", "DATA"}

MaybeVtable(reg) ==
    reg # NULL /\ regions[reg].type = "UNKNOWN" /\ RegionIsExecutable(reg)

\* Fault: the pass does not go on to the next fixup.
SkipVtable_Kept ==
    /\ phase = "vtables" /\ pc = "next_fixup"
    /\ sites # {}
    /\ ~ MaybeVtable(FixupRegion)
    /\ UNCHANGED vars

SkipVtable ==
    /\ phase = "vtables" /\ pc = "next_fixup"
    /\ sites # {}
    /\ ~ MaybeVtable(FixupRegion)
    /\ sites' = sites \ {CurrentSite}
    /\ UNCHANGED <<exe, regions, labels, code_trace_queue, phase, pc, trace,
                   scan, traced>>

\* A vtable ends with its region, or where the next relocation points to.
VtableRoom(reg, address) ==
    LET room == (get_end_address(regions[reg]) - address) % AddrSpace
        aptr == get_next_value(get_fixup_addresses, address)
    IN  IF aptr # NULL /\ aptr - address < room THEN aptr - address ELSE room

StartScan ==
    /\ phase = "vtables" /\ pc = "next_fixup"
    /\ sites # {}
    /\ MaybeVtable(FixupRegion)
    /\ scan' = [reg |-> FixupRegion, address |-> FixupAddress(CurrentSite),
                size |-> VtableRoom(FixupRegion, FixupAddress(CurrentSite)),
                count |-> 0]
    /\ pc' = "scan"
    /\ UNCHANGED <<exe, regions, labels, code_trace_queue, phase, sites, trace,
                   traced>>

ScanAddress == scan.address + WordSize * scan.count

WordFits == WordSize * scan.count + WordSize <= scan.size

\* The offset of the word in its own object is looked up in the fixups of
\* the object the pass is visiting, the one that holds the relocation.
IsRelocated ==
    LET n == get_object_at_address(regions[scan.reg].address)
    IN  (ScanAddress - exe.objects[n].base) % AddrSpace
            \in DOMAIN exe.fixups[CurrentSite[1]]

IsVtableEntry == read_le(ScanAddress) = 0 \/ IsRelocated

\* Fault: a vtable entry is labelled like the target of a jump.
ScanEntry_Jump ==
    /\ pc = "scan"
    /\ WordFits
    /\ IsVtableEntry
    /\ scan' = [scan EXCEPT !.count = @ + 1]
    /\ LET addr == read_le(ScanAddress)
       IN  IF addr # 0
           THEN /\ labels' = set_label(labels, addr, Label("JUMP"))
                /\ code_trace_queue' = Append(code_trace_queue, addr)
           ELSE UNCHANGED <<labels, code_trace_queue>>
    /\ UNCHANGED <<exe, regions, phase, pc, sites, trace, traced>>

ScanEntry ==
    /\ pc = "scan"
    /\ WordFits
    /\ IsVtableEntry
    /\ scan' = [scan EXCEPT !.count = @ + 1]
    /\ LET addr == read_le(ScanAddress)
       IN  IF addr # 0
           THEN /\ labels' = set_label(labels, addr, Label("FUNCTION"))
                /\ code_trace_queue' = Append(code_trace_queue, addr)
           ELSE UNCHANGED <<labels, code_trace_queue>>
    /\ UNCHANGED <<exe, regions, phase, pc, sites, trace, traced>>

NoVtable ==
    /\ pc = "scan"
    /\ ~ (WordFits /\ IsVtableEntry)
    /\ scan.count = 0
    /\ scan' = NoScan
    /\ sites' = sites \ {CurrentSite}
    /\ pc' = "next_fixup"
    /\ UNCHANGED <<exe, regions, labels, code_trace_queue, phase, trace, traced>>

VtableFound ==
    /\ pc = "scan"
    /\ ~ (WordFits /\ IsVtableEntry)
    /\ scan.count > 0
    /\ pc' = "insert_vtable"
    /\ UNCHANGED <<exe, regions, labels, code_trace_queue, phase, sites, trace,
                   scan, traced>>

ScannedRegion ==
    Region(scan.address, (WordSize * scan.count) % AddrSpace, "VTABLE")

InsertVtable ==
    /\ pc = "insert_vtable"
    /\ regions' = insert_region(regions, scan.reg, ScannedRegion)
    /\ labels' = set_label(labels, scan.address, Label("VTABLE"))
    /\ scan' = NoScan
    /\ pc' = "trace_code"
    /\ UNCHANGED <<exe, code_trace_queue, phase, sites, trace, traced>>

VtablesDone ==
    /\ phase = "vtables" /\ pc = "next_fixup"
    /\ sites = {}
    /\ phase' = "relocs"
    /\ sites' = FixupSites
    /\ UNCHANGED <<exe, regions, labels, code_trace_queue, pc, trace, scan,
                   traced>>

-----------------------------------------------------------------------------
(* trace_remaining_relocs. *)

FixupRegionHas(type) == FixupRegion # NULL /\ regions[FixupRegion].type = type

SkipReloc ==
    /\ phase = "relocs" /\ pc = "next_fixup"
    /\ sites # {}
    /\ ~ FixupRegionHas("UNKNOWN") /\ ~ FixupRegionHas("DATA")
    /\ sites' = sites \ {CurrentSite}
    /\ UNCHANGED <<exe, regions, labels, code_trace_queue, phase, pc, trace,
                   scan, traced>>

IsCodeLabel(addr) ==
    addr \in DOMAIN labels /\ labels[addr].type \in {"FUNCTION", "JUMP"}

\* Fault: the target of the relocation is traced without a label.
TraceReloc_Unlabelled ==
    /\ phase = "relocs" /\ pc = "next_fixup"
    /\ sites # {}
    /\ FixupRegionHas("UNKNOWN")
    /\ code_trace_queue' = Append(code_trace_queue, FixupAddress(CurrentSite))
    /\ pc' = "trace_code"
    /\ UNCHANGED <<exe, regions, labels, phase, sites, trace, scan, traced>>

\* The target of a relocation in a part nobody knows is taken for code; it
\* becomes a function unless it is known as code already.
TraceReloc ==
    LET address == FixupAddress(CurrentSite)
    IN  /\ phase = "relocs" /\ pc = "next_fixup"
        /\ sites # {}
        /\ FixupRegionHas("UNKNOWN")
        /\ labels' = IF IsCodeLabel(address) THEN labels
                     ELSE set_label(labels, address, Label("FUNCTION"))
        /\ code_trace_queue' = Append(code_trace_queue, address)
        /\ pc' = "trace_code"
        /\ UNCHANGED <<exe, regions, phase, sites, trace, scan, traced>>

\* Fault: the data get no label.
LabelData_Unlabelled ==
    /\ phase = "relocs" /\ pc = "next_fixup"
    /\ sites # {}
    /\ FixupRegionHas("DATA")
    /\ sites' = sites \ {CurrentSite}
    /\ UNCHANGED <<exe, regions, labels, code_trace_queue, phase, pc, trace,
                   scan, traced>>

LabelData ==
    /\ phase = "relocs" /\ pc = "next_fixup"
    /\ sites # {}
    /\ FixupRegionHas("DATA")
    /\ labels' = set_label(labels, FixupAddress(CurrentSite), Label("DATA"))
    /\ sites' = sites \ {CurrentSite}
    /\ UNCHANGED <<exe, regions, code_trace_queue, phase, pc, trace, scan,
                   traced>>

RelocsDone ==
    /\ phase = "relocs" /\ pc = "next_fixup"
    /\ sites = {}
    /\ phase' = "done"
    /\ pc' = "return"
    /\ UNCHANGED <<exe, regions, labels, code_trace_queue, sites, trace, scan,
                   traced>>

-----------------------------------------------------------------------------

trace_code == SkipQueued \/ StartTrace \/ EntryTraced \/ FixupTraced

trace_code_at_address == DecodeInstruction \/ RegionExhausted \/ InsertCode

trace_vtables ==
    \/ SkipVtable \/ StartScan \/ ScanEntry \/ NoVtable \/ VtableFound
    \/ InsertVtable \/ VtablesDone

trace_remaining_relocs == SkipReloc \/ TraceReloc \/ LabelData \/ RelocsDone

Next ==
    \/ add_eip_to_trace_queue
    \/ trace_code
    \/ trace_code_at_address
    \/ trace_vtables
    \/ trace_remaining_relocs

\* The program is one thread that never waits: it takes a step whenever it
\* has one.
Spec == Init /\ [][Next]_vars /\ WF_vars(Next)

-----------------------------------------------------------------------------
(* The abstract specification: the regions read as the kind of each byte.  *)

MappedBytes == {a \in Address : IsMapped(regions, a)}

KindOf(a) == CHOOSE t \in RegionType : HasKind(regions, a, t)

KindMap == [a \in MappedBytes |-> KindOf(a)]

Abstract == INSTANCE ByteMap WITH kind <- KindMap

\* The region map, split, merged and searched as it is, does to the kinds of
\* the bytes what ByteMap allows and nothing else: each insert_region changes
\* one run of bytes of one kind, and code, once found, is never taken back.
ImplementsByteMap == Abstract!Spec

-----------------------------------------------------------------------------
(* Properties. *)

IsTracing == pc \in {"decode", "insert_code"}

\* The bytes decoded by the trace in progress, not yet in the region map.
BeingTraced(a) == IsTracing /\ trace.start <= a /\ a < trace.addr

\* The variables keep the shape the code's types give them, and the control
\* point agrees with the pass (run(), trace_code(), trace_vtables()).
TypeOK ==
    /\ exe \in Executables
    /\ DOMAIN regions \subseteq Address
    /\ \A k \in DOMAIN regions : regions[k] \in RegionSet
    /\ DOMAIN labels \subseteq Address
    /\ \A a \in DOMAIN labels : labels[a] \in LabelSet
    /\ code_trace_queue \in Seq(Address)
    /\ sites \subseteq FixupSites
    /\ trace \in [reg : Address \cup {NULL}, start : Address, addr : Nat, end : Nat]
    /\ scan \in [reg : Address \cup {NULL}, address : Address, size : Nat,
                count : Nat]
    /\ DOMAIN traced \subseteq Address
    /\ \A a \in DOMAIN traced : traced[a] \in InstructionSet
    /\ \/ phase = "entry" /\ pc \in {"run", "trace_code", "decode", "insert_code"}
       \/ phase = "vtables" /\ pc \in {"next_fixup", "scan", "insert_vtable",
                                       "trace_code", "decode", "insert_code"}
       \/ phase = "relocs" /\ pc \in {"next_fixup", "trace_code", "decode",
                                      "insert_code"}
       \/ phase = "done" /\ pc = "return"

\* Splitting and merging keep the regions an exact partition of the objects:
\* print_code asserts that no region reaches into the next one and prints
\* every byte from its region, so none may be lost or claimed twice.
RegionsPartition ==
    /\ WellFormed(regions)
    /\ \A a \in Address :
        IsMapped(regions, a) <=> get_object_at_address(a) # NULL

\* check_merge_regions after each insertion is enough: two regions of one
\* type never touch, except where an object starts and nothing was inserted.
RegionsMaximal ==
    \A k \in DOMAIN regions :
        LET end == get_end_address(regions[k])
        IN  end \in DOMAIN regions /\ regions[end].type = regions[k].type
                => end \in Bases(exe)

\* The assertions of insert_region hold at each of its calls, although the
\* Region* was looked up before the whole decode or scan loop.
InsertAsserts ==
    /\ pc = "insert_code" =>
        /\ trace.reg \in DOMAIN regions
        /\ insert_allowed(regions, trace.reg, TracedRegion)
    /\ pc = "insert_vtable" =>
        /\ scan.reg \in DOMAIN regions
        /\ insert_allowed(regions, scan.reg, ScannedRegion)

\* The Region* that trace_code_at_address and trace_vtables look up before
\* their loops is still that region when they hand it to insert_region: it
\* has its type, and holds every byte the loop went over.
RegionHeld ==
    /\ IsTracing =>
        /\ trace.reg \in DOMAIN regions
        /\ regions[trace.reg].type # "CODE"
        /\ trace.end = trace.reg + regions[trace.reg].size
        /\ trace.start \in trace.reg .. trace.end - 1
        /\ trace.addr \in trace.start .. trace.end
        /\ pc = "insert_code" => trace.addr > trace.start
    /\ pc \in {"scan", "insert_vtable"} =>
        /\ scan.reg \in DOMAIN regions
        /\ regions[scan.reg].type = "UNKNOWN"
        /\ scan.address \in scan.reg .. scan.reg + regions[scan.reg].size - 1
        /\ scan.size \in 1 .. scan.reg + regions[scan.reg].size - scan.address
        /\ WordSize * scan.count <= scan.size
        /\ pc = "insert_vtable" => scan.count > 0

\* "a set of instructions with a label at start" (regions.hpp:28): the start
\* of a code region is a function or jump label, whatever was merged into it
\* and although later passes put data and vtable labels over jump labels.
CodeStartsLabelled ==
    \A k \in DOMAIN regions : regions[k].type = "CODE" => IsCodeLabel(k)

\* The address is dealt with: nothing is there, it is code, or it is still to
\* be traced.
IsFollowed(t) ==
    \/ get_object_at_address(t) = NULL
    \/ HasKind(regions, t, "CODE")
    \/ t \in Range(code_trace_queue)
    \/ IsTracing /\ t = trace.start

\* Nothing is traced without a label to print at its start.  No target waits
\* between two fixups, where a data label could replace its label, and only
\* the functions of the scanned vtable, which no vtable label can replace,
\* wait during a scan.
WorklistLabelled ==
    /\ \A t \in Range(code_trace_queue) : IsCodeLabel(t)
    /\ IsTracing => IsCodeLabel(trace.start)
    /\ pc = "next_fixup" \/ (pc = "scan" /\ scan.count = 0) =>
        code_trace_queue = <<>>
    /\ pc \in {"scan", "insert_vtable"} =>
        \A t \in Range(code_trace_queue) : labels[t].type = "FUNCTION"

\* The worklist forgets nothing: whatever has a function or jump label is
\* unmapped, code, or still to be traced.
LabelsFollowed ==
    \A a \in DOMAIN labels : IsCodeLabel(a) => IsFollowed(a)

\* Every branch ever decoded has a code label at its target, for the printer
\* to name the target by.
TargetsLabelled ==
    \A a \in DOMAIN traced :
        HasTarget(traced[a]) => IsCodeLabel(traced[a].target)

\* Code is exactly what was decoded, and no byte was decoded as part of two
\* instructions: a trace stops at the end of its region, so it never runs
\* into code traced before, even if that starts inside its last instruction.
CodeIsTraced ==
    \A a \in Address :
        LET holders == {i \in DOMAIN traced : i <= a /\ a < i + traced[i].size}
        IN  /\ Cardinality(holders) <= 1
            /\ holders # {} <=> HasKind(regions, a, "CODE") \/ BeingTraced(a)

\* When the analysis is over no relocation points into the unknown, and the
\* ones that point to data have a label to be printed as.
RelocsClassified ==
    phase = "done" =>
        \A s \in FixupSites :
            LET address == FixupAddress(s)
            IN  /\ ~ HasKind(regions, address, "UNKNOWN")
                /\ HasKind(regions, address, "DATA") => address \in DOMAIN labels

\* The objects have at least one unmapped byte between any two of them.
ObjectsApart ==
    \A m, n \in Objects :
        exe.objects[m].base + exe.objects[m].size # exe.objects[n].base

WithinObject(first, end) ==
    \E n \in Objects :
        /\ exe.objects[n].base <= first
        /\ end <= exe.objects[n].base + exe.objects[n].size

\* The decoder and the vtable scan are given the data of one object, but the
\* room of a region.  The room does not go on behind the object, although the
\* code and the vtables of objects that touch are joined: what insert_region
\* leaves of a region is not.  Only a trace into a vtable may leave its object.
ReadsWithinObject ==
    /\ IsTracing /\ regions[trace.reg].type # "VTABLE" =>
        WithinObject(trace.start, trace.end)
    /\ pc \in {"scan", "insert_vtable"} =>
        WithinObject(scan.reg, scan.address + scan.size)

\* A vtable, or anything unknown, is never made of a byte of an object that
\* is not executable; such a byte is data until code is traced to it.
DataObjectsStayData ==
    \A k \in DOMAIN regions :
        regions[k].type \in {"UNKNOWN", "VTABLE"} =>
            exe.objects[get_object_at_address(k)].exec

\* A function or jump label is never turned into a data or vtable label, nor
\* dropped, although set_label only protects function and named labels: the
\* passes drain the worklist before they label anything else.
CodeLabelsKept ==
    [][\A a \in DOMAIN labels : IsCodeLabel(a) => IsCodeLabel(a)']_labels

\* Tracing ends, and with it both passes over the relocations, although a
\* traced branch may queue its target again and again.
Termination == <>(phase = "done")

\* The assertion of print_region at le_disasm.cpp:384: a relocated word that
\* is printed as data has a label for its target.
DataPointersLabelled ==
    phase = "done" =>
        \A s \in FixupSites :
            LET word == exe.objects[s[1]].base + s[2]
            IN  /\ \E k \in DOMAIN regions :
                    /\ regions[k].type = "DATA"
                    /\ k <= word /\ word + WordSize <= k + regions[k].size
                /\ \A a \in word + 1 .. word + WordSize - 1 :
                    a \notin DOMAIN labels
                => FixupAddress(s) \in DOMAIN labels

\* "either label or jump/ret instruction at end" (regions.hpp:28).
CodeEndsAtLabelOrJump ==
    phase = "done" =>
        \A k \in DOMAIN regions : regions[k].type = "CODE" =>
            LET end == k + regions[k].size
            IN  \/ end \in DOMAIN labels
                \/ \E a \in DOMAIN traced :
                    a + traced[a].size = end /\ EndsTrace(traced[a])

=============================================================================
