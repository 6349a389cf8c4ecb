--------------------------- MODULE KnownFile_proofs ---------------------------
(***************************************************************************)
(* A file with tables is analysed as safely as any other: what is inserted *)
(* and queued before the run makes the state one the passes may start in,  *)
(* so all that Analyser_proofs shows of them holds here as well.           *)
(***************************************************************************)
EXTENDS KnownFile, Analyser_proofs

Preparing == stage \in {"regions", "labels", "queue"}

\* The parts of the table still to be inserted lie in one region each.
AheadInOneRegion ==
    \A i \in DOMAIN exe.known_regions :
        i >= next =>
            Holds(regions, exe.known_regions[i].address,
                  exe.known_regions[i].address + exe.known_regions[i].size)

QueuedSoFar ==
    \A a \in DOMAIN labels :
        IsCodeLabel(a) /\ a < next => a \in Range(code_trace_queue)

\* Before the run: nothing is code yet, and all that is queued has a label.
Prepared ==
    /\ TypeOK
    /\ RegionsPartition
    /\ NamesAreFunctions
    /\ phase = "entry" /\ pc = "run" /\ exe.known
    /\ \A k \in DOMAIN regions : regions[k].type \in {"UNKNOWN", "DATA"}
    /\ \A t \in Range(code_trace_queue) : IsCodeLabel(t)
    /\ stage = "regions" => AheadInOneRegion
    /\ stage = "queue" => QueuedSoFar

\* From the run on it is the invariant of the analyser that holds, until the
\* labels are removed.
KnownInv ==
    /\ next \in Nat
    /\ stage \in {"regions", "labels", "queue", "run", "print"}
    /\ Preparing => Prepared
    /\ stage = "run" => Inv
    /\ stage = "print" => phase = "done" /\ TypeOK /\ RegionsPartition

-----------------------------------------------------------------------------
(* The tables. *)

LEMMA KnownFacts ==
    ASSUME TypeOK
    PROVE  /\ IsKnown(exe)
           /\ DOMAIN exe.known_regions \subseteq Nat
           /\ \A i \in DOMAIN exe.known_regions :
                /\ exe.known_regions[i] \in RegionSet
                /\ exe.known_regions[i].address \in Nat
                /\ exe.known_regions[i].size \in Nat \ {0}
                /\ exe.known_regions[i].type = "DATA"
           /\ DOMAIN exe.known_labels \subseteq Nat
           /\ \A i \in DOMAIN exe.known_labels :
                /\ exe.known_labels[i].address \in Address
                /\ exe.known_labels[i].label \in LabelSet
                /\ exe.known_labels[i].label.type \in {"FUNCTION", "JUMP"}
                /\ exe.known_labels[i].label.named
                    => exe.known_labels[i].label.type = "FUNCTION"
<1>1. IsKnown(exe)
  BY KnownAssumption DEF TypeOK
<1>2. /\ DOMAIN exe.known_regions \subseteq Nat
      /\ \A i \in DOMAIN exe.known_regions : exe.known_regions[i] \in RegionSet
  BY <1>1, SeqElements DEF IsKnown
<1>3. /\ DOMAIN exe.known_labels \subseteq Nat
      /\ \A i \in DOMAIN exe.known_labels :
            exe.known_labels[i] \in [address : Address, label : LabelSet]
  BY <1>1, SeqElements DEF IsKnown
<1>4. ASSUME NEW i \in DOMAIN exe.known_regions
      PROVE  /\ exe.known_regions[i].address \in Nat
             /\ exe.known_regions[i].size \in Nat \ {0}
             /\ exe.known_regions[i].type = "DATA"
  BY <1>1, <1>2, AddrSpaceAssumption DEF IsKnown, RegionSet, Address
<1> QED
  BY <1>1, <1>2, <1>3, <1>4 DEF IsKnown

\* The known region is an interval of an executable object.
LEMMA KnownRegionObject ==
    ASSUME TypeOK, NEW i \in DOMAIN exe.known_regions,
           NEW lo, lo = exe.known_regions[i].address,
           NEW hi, hi = exe.known_regions[i].address + exe.known_regions[i].size
    PROVE  /\ lo \in Nat /\ hi \in Nat /\ lo < hi /\ hi < AddrSpace
           /\ \E n \in Objects :
                /\ exe.objects[n].exec
                /\ exe.objects[n].base <= lo
                /\ hi <= exe.objects[n].base + exe.objects[n].size
<1>1. /\ exe.known_regions[i].address \in Nat
      /\ exe.known_regions[i].size \in Nat \ {0}
  BY KnownFacts
<1>2. PICK n \in Objects :
        /\ exe.objects[n].exec
        /\ exe.objects[n].base <= lo
        /\ hi <= exe.objects[n].base + exe.objects[n].size
  BY KnownFacts DEF IsKnown, Objects
<1>3. /\ exe.objects[n].base \in Nat /\ exe.objects[n].size \in Nat
      /\ exe.objects[n].base + exe.objects[n].size < AddrSpace
  BY ExecutableFacts, AddrSpaceAssumption DEF Address
<1> QED
  BY <1>1, <1>2, <1>3, AddrSpaceAssumption

\* Known regions lie apart.
LEMMA KnownRegionsApart ==
    ASSUME TypeOK, NEW i \in DOMAIN exe.known_regions,
           NEW j \in DOMAIN exe.known_regions, i # j
    PROVE  \/ exe.known_regions[i].address + exe.known_regions[i].size
                < exe.known_regions[j].address
           \/ exe.known_regions[j].address + exe.known_regions[j].size
                < exe.known_regions[i].address
BY KnownFacts DEF IsKnown

-----------------------------------------------------------------------------
(* The invariant. *)

LEMMA KnownInitInv == KnownInit => KnownInv
<1> SUFFICES ASSUME KnownInit PROVE KnownInv
  OBVIOUS
<1>1. Init /\ Inv
  BY InitInv DEF KnownInit
<1>2. TypeOK /\ RegionsPartition /\ NamesAreFunctions
  BY <1>1 DEF Inv
<1>3. CASE ~ exe.known
  BY <1>1, <1>3 DEF KnownInit, KnownInv, Preparing
<1>4. CASE exe.known
  <2>1. IsExecutable(exe)
    BY <1>2, ExecutableFacts
  <2>2. \A k \in DOMAIN regions : regions[k].type \in {"UNKNOWN", "DATA"}
    BY <1>1, <2>1, InitialPartition DEF Init
  <2>3. AheadInOneRegion
    <3> SUFFICES ASSUME NEW i \in DOMAIN exe.known_regions
                 PROVE  Holds(regions, exe.known_regions[i].address,
                              exe.known_regions[i].address
                                + exe.known_regions[i].size)
      BY DEF AheadInOneRegion
    <3>1. PICK n \in Objects :
            /\ exe.objects[n].base <= exe.known_regions[i].address
            /\ exe.known_regions[i].address + exe.known_regions[i].size
                 <= exe.objects[n].base + exe.objects[n].size
      BY <1>2, KnownRegionObject
    <3>2. PICK k : k = exe.objects[n].base
      OBVIOUS
    <3>3. k \in DOMAIN regions
      BY <1>1, <3>2 DEF Init, InitialRegions, Bases, Objects
    <3>4. PICK m \in Objects :
            k = exe.objects[m].base /\ regions[k].size = exe.objects[m].size
      BY <1>1, <2>1, <3>3, InitialRegion DEF Init, Region, Objects
    <3>5. m = n
      <4>1. /\ exe.objects[m].base \in Nat /\ exe.objects[m].size \in Nat \ {0}
            /\ exe.objects[n].base \in Nat /\ exe.objects[n].size \in Nat \ {0}
        BY <1>2, ExecutableFacts, AddrSpaceAssumption DEF Address
      <4>2. m # n => \/ exe.objects[m].base + exe.objects[m].size <= exe.objects[n].base
                     \/ exe.objects[n].base + exe.objects[n].size <= exe.objects[m].base
        BY <2>1 DEF IsExecutable, Objects
      <4> QED
        BY <3>2, <3>4, <4>1, <4>2
    <3> QED
      BY <3>1, <3>2, <3>3, <3>4, <3>5 DEF Holds
  <2>4. \A t \in Range(code_trace_queue) : IsCodeLabel(t)
    BY <1>1 DEF Init, Range
  <2>5. stage = "regions" /\ next = 1 /\ phase = "entry" /\ pc = "run"
    BY <1>1, <1>4 DEF KnownInit, Init
  <2> QED
    BY <1>2, <1>4, <2>2, <2>3, <2>4, <2>5 DEF KnownInv, Prepared, Preparing
<1> QED
  BY <1>3, <1>4

\* The region of the table lies in the region it is looked up in.
LEMMA KnownFits ==
    ASSUME TypeOK, RegionsPartition, AheadInOneRegion, next \in DOMAIN exe.known_regions,
           NEW reg, reg = exe.known_regions[next],
           NEW parent, parent = KnownParent(reg)
    PROVE  FitsIn(regions, parent, reg) /\ reg.type = "DATA"
<1>1. /\ reg \in RegionSet /\ reg.type = "DATA"
      /\ reg.address \in Nat /\ reg.size \in Nat \ {0}
      /\ reg.address + reg.size < AddrSpace
      /\ next \in Nat
  BY KnownFacts, KnownRegionObject
<1>2. Holds(regions, reg.address, reg.address + reg.size)
  BY <1>1 DEF AheadInOneRegion
<1>3. PICK k \in DOMAIN regions :
        k <= reg.address /\ reg.address + reg.size <= k + regions[k].size
  BY <1>2 DEF Holds
<1>4. WellFormed(regions) /\ reg.address \in Address
  BY <1>1 DEF RegionsPartition, RegionSet
<1>5. k \in Nat /\ regions[k].address = k /\ regions[k].size \in Nat
  BY <1>4, EndAddress
<1>6. InRegion(regions, k, reg.address)
  BY <1>1, <1>3, <1>5 DEF InRegion
<1>7. parent # NULL
  BY <1>4, <1>6, LookupCorrect DEF KnownParent, IsMapped
<1>8. /\ parent \in DOMAIN regions /\ parent \in Nat /\ regions[parent].size \in Nat
      /\ parent <= reg.address /\ reg.address < parent + regions[parent].size
  BY <1>4, <1>7, LookupRegion DEF KnownParent
<1>9. parent = k
  <2>1. /\ parent < k => parent + regions[parent].size <= k
        /\ k < parent => k + regions[k].size <= parent
    BY <1>4, <1>8 DEF WellFormed
  <2> QED
    BY <1>1, <1>3, <1>5, <1>8, <2>1
<1> QED
  BY <1>1, <1>3, <1>8, <1>9 DEF FitsIn

LEMMA InsertKnownStep == KnownInv /\ insert_known_region => KnownInv'
<1> SUFFICES ASSUME KnownInv, insert_known_region PROVE KnownInv'
  OBVIOUS
<1>1. PICK reg : reg = exe.known_regions[next]
  OBVIOUS
<1>2. PICK parent : parent = KnownParent(reg)
  OBVIOUS
<1>3. /\ stage = "regions" /\ stage' = "regions" /\ next' = next + 1
      /\ next \in Nat /\ next \in DOMAIN exe.known_regions
      /\ regions' = insert_region(regions, parent, reg)
      /\ UNCHANGED <<exe, labels, code_trace_queue, phase, pc, sites, trace, scan,
                     traced>>
  BY <1>1, <1>2 DEF insert_known_region, KnownInv
<1>4. /\ TypeOK /\ RegionsPartition /\ NamesAreFunctions
      /\ phase = "entry" /\ pc = "run" /\ exe.known
      /\ \A k \in DOMAIN regions : regions[k].type \in {"UNKNOWN", "DATA"}
      /\ \A t \in Range(code_trace_queue) : IsCodeLabel(t)
      /\ AheadInOneRegion
  BY <1>3 DEF KnownInv, Preparing, Prepared
<1>5. FitsIn(regions, parent, reg) /\ reg.type = "DATA"
  BY <1>1, <1>2, <1>3, <1>4, KnownFits
<1>6. /\ RegionsPartition'
      /\ DOMAIN regions' \subseteq Address
      /\ \A k \in DOMAIN regions' : regions'[k] \in RegionSet
  BY <1>3, <1>4, <1>5, InsertPartition
<1>7. TypeOK'
  BY <1>3, <1>4, <1>6, ImageUnchanged DEF TypeOK
<1>8. \A k \in DOMAIN regions' : regions'[k].type \in {"UNKNOWN", "DATA"}
  <2>1. WellFormed(regions) /\ parent \in DOMAIN regions
    BY <1>4, <1>5 DEF RegionsPartition, FitsIn
  <2> QED
    BY <1>3, <1>4, <1>5, <2>1, InsertCorrect
<1>9. AheadInOneRegion'
  <2> SUFFICES ASSUME NEW i \in DOMAIN exe.known_regions, i >= next + 1,
                      NEW lo, lo = exe.known_regions[i].address,
                      NEW hi, hi = exe.known_regions[i].address
                                    + exe.known_regions[i].size
               PROVE  Holds(regions', lo, hi)
    BY <1>3 DEF AheadInOneRegion
  <2>1. i \in Nat /\ next \in Nat /\ next < i
    BY <1>3, <1>4, KnownFacts
  <2>2. reg.address + reg.size < lo
    BY <1>1, <1>3, <1>4, <2>1, KnownFacts DEF IsKnown
  <2>3. /\ lo \in Int /\ hi \in Int /\ lo < hi
        /\ reg.address \in Int /\ reg.size \in Int
    BY <1>1, <1>3, <1>4, KnownRegionObject, KnownFacts
  <2>4. Holds(regions, lo, hi)
    BY <1>4, <2>1 DEF AheadInOneRegion
  <2>5. WellFormed(regions)
    BY <1>4 DEF RegionsPartition
  <2> QED
    BY <1>3, <1>5, <2>2, <2>3, <2>4, <2>5, InsertHolds
<1>10. /\ NamesAreFunctions'
       /\ \A t \in Range(code_trace_queue') : IsCodeLabel(t)'
  BY <1>3, <1>4 DEF NamesAreFunctions, IsCodeLabel
<1> QED
  BY <1>3, <1>4, <1>6, <1>7, <1>8, <1>9, <1>10 DEF KnownInv, Preparing, Prepared

LEMMA SetKnownLabelStep == KnownInv /\ set_known_label => KnownInv'
<1> SUFFICES ASSUME KnownInv, set_known_label PROVE KnownInv'
  OBVIOUS
<1>1. PICK address, label : /\ address = exe.known_labels[next].address
                            /\ label = exe.known_labels[next].label
  OBVIOUS
<1>2. /\ stage = "labels" /\ stage' = "labels" /\ next' = next + 1
      /\ next \in Nat /\ next \in DOMAIN exe.known_labels
      /\ labels' = set_label(labels, address, label)
      /\ UNCHANGED <<exe, regions, code_trace_queue, phase, pc, sites, trace, scan,
                     traced>>
  BY <1>1 DEF set_known_label, KnownInv
<1>3. /\ TypeOK /\ RegionsPartition /\ NamesAreFunctions
      /\ phase = "entry" /\ pc = "run" /\ exe.known
      /\ \A k \in DOMAIN regions : regions[k].type \in {"UNKNOWN", "DATA"}
      /\ \A t \in Range(code_trace_queue) : IsCodeLabel(t)
  BY <1>2 DEF KnownInv, Preparing, Prepared
<1>4. /\ address \in Address /\ label \in LabelSet
      /\ label.type \in {"FUNCTION", "JUMP"}
      /\ label.named => label.type = "FUNCTION"
  BY <1>1, <1>2, <1>3, KnownFacts
<1>5. /\ NamesAreFunctions'
      /\ \A b : IsCodeLabel(b) => IsCodeLabel(b)'
  BY <1>2, <1>3, <1>4, SetCodeLabel
<1>6. /\ DOMAIN labels' \subseteq Address
      /\ \A b \in DOMAIN labels' : labels'[b] \in LabelSet
  BY <1>2, <1>3, <1>4, SetLabel
<1>7. /\ FixupSites' = FixupSites
      /\ \A a : get_object_at_address(a)' = get_object_at_address(a)
  BY <1>2, ImageUnchanged
<1>8. TypeOK' /\ RegionsPartition'
  BY <1>2, <1>3, <1>6, <1>7 DEF TypeOK, RegionsPartition
<1> QED
  BY <1>2, <1>3, <1>5, <1>8 DEF KnownInv, Preparing, Prepared

LEMMA QueueLabelStep == KnownInv /\ add_labels_to_trace_queue => KnownInv'
<1> SUFFICES ASSUME KnownInv, add_labels_to_trace_queue PROVE KnownInv'
  OBVIOUS
<1>1. PICK first : first = CHOOSE a \in LabelsToQueue : \A b \in LabelsToQueue : a <= b
  OBVIOUS
<1>2. /\ stage = "queue" /\ stage' = "queue" /\ next' = first + 1
      /\ next \in Nat /\ LabelsToQueue # {}
      /\ code_trace_queue' = Append(code_trace_queue, first)
      /\ UNCHANGED <<exe, regions, labels, phase, pc, sites, trace, scan, traced>>
  BY <1>1 DEF add_labels_to_trace_queue, KnownInv
<1>3. /\ TypeOK /\ RegionsPartition /\ NamesAreFunctions
      /\ phase = "entry" /\ pc = "run" /\ exe.known
      /\ \A k \in DOMAIN regions : regions[k].type \in {"UNKNOWN", "DATA"}
      /\ \A t \in Range(code_trace_queue) : IsCodeLabel(t)
      /\ QueuedSoFar
  BY <1>2 DEF KnownInv, Preparing, Prepared
<1>4. DOMAIN labels \subseteq Nat /\ DOMAIN labels \subseteq Address
  BY <1>3, AddrSpaceAssumption DEF TypeOK, Address
<1>5. /\ first \in DOMAIN labels /\ first \in Nat /\ first >= next /\ IsCodeLabel(first)
      /\ \A b \in LabelsToQueue : first <= b
  <2>1. LabelsToQueue \subseteq Nat
    BY <1>4 DEF LabelsToQueue
  <2>2. \E a \in LabelsToQueue : \A b \in LabelsToQueue : a <= b
    BY <1>2, <2>1, LeastNat
  <2>3. first \in LabelsToQueue /\ \A b \in LabelsToQueue : first <= b
    BY <1>1, <2>2
  <2> QED
    BY <1>4, <2>3 DEF LabelsToQueue
<1>6. /\ code_trace_queue' \in Seq(Address)
      /\ Range(code_trace_queue') = Range(code_trace_queue) \cup {first}
  BY <1>2, <1>3, <1>4, <1>5, RangeAppend DEF TypeOK
<1>7. /\ FixupSites' = FixupSites
      /\ \A a : get_object_at_address(a)' = get_object_at_address(a)
      /\ \A a : IsCodeLabel(a)' <=> IsCodeLabel(a)
  BY <1>2, ImageUnchanged DEF IsCodeLabel
<1>8. TypeOK' /\ RegionsPartition' /\ NamesAreFunctions'
  BY <1>2, <1>3, <1>6, <1>7 DEF TypeOK, RegionsPartition, NamesAreFunctions
<1>9. QueuedSoFar'
  <2> SUFFICES ASSUME NEW a \in DOMAIN labels, IsCodeLabel(a), a < first + 1
               PROVE  a \in Range(code_trace_queue) \/ a = first
    BY <1>2, <1>6, <1>7 DEF QueuedSoFar
  <2>1. CASE a < next
    BY <1>3, <2>1 DEF QueuedSoFar
  <2>2. CASE ~ (a < next)
    <3>1. a \in Nat
      BY <1>4
    <3>2. a \in LabelsToQueue
      BY <1>2, <2>2, <3>1 DEF LabelsToQueue
    <3> QED
      BY <1>5, <3>1, <3>2
  <2> QED
    BY <2>1, <2>2
<1>10. next' \in Nat
  BY <1>2, <1>5
<1> QED
  BY <1>2, <1>3, <1>5, <1>6, <1>7, <1>8, <1>9, <1>10 DEF KnownInv, Preparing, Prepared

\* When every code label is queued the passes may start.
LEMMA LabelsQueuedStep == KnownInv /\ labels_queued => KnownInv'
<1> SUFFICES ASSUME KnownInv, labels_queued PROVE KnownInv'
  OBVIOUS
<1>1. /\ stage = "queue" /\ stage' = "run" /\ LabelsToQueue = {}
      /\ next \in Nat
      /\ UNCHANGED <<vars, next>>
  BY DEF labels_queued, KnownInv
<1>2. Prepared /\ QueuedSoFar
  BY <1>1 DEF KnownInv, Preparing, Prepared
<1>3. LabelsFollowed
  <2> SUFFICES ASSUME NEW a \in DOMAIN labels, IsCodeLabel(a)
               PROVE  a \in Range(code_trace_queue)
    BY DEF LabelsFollowed, IsFollowed
  <2>1. a \in Nat
    BY <1>2, AddrSpaceAssumption DEF Prepared, TypeOK, Address
  <2>2. a \notin LabelsToQueue
    BY <1>1
  <2>3. a < next
    BY <1>1, <2>1, <2>2 DEF LabelsToQueue
  <2> QED
    BY <1>2, <2>3 DEF QueuedSoFar
<1>4. ~ IsTracing
  BY <1>2 DEF Prepared, IsTracing
<1>5. RegionHeld /\ WorklistLabelled /\ CodeStartsLabelled
  BY <1>2, <1>4 DEF Prepared, RegionHeld, WorklistLabelled, CodeStartsLabelled
<1>6. Inv
  BY <1>2, <1>3, <1>5 DEF Prepared, Inv
<1>7. Inv'
  BY <1>1, <1>6, StepInv
<1> QED
  BY <1>1, <1>7 DEF KnownInv, Preparing

LEMMA KnownStepInv == KnownInv /\ [KnownNext]_kvars => KnownInv'
<1> SUFFICES ASSUME KnownInv, [KnownNext]_kvars PROVE KnownInv'
  OBVIOUS
<1>1. ASSUME UNCHANGED vars
      PROVE  /\ TypeOK' = TypeOK /\ RegionsPartition' = RegionsPartition
             /\ NamesAreFunctions' = NamesAreFunctions
             /\ \A a : IsCodeLabel(a)' = IsCodeLabel(a)
             /\ QueuedSoFar' <=> \A a \in DOMAIN labels :
                    IsCodeLabel(a) /\ a < next' => a \in Range(code_trace_queue)
             /\ Inv => Inv'
             /\ phase' = phase /\ pc' = pc /\ exe' = exe /\ regions' = regions
             /\ code_trace_queue' = code_trace_queue
  <2>1. Inv => Inv'
    BY <1>1, StepInv
  <2>2. \A a : IsCodeLabel(a)' = IsCodeLabel(a)
    BY <1>1 DEF vars, IsCodeLabel
  <2>3. TypeOK' = TypeOK /\ RegionsPartition' = RegionsPartition
        /\ NamesAreFunctions' = NamesAreFunctions
    BY <1>1, ImageUnchanged DEF vars, TypeOK, RegionsPartition, NamesAreFunctions
  <2> QED
    BY <1>1, <2>1, <2>2, <2>3 DEF vars, QueuedSoFar
<1>2. CASE UNCHANGED kvars
  <2>1. UNCHANGED vars /\ UNCHANGED <<stage, next>>
    BY <1>2 DEF kvars
  <2>2. AheadInOneRegion' = AheadInOneRegion /\ QueuedSoFar' = QueuedSoFar
    BY <1>1, <2>1 DEF AheadInOneRegion, QueuedSoFar
  <2> QED
    BY <1>1, <2>1, <2>2 DEF KnownInv, Preparing, Prepared
<1>3. CASE known_regions_done
  BY <1>1, <1>3 DEF known_regions_done, KnownInv, Preparing, Prepared
<1>4. CASE known_labels_done
  <2>1. stage = "labels" /\ stage' = "queue" /\ next' = 0 /\ UNCHANGED vars
    BY <1>4 DEF known_labels_done
  <2>2. Prepared
    BY <2>1 DEF KnownInv, Preparing
  <2>3. \A a \in DOMAIN labels : ~ (a < 0)
    BY <2>2, AddrSpaceAssumption DEF Prepared, TypeOK, Address
  <2>4. QueuedSoFar'
    BY <1>1, <2>1, <2>3
  <2> QED
    BY <1>1, <2>1, <2>2, <2>4 DEF KnownInv, Preparing, Prepared
<1>5. CASE run
  <2>1. stage = "run" /\ stage' = "run" /\ next' = next /\ Next /\ Inv
    BY <1>5 DEF run, KnownInv
  <2>2. Inv'
    BY <2>1, StepInv
  <2> QED
    BY <2>1, <2>2 DEF KnownInv, Preparing
<1>6. CASE post_anal_fixups_apply
  <2>1. /\ stage = "run" /\ stage' = "print" /\ phase = "done" /\ Inv
        /\ labels' = IF exe.known
                     THEN [a \in DOMAIN labels \ exe.removed |-> labels[a]]
                     ELSE labels
        /\ UNCHANGED <<exe, regions, code_trace_queue, phase, pc, sites, trace,
                       scan, traced, next>>
    BY <1>6 DEF post_anal_fixups_apply, KnownInv
  <2>2. /\ DOMAIN labels' \subseteq DOMAIN labels
        /\ \A a \in DOMAIN labels' : labels'[a] = labels[a]
    BY <2>1
  <2>3. TypeOK'
    BY <2>1, <2>2, ImageUnchanged DEF Inv, TypeOK
  <2>4. RegionsPartition'
    BY <2>1, ImageUnchanged DEF Inv, RegionsPartition
  <2> QED
    BY <2>1, <2>3, <2>4 DEF KnownInv, Preparing
<1> QED
  BY <1>2, <1>3, <1>4, <1>5, <1>6, InsertKnownStep, SetKnownLabelStep,
     QueueLabelStep, LabelsQueuedStep DEF KnownNext

LEMMA KnownInvHolds == KnownSpec => []KnownInv
<1> QED
  BY KnownInitInv, KnownStepInv, PTL DEF KnownSpec

\* The regions of the tables, too, leave an exact partition.
THEOREM KnownPartition == KnownSpec => []RegionsPartition
<1>1. KnownInv => RegionsPartition
  BY DEF KnownInv, Preparing, Prepared, Inv
<1> QED
  BY <1>1, KnownInvHolds, PTL

\* insert_region's assertions hold for every region of the tables, as no
\* earlier one cut the region it falls into (known_file.cpp:82-90).
THEOREM KnownAssertsHold == KnownSpec => []KnownInsertAsserts
<1>1. KnownInv => KnownInsertAsserts
  <2> SUFFICES ASSUME KnownInv, stage = "regions", next \in DOMAIN exe.known_regions,
                      NEW reg, reg = exe.known_regions[next],
                      NEW parent, parent = KnownParent(reg)
               PROVE  parent # NULL /\ insert_allowed(regions, parent, reg)
    BY DEF KnownInsertAsserts
  <2>1. TypeOK /\ RegionsPartition /\ AheadInOneRegion
    BY DEF KnownInv, Preparing, Prepared
  <2>2. FitsIn(regions, parent, reg)
    BY <2>1, KnownFits
  <2>3. WellFormed(regions) /\ NULL \notin DOMAIN regions
    BY <2>1, NullAssumption DEF RegionsPartition, WellFormed, Address
  <2> QED
    BY <2>2, <2>3, InsertAllowed DEF FitsIn
<1> QED
  BY <1>1, KnownInvHolds, PTL

\* The steps outside the run leave the regions alone, but for the insertions
\* of the tables.
LEMMA KnownWhatChanges ==
    ASSUME KnownInv, [KnownNext]_kvars
    PROVE  /\ exe' = exe
           /\ \/ regions' = regions
              \/ /\ stage = "run" /\ Inv /\ Next
                 /\ UNCHANGED stage
              \/ /\ stage = "regions"
                 /\ \E parent, reg :
                        /\ FitsIn(regions, parent, reg)
                        /\ reg.type = "DATA"
                        /\ next \in DOMAIN exe.known_regions
                        /\ reg = exe.known_regions[next]
                        /\ regions' = insert_region(regions, parent, reg)
<1>1. CASE insert_known_region
  <2>1. stage = "regions" /\ exe' = exe /\ next \in DOMAIN exe.known_regions
    BY <1>1 DEF insert_known_region
  <2>2. TypeOK /\ RegionsPartition /\ AheadInOneRegion
    BY <2>1 DEF KnownInv, Preparing, Prepared
  <2>3. PICK reg, parent : reg = exe.known_regions[next] /\ parent = KnownParent(reg)
    OBVIOUS
  <2>4. FitsIn(regions, parent, reg) /\ reg.type = "DATA"
    BY <2>1, <2>2, <2>3, KnownFits
  <2>5. regions' = insert_region(regions, parent, reg)
    BY <1>1, <2>3 DEF insert_known_region
  <2> QED
    BY <2>1, <2>3, <2>4, <2>5
<1>2. CASE run
  <2>1. exe' = exe
    BY <1>2, WhatChanges DEF run
  <2> QED
    BY <1>2, <2>1 DEF run, KnownInv
<1> QED
  BY <1>1, <1>2 DEF KnownNext, kvars, vars, known_regions_done, set_known_label,
     known_labels_done, add_labels_to_trace_queue, labels_queued,
     post_anal_fixups_apply

\* The regions of the tables are merged like any others.
THEOREM KnownMaximal == KnownSpec => []RegionsMaximal
<1>1. KnownInit => TouchingAtBases
  BY MaximalInit DEF KnownInit
<1>2. KnownInv /\ TouchingAtBases /\ [KnownNext]_kvars => TouchingAtBases'
  <2> SUFFICES ASSUME KnownInv, TouchingAtBases, [KnownNext]_kvars
               PROVE  TouchingAtBases'
    OBVIOUS
  <2>1. exe' = exe
    BY KnownWhatChanges
  <2>2. RegionsPartition
    BY DEF KnownInv, Preparing, Prepared, Inv
  <2>3. CASE regions' = regions
    BY <2>1, <2>3 DEF TouchingAtBases, Bases
  <2>4. CASE Inv /\ Next
    BY <2>4, MaximalStep
  <2>5. CASE \E parent, reg : /\ FitsIn(regions, parent, reg)
                              /\ regions' = insert_region(regions, parent, reg)
    BY <2>1, <2>2, <2>5, MaximalInsert
  <2> QED
    BY <2>3, <2>4, <2>5, KnownWhatChanges
<1> QED
  BY <1>1, <1>2, KnownInvHolds, MaximalMeans, PTL DEF KnownSpec

-----------------------------------------------------------------------------
(* Labels. *)

\* Code regions start at a code label up to the end, where a label may have
\* been removed (known_file.cpp:117).
THEOREM KnownCodeLabelled == KnownSpec => []CodeStartsStayLabelled
<1>1. KnownInit => CodeStartsStayLabelled
  <2> SUFFICES ASSUME KnownInit PROVE CodeStartsLabelled
    BY DEF CodeStartsStayLabelled, CodeStartsLabelled
  <2> QED
    BY InitInv DEF KnownInit, Inv
<1>2. KnownInv /\ CodeStartsStayLabelled /\ [KnownNext]_kvars /\ KnownInv'
        => CodeStartsStayLabelled'
  <2> SUFFICES ASSUME KnownInv, CodeStartsStayLabelled, [KnownNext]_kvars, KnownInv'
               PROVE  CodeStartsStayLabelled'
    OBVIOUS
  <2>1. CASE stage' # "print"
    BY <2>1 DEF KnownInv, Preparing, Prepared, Inv, CodeStartsLabelled,
       CodeStartsStayLabelled
  <2>2. CASE stage' = "print" /\ UNCHANGED kvars
    BY <2>2 DEF kvars, vars, CodeStartsStayLabelled, IsCodeLabel
  <2>3. CASE post_anal_fixups_apply
    <3>1. /\ UNCHANGED <<exe, regions>> /\ stage' = "print" /\ stage = "run"
          /\ labels' = IF exe.known
                       THEN [a \in DOMAIN labels \ exe.removed |-> labels[a]]
                       ELSE labels
      BY <2>3 DEF post_anal_fixups_apply
    <3> QED
      BY <3>1 DEF CodeStartsStayLabelled, IsCodeLabel
  <2> QED
    BY <2>1, <2>2, <2>3 DEF KnownNext, insert_known_region, known_regions_done,
       set_known_label, known_labels_done, add_labels_to_trace_queue,
       labels_queued, run
<1> QED
  BY <1>1, <1>2, KnownInvHolds, PTL DEF KnownSpec

-----------------------------------------------------------------------------
(* The known labels are traced. *)

\* The tables are gone through to their ends.
NextInTable ==
    /\ stage = "regions" => next \in 1 .. Len(exe.known_regions) + 1
    /\ stage = "labels" => next \in 1 .. Len(exe.known_labels) + 1

LEMMA TableDomains ==
    ASSUME TypeOK
    PROVE  /\ DOMAIN exe.known_regions = 1 .. Len(exe.known_regions)
           /\ Len(exe.known_regions) \in Nat
           /\ DOMAIN exe.known_labels = 1 .. Len(exe.known_labels)
           /\ Len(exe.known_labels) \in Nat
BY KnownFacts DEF IsKnown

LEMMA NextInTableStep ==
    KnownInv /\ NextInTable /\ [KnownNext]_kvars => NextInTable'
<1> SUFFICES ASSUME KnownInv, NextInTable, [KnownNext]_kvars PROVE NextInTable'
  OBVIOUS
<1>1. stage # "print" => TypeOK
  BY DEF KnownInv, Preparing, Prepared, Inv
<1>2. exe' = exe
  BY KnownWhatChanges
<1>3. CASE insert_known_region
  BY <1>1, <1>2, <1>3, TableDomains DEF insert_known_region, NextInTable
<1>4. CASE known_regions_done
  BY <1>1, <1>2, <1>4, TableDomains DEF known_regions_done, NextInTable
<1>5. CASE set_known_label
  BY <1>1, <1>2, <1>5, TableDomains DEF set_known_label, NextInTable
<1> QED
  BY <1>2, <1>3, <1>4, <1>5 DEF KnownNext, kvars, vars, known_labels_done,
     add_labels_to_trace_queue, labels_queued, run, post_anal_fixups_apply,
     NextInTable

\* The known labels set so far are code labels; once the tables are used up
\* all of them are, until the run is over.
KnownLabelled ==
    /\ stage = "labels" =>
        \A i \in DOMAIN exe.known_labels :
            i < next => IsCodeLabel(exe.known_labels[i].address)
    /\ stage \in {"queue", "run"} /\ exe.known =>
        \A i \in DOMAIN exe.known_labels :
            IsCodeLabel(exe.known_labels[i].address)

\* Nothing waits when the passes are over.
NothingWaits ==
    stage \in {"run", "print"} /\ phase = "done" => code_trace_queue = <<>>

\* ... and the known labels that are mapped are in code regions then.
KnownTraced == stage = "print" => KnownLabelsTraced

LEMMA DoneMeansTraced ==
    ASSUME KnownInv, KnownLabelled, NothingWaits, stage = "run"
    PROVE  KnownLabelsTraced
<1> SUFFICES ASSUME phase = "done", exe.known, NEW i \in DOMAIN exe.known_labels,
                    NEW a, a = exe.known_labels[i].address,
                    get_object_at_address(a) # NULL
             PROVE  HasKind(regions, a, "CODE")
  BY DEF KnownLabelsTraced
<1>1. Inv /\ IsCodeLabel(a)
  BY DEF KnownInv, KnownLabelled
<1>2. IsFollowed(a) /\ ~ IsTracing
  BY <1>1 DEF Inv, TypeOK, LabelsFollowed, IsCodeLabel, IsTracing
<1>3. code_trace_queue = <<>>
  BY DEF NothingWaits
<1> QED
  BY <1>2, <1>3 DEF IsFollowed, Range

LEMMA KnownLabelledStep ==
    KnownInv /\ NextInTable /\ KnownLabelled /\ [KnownNext]_kvars
        => KnownLabelled'
<1> SUFFICES ASSUME KnownInv, NextInTable, KnownLabelled, [KnownNext]_kvars PROVE KnownLabelled'
  OBVIOUS
<1>1. ASSUME UNCHANGED labels PROVE \A a : IsCodeLabel(a)' = IsCodeLabel(a)
  BY <1>1 DEF IsCodeLabel
<1>2. CASE UNCHANGED kvars
  BY <1>1, <1>2 DEF kvars, vars, KnownLabelled
<1>3. CASE insert_known_region
  BY <1>3 DEF insert_known_region, KnownLabelled
<1>4. CASE known_regions_done
  <2>1. stage = "regions" /\ stage' = "labels" /\ next' = 1 /\ exe' = exe
    BY <1>4 DEF known_regions_done, vars
  <2>2. \A i \in DOMAIN exe.known_labels : ~ (i < 1)
    <3>1. exe.known_labels \in Seq([address : Address, label : LabelSet])
      BY <2>1, KnownFacts DEF KnownInv, Preparing, Prepared, IsKnown
    <3> QED
      BY <3>1
  <2> QED
    BY <2>1, <2>2 DEF KnownLabelled
<1>5. CASE set_known_label
  <2>1. PICK address, label : /\ address = exe.known_labels[next].address
                              /\ label = exe.known_labels[next].label
    OBVIOUS
  <2>2. /\ stage = "labels" /\ stage' = "labels" /\ next' = next + 1 /\ exe' = exe
        /\ next \in Nat /\ next \in DOMAIN exe.known_labels
        /\ labels' = set_label(labels, address, label)
        /\ TypeOK /\ NamesAreFunctions
    BY <1>5, <2>1 DEF set_known_label, KnownInv, Preparing, Prepared
  <2>3. /\ address \in Address /\ label \in LabelSet
        /\ label.type \in {"FUNCTION", "JUMP"}
        /\ label.named => label.type = "FUNCTION"
    BY <2>1, <2>2, KnownFacts
  <2>4. IsCodeLabel(address)' /\ \A b : IsCodeLabel(b) => IsCodeLabel(b)'
    BY <2>2, <2>3, SetCodeLabel
  <2>5. ASSUME NEW i \in DOMAIN exe.known_labels, i < next + 1
        PROVE  IsCodeLabel(exe.known_labels[i].address)'
    <3>0. PICK a : a = exe.known_labels[i].address
      OBVIOUS
    <3>1. i \in Nat
      BY <2>2, KnownFacts
    <3>2. IsCodeLabel(a) \/ a = address
      BY <2>1, <2>2, <2>5, <3>0, <3>1 DEF KnownLabelled
    <3>3. IsCodeLabel(a)'
      BY <2>4, <3>2
    <3> QED
      BY <2>2, <3>0, <3>3 DEF IsCodeLabel
  <2> QED
    BY <2>2, <2>5 DEF KnownLabelled
<1>6. CASE known_labels_done
  <2>1. /\ stage = "labels" /\ stage' = "queue" /\ exe' = exe /\ UNCHANGED labels
        /\ next \notin DOMAIN exe.known_labels /\ next \in Nat
    BY <1>6 DEF known_labels_done, vars, KnownInv
  <2>2. \A i \in DOMAIN exe.known_labels : i < next
    BY <2>1, TableDomains DEF KnownInv, Preparing, Prepared, NextInTable
  <2> QED
    BY <1>1, <2>1, <2>2 DEF KnownLabelled
<1>7. CASE add_labels_to_trace_queue \/ labels_queued
  <2>1. /\ stage = "queue" /\ stage' \in {"queue", "run"} /\ exe' = exe
        /\ UNCHANGED labels /\ exe.known
    BY <1>7 DEF add_labels_to_trace_queue, labels_queued, vars, KnownInv,
       Preparing, Prepared
  <2> QED
    BY <1>1, <2>1 DEF KnownLabelled
<1>8. CASE run
  <2>1. stage = "run" /\ stage' = "run" /\ Next /\ Inv /\ exe' = exe
    BY <1>8, WhatChanges DEF run, KnownInv
  <2>2. \A a : IsCodeLabel(a) => IsCodeLabel(a)'
    BY <2>1, CodeLabelsStep
  <2>3. ASSUME exe.known, NEW i \in DOMAIN exe.known_labels
        PROVE  IsCodeLabel(exe.known_labels[i].address)'
    <3>0. PICK a : a = exe.known_labels[i].address
      OBVIOUS
    <3>1. IsCodeLabel(a)'
      BY <2>1, <2>2, <2>3, <3>0 DEF KnownLabelled
    <3> QED
      BY <2>1, <3>0, <3>1 DEF IsCodeLabel
  <2> QED
    BY <2>1, <2>3 DEF KnownLabelled
<1>9. CASE post_anal_fixups_apply
  BY <1>9 DEF post_anal_fixups_apply, KnownLabelled
<1> QED
  BY <1>2, <1>3, <1>4, <1>5, <1>6, <1>7, <1>8, <1>9 DEF KnownNext

LEMMA NothingWaitsStep ==
    KnownInv /\ NothingWaits /\ [KnownNext]_kvars => NothingWaits'
<1> SUFFICES ASSUME KnownInv, NothingWaits, [KnownNext]_kvars PROVE NothingWaits'
  OBVIOUS
<1>1. CASE run
  <2>1. stage = "run" /\ stage' = "run" /\ Inv /\ Next
    BY <1>1 DEF run, KnownInv
  <2>2. CASE RelocsDone
    BY <2>1, <2>2 DEF RelocsDone, NothingWaits, Inv, WorklistLabelled
  <2>3. phase' = "done" => RelocsDone
    BY <2>1 DEF Inv, TypeOK, Next, add_eip_to_trace_queue, trace_code,
       trace_code_at_address, trace_vtables, trace_remaining_relocs, SkipQueued,
       StartTrace, EntryTraced, FixupTraced, DecodeInstruction, RegionExhausted,
       InsertCode, SkipVtable, StartScan, ScanEntry, NoVtable, VtableFound,
       InsertVtable, VtablesDone, SkipReloc, TraceReloc, LabelData
  <2> QED
    BY <2>2, <2>3 DEF NothingWaits
<1>2. CASE labels_queued
  BY <1>2 DEF labels_queued, vars, NothingWaits, KnownInv, Preparing, Prepared
<1> QED
  BY <1>1, <1>2 DEF KnownNext, kvars, vars, insert_known_region,
     known_regions_done, set_known_label, known_labels_done,
     add_labels_to_trace_queue, post_anal_fixups_apply, NothingWaits

\* The known labels are traced in their own right, whatever the known regions
\* cut off: at the end each one that is mapped is in a code region.
THEOREM KnownLabelsCode == KnownSpec => []KnownLabelsTraced
<1>1. KnownInit => NextInTable /\ KnownLabelled /\ NothingWaits /\ KnownTraced
  <2> SUFFICES ASSUME KnownInit
               PROVE  NextInTable /\ KnownLabelled /\ NothingWaits /\ KnownTraced
    OBVIOUS
  <2>1. /\ stage = IF exe.known THEN "regions" ELSE "run"
        /\ next = 1 /\ phase = "entry" /\ TypeOK
    BY InitInv DEF KnownInit, Init, Inv
  <2> QED
    BY <2>1, TableDomains DEF NextInTable, KnownLabelled, NothingWaits, KnownTraced
<1>2. KnownInv /\ KnownLabelled /\ NothingWaits /\ KnownTraced /\ [KnownNext]_kvars
        => KnownTraced'
  <2> SUFFICES ASSUME KnownInv, KnownLabelled, NothingWaits, KnownTraced,
                      [KnownNext]_kvars, stage' = "print"
               PROVE  KnownLabelsTraced'
    BY DEF KnownTraced
  <2>1. \/ stage = "print" /\ UNCHANGED <<exe, regions, phase>>
        \/ stage = "run" /\ UNCHANGED <<exe, regions, phase>>
    BY DEF KnownNext, kvars, vars, insert_known_region, known_regions_done,
       set_known_label, known_labels_done, add_labels_to_trace_queue,
       labels_queued, run, post_anal_fixups_apply
  <2>2. KnownLabelsTraced
    BY <2>1, DoneMeansTraced DEF KnownTraced
  <2> QED
    BY <2>1, <2>2, ImageUnchanged DEF KnownLabelsTraced
<1>3. KnownInv /\ KnownLabelled /\ NothingWaits /\ KnownTraced => KnownLabelsTraced
  <2>1. KnownInv /\ stage \notin {"run", "print"} => phase # "done"
    BY DEF KnownInv, Preparing, Prepared
  <2> QED
    BY <2>1, DoneMeansTraced DEF KnownTraced, KnownLabelsTraced
<1> QED
  BY <1>1, <1>2, <1>3, KnownInvHolds, NextInTableStep, KnownLabelledStep,
     NothingWaitsStep, PTL DEF KnownSpec

-----------------------------------------------------------------------------
(* The known data are skipped. *)

AllData(i) ==
    \A a \in Address :
        InKnownRegion(exe.known_regions[i], a) => HasKind(regions, a, "DATA")

LabelInside(i) ==
    \E a \in DOMAIN labels :
        InKnownRegion(exe.known_regions[i], a) /\ IsCodeLabel(a)

\* What is data in a code object is so by the tables.
DataInTables ==
    \A a \in Address :
        HasKind(regions, a, "DATA") =>
            \/ ~ ObjectIsExecutable(a)
            \/ \E i \in DOMAIN exe.known_regions :
                    InKnownRegion(exe.known_regions[i], a)

\* The regions of the tables inserted so far.
TablesInserted ==
    /\ stage = "regions" => \A i \in DOMAIN exe.known_regions : i < next => AllData(i)
    /\ stage = "labels" => \A i \in DOMAIN exe.known_regions : AllData(i)

LEMMA DataInTablesInit == Init => DataInTables
<1> SUFFICES ASSUME Init, NEW a \in Address, HasKind(regions, a, "DATA")
             PROVE  ~ ObjectIsExecutable(a)
  BY DEF DataInTables
<1>1. IsExecutable(exe) /\ TypeOK
  BY InitInv, ExecutablesAssumption DEF Init, Inv
<1>2. PICK k \in DOMAIN regions : InRegion(regions, k, a) /\ regions[k].type = "DATA"
  BY DEF HasKind
<1>3. PICK n \in Objects :
        /\ k = exe.objects[n].base
        /\ regions[k] = Region(k, exe.objects[n].size, InitialType(exe.objects[n]))
  BY <1>1, InitialRegion DEF Init, Objects
<1>4. ~ exe.objects[n].exec
  BY <1>2, <1>3 DEF Region, InitialType
<1>5. /\ exe.objects[n].base \in Int /\ exe.objects[n].size \in Int /\ a \in Int
      /\ exe.objects[n].base <= a
      /\ a < exe.objects[n].base + exe.objects[n].size
  BY <1>1, <1>2, <1>3, ExecutableFacts, AddrSpaceAssumption
     DEF InRegion, Region, Address
<1>6. a \in ObjectBytes(exe.objects[n])
  BY <1>5 DEF ObjectBytes
<1> QED
  BY <1>1, <1>4, <1>6, ObjectOf DEF ObjectIsExecutable

\* What the two insertions of the run do to data.
LEMMA RunData ==
    ASSUME Inv, Next, NEW a \in Address
    PROVE  /\ HasKind(regions', a, "DATA") => HasKind(regions, a, "DATA")
           /\ HasKind(regions, a, "DATA") =>
                \/ HasKind(regions', a, "DATA")
                \/ InsertCode /\ trace.start <= a /\ a < trace.addr
<1>1. a \in Int /\ "DATA" \in RegionType /\ WellFormed(regions)
  BY AddrSpaceAssumption DEF Address, RegionType, Inv, RegionsPartition
<1>2. CASE regions' = regions
  BY <1>2
<1>3. CASE InsertCode
  <2>1. HasKind(regions', a, "DATA") <=>
            IF trace.start <= a /\ a < trace.addr THEN FALSE
            ELSE HasKind(regions, a, "DATA")
    BY <1>1, <1>3, TracedFits, InsertCorrect DEF InsertCode
  <2> QED
    BY <1>3, <2>1
<1>4. CASE InsertVtable
  <2>1. /\ FitsIn(regions, scan.reg, ScannedRegion)
        /\ ScannedRegion.type = "VTABLE"
        /\ regions[scan.reg].type = "UNKNOWN"
    BY <1>4, ScannedFits DEF InsertVtable, Inv, RegionHeld
  <2> DEFINE within == /\ ScannedRegion.address <= a
                       /\ a < ScannedRegion.address + ScannedRegion.size
  <2>2. HasKind(regions', a, "DATA") <=>
            IF within THEN FALSE ELSE HasKind(regions, a, "DATA")
    BY <1>1, <1>4, <2>1, InsertCorrect DEF InsertVtable
  <2>3. ASSUME within PROVE ~ HasKind(regions, a, "DATA")
    <3>1. HasKind(regions, a, "UNKNOWN")
      BY <1>1, <2>1, <2>3, FitsInEnds DEF FitsIn, HasKind, InRegion
    <3> QED
      BY <1>1, <3>1, OneKind
  <2> QED
    BY <2>2, <2>3
<1> QED
  BY <1>2, <1>3, <1>4, WhatChanges

LEMMA DataInTablesStep ==
    KnownInv /\ DataInTables /\ [KnownNext]_kvars => DataInTables'
<1> SUFFICES ASSUME KnownInv, DataInTables, [KnownNext]_kvars PROVE DataInTables'
  OBVIOUS
<1>0. /\ exe' = exe
      /\ \A a : ObjectIsExecutable(a)' = ObjectIsExecutable(a)
  BY KnownWhatChanges, ImageUnchanged DEF ObjectIsExecutable
<1> SUFFICES ASSUME NEW a \in Address, HasKind(regions', a, "DATA")
             PROVE  \/ ~ ObjectIsExecutable(a)
                    \/ \E i \in DOMAIN exe.known_regions :
                            InKnownRegion(exe.known_regions[i], a)
  BY <1>0 DEF DataInTables
<1>1. ASSUME HasKind(regions, a, "DATA")
      PROVE  \/ ~ ObjectIsExecutable(a)
             \/ \E i \in DOMAIN exe.known_regions :
                    InKnownRegion(exe.known_regions[i], a)
  BY <1>1 DEF DataInTables
<1>2. CASE regions' = regions
  BY <1>1, <1>2
<1>3. CASE Inv /\ Next
  BY <1>1, <1>3, RunData
<1>4. ASSUME NEW parent, NEW reg, FitsIn(regions, parent, reg), reg.type = "DATA",
             next \in DOMAIN exe.known_regions, reg = exe.known_regions[next],
             regions' = insert_region(regions, parent, reg)
      PROVE  HasKind(regions, a, "DATA") \/ InKnownRegion(reg, a)
  <2>1. a \in Int /\ "DATA" \in RegionType /\ WellFormed(regions)
    BY AddrSpaceAssumption
       DEF Address, RegionType, KnownInv, Preparing, Prepared, Inv, RegionsPartition
  <2> QED
    BY <1>4, <2>1, InsertCorrect DEF InKnownRegion
<1> QED
  BY <1>1, <1>2, <1>3, <1>4, KnownWhatChanges

LEMMA TablesInsertedStep ==
    KnownInv /\ NextInTable /\ TablesInserted /\ [KnownNext]_kvars => TablesInserted'
<1> SUFFICES ASSUME KnownInv, NextInTable, TablesInserted, [KnownNext]_kvars
             PROVE  TablesInserted'
  OBVIOUS
<1>0. exe' = exe
  BY KnownWhatChanges
<1>1. ASSUME regions' = regions PROVE \A i : AllData(i)' = AllData(i)
  BY <1>0, <1>1 DEF AllData
<1>2. CASE UNCHANGED kvars
  BY <1>1, <1>2 DEF kvars, vars, TablesInserted
<1>3. CASE insert_known_region
  <2>1. /\ stage = "regions" /\ stage' = "regions" /\ next' = next + 1
        /\ next \in DOMAIN exe.known_regions
        /\ TypeOK /\ RegionsPartition /\ AheadInOneRegion
    BY <1>3 DEF insert_known_region, KnownInv, Preparing, Prepared
  <2>2. PICK reg, parent : reg = exe.known_regions[next] /\ parent = KnownParent(reg)
    OBVIOUS
  <2>3. regions' = insert_region(regions, parent, reg)
    BY <1>3, <2>2 DEF insert_known_region
  <2>4. FitsIn(regions, parent, reg) /\ reg.type = "DATA"
    BY <2>1, <2>2, KnownFits
  <2>5. WellFormed(regions) /\ "DATA" \in RegionType
    BY <2>1 DEF RegionsPartition, RegionType
  <2>6. ASSUME NEW a \in Address
        PROVE  /\ HasKind(regions, a, "DATA") => HasKind(regions', a, "DATA")
               /\ InKnownRegion(reg, a) => HasKind(regions', a, "DATA")
    <3>1. a \in Int
      BY AddrSpaceAssumption DEF Address
    <3> QED
      BY <2>3, <2>4, <2>5, <3>1, InsertCorrect DEF InKnownRegion
  <2>7. ASSUME NEW i \in DOMAIN exe.known_regions, i < next + 1 PROVE AllData(i)'
    <3>1. i \in Nat /\ next \in Nat
      BY <2>1, KnownFacts
    <3>2. i < next \/ i = next
      BY <2>7, <3>1
    <3> QED
      BY <1>0, <2>1, <2>2, <2>6, <3>2 DEF TablesInserted, AllData
  <2> QED
    BY <1>0, <2>1, <2>7 DEF TablesInserted
<1>4. CASE known_regions_done
  <2>1. /\ stage = "regions" /\ stage' = "labels" /\ regions' = regions
        /\ next \notin DOMAIN exe.known_regions /\ TypeOK
    BY <1>4 DEF known_regions_done, vars, KnownInv, Preparing, Prepared
  <2>2. \A i \in DOMAIN exe.known_regions : i < next
    BY <2>1, TableDomains DEF NextInTable
  <2> QED
    BY <1>0, <1>1, <2>1, <2>2 DEF TablesInserted
<1>5. CASE set_known_label
  BY <1>0, <1>1, <1>5 DEF set_known_label, TablesInserted
<1> QED
  BY <1>2, <1>3, <1>4, <1>5 DEF KnownNext, known_labels_done,
     add_labels_to_trace_queue, labels_queued, run, post_anal_fixups_apply,
     TablesInserted

\* A trace that started outside a known region does not reach into it: the
\* byte in front of the region is not data, so no region spans both.
LEMMA TraceStops ==
    ASSUME Inv, pc = "insert_code", InsertCode, DataInTables, ObjectsApart,
           NEW i \in DOMAIN exe.known_regions, AllData(i)
    PROVE  AllData(i)' \/ InKnownRegion(exe.known_regions[i], trace.start)
<1> SUFFICES ASSUME ~ InKnownRegion(exe.known_regions[i], trace.start),
                    NEW a \in Address, InKnownRegion(exe.known_regions[i], a),
                    ~ HasKind(regions', a, "DATA")
             PROVE  FALSE
  BY DEF AllData, InsertCode
<1>1. PICK lo, hi : /\ lo = exe.known_regions[i].address
                    /\ hi = exe.known_regions[i].address + exe.known_regions[i].size
  OBVIOUS
<1>2. TypeOK /\ RegionsPartition /\ WellFormed(regions)
  BY DEF Inv, RegionsPartition
<1>3. PICK n \in Objects :
        /\ lo \in Nat /\ hi \in Nat /\ lo < hi /\ hi < AddrSpace
        /\ exe.objects[n].exec
        /\ exe.objects[n].base <= lo
        /\ hi <= exe.objects[n].base + exe.objects[n].size
  BY <1>1, <1>2, KnownRegionObject
<1>4. a \in Nat /\ lo <= a /\ a < hi
  BY <1>1, AddrSpaceAssumption DEF InKnownRegion, Address
<1>5. HasKind(regions, a, "DATA") /\ trace.start <= a /\ a < trace.addr
  <2>1. HasKind(regions, a, "DATA")
    BY DEF AllData
  <2>2. Next
    BY DEF Next, trace_code_at_address
  <2> QED
    BY <2>1, <2>2, RunData
<1>6. /\ trace.reg \in DOMAIN regions /\ trace.reg \in Nat
      /\ regions[trace.reg].address = trace.reg
      /\ regions[trace.reg].size \in Nat
      /\ trace.start \in Nat /\ trace.addr \in Nat
      /\ trace.reg <= trace.start
      /\ trace.addr <= trace.reg + regions[trace.reg].size
  <2>1. /\ trace.reg \in DOMAIN regions
        /\ trace.end = trace.reg + regions[trace.reg].size
        /\ trace.start \in trace.reg .. trace.end - 1
        /\ trace.addr \in trace.start .. trace.end
    BY DEF Inv, RegionHeld, IsTracing
  <2>2. /\ trace.reg \in Nat /\ regions[trace.reg].address = trace.reg
        /\ regions[trace.reg].size \in Nat
    BY <1>2, <2>1, EndAddress
  <2> QED
    BY <2>1, <2>2
<1>7. trace.start < lo
  BY <1>1, <1>3, <1>4, <1>5, <1>6 DEF InKnownRegion
<1>8. regions[trace.reg].type = "DATA"
  <2>1. HasKind(regions, a, regions[trace.reg].type)
    BY <1>4, <1>5, <1>6 DEF HasKind, InRegion
  <2> QED
    BY <1>2, <1>4, <1>5, <2>1, OneKind
<1>9. PICK b \in Address : b = lo - 1 /\ b \in Nat
  BY <1>3, <1>6, <1>7, AddrSpaceAssumption DEF Address
<1>10. HasKind(regions, b, "DATA") /\ IsMapped(regions, b)
  <2>1. InRegion(regions, trace.reg, b)
    BY <1>3, <1>4, <1>5, <1>6, <1>7, <1>9 DEF InRegion
  <2> QED
    BY <1>6, <1>8, <2>1 DEF HasKind, IsMapped
<1>11. CASE exe.objects[n].base <= b
  <2>1. b \in ObjectBytes(exe.objects[n])
    <3>1. exe.objects[n].base \in Nat /\ exe.objects[n].size \in Nat
      BY <1>2, ExecutableFacts, AddrSpaceAssumption DEF Address
    <3> QED
      BY <1>3, <1>9, <1>11, <3>1 DEF ObjectBytes
  <2>2. ObjectIsExecutable(b)
    BY <1>2, <1>3, <2>1, ObjectOf DEF ObjectIsExecutable
  <2>3. PICK j \in DOMAIN exe.known_regions : InKnownRegion(exe.known_regions[j], b)
    BY <1>10, <2>2 DEF DataInTables
  <2>4. /\ exe.known_regions[j].address \in Nat /\ exe.known_regions[j].size \in Nat
        /\ exe.known_regions[j].address <= b
        /\ b < exe.known_regions[j].address + exe.known_regions[j].size
    BY <1>2, <2>3, KnownFacts DEF InKnownRegion
  <2>5. j # i
    BY <1>1, <1>3, <1>9, <2>4
  <2> QED
    BY <1>1, <1>2, <1>3, <1>9, <2>4, <2>5, KnownRegionsApart
<1>12. CASE ~ (exe.objects[n].base <= b)
  <2>1. PICK m \in Objects : b \in ObjectBytes(exe.objects[m])
    BY <1>2, <1>10, ObjectFound DEF RegionsPartition
  <2>2. /\ exe.objects[n].base \in Nat /\ exe.objects[n].size \in Nat
        /\ exe.objects[m].base \in Nat /\ exe.objects[m].size \in Nat
    BY <1>2, ExecutableFacts, AddrSpaceAssumption DEF Address
  <2>3. exe.objects[m].base <= b /\ b < exe.objects[m].base + exe.objects[m].size
    BY <2>1, <2>2 DEF ObjectBytes
  <2>4. m # n
    BY <1>12, <2>3
  <2>5. \/ exe.objects[m].base + exe.objects[m].size <= exe.objects[n].base
        \/ exe.objects[n].base + exe.objects[n].size <= exe.objects[m].base
    BY <1>2, <2>4, ExecutableFacts DEF IsExecutable, Objects
  <2>6. exe.objects[m].base + exe.objects[m].size # exe.objects[n].base
    BY DEF ObjectsApart
  <2> QED
    BY <1>3, <1>9, <1>12, <2>2, <2>3, <2>5, <2>6
<1> QED
  BY <1>11, <1>12

\* Code that runs towards a known region stops in front of it, whatever is
\* traced: its bytes stay data unless a code label lies inside it
\* (known_file.cpp:82-90).
THEOREM KnownDataKept == KnownSpec => []KnownDataSkipped
<1>1. KnownInit => NextInTable /\ DataInTables /\ TablesInserted
  <2> SUFFICES ASSUME KnownInit PROVE NextInTable /\ DataInTables /\ TablesInserted
    OBVIOUS
  <2>1. /\ stage = IF exe.known THEN "regions" ELSE "run"
        /\ next = 1 /\ TypeOK /\ Init
    BY InitInv DEF KnownInit, Inv
  <2>2. \A i \in DOMAIN exe.known_regions : ~ (i < 1)
    BY <2>1, TableDomains
  <2> QED
    BY <2>1, <2>2, TableDomains, DataInTablesInit DEF NextInTable, TablesInserted
<1>2. KnownInit => KnownDataSkipped
  <2>1. KnownInit => stage \notin {"queue", "run"} \/ ~ exe.known
    BY DEF KnownInit
  <2> QED
    BY <2>1 DEF KnownDataSkipped
<1>3. ASSUME KnownInv, DataInTables, TablesInserted, KnownDataSkipped,
             [KnownNext]_kvars
      PROVE  KnownDataSkipped'
  <2>0. exe' = exe
    BY <1>3, KnownWhatChanges
  <2>1. KnownDataSkipped <=>
            (stage \in {"queue", "run"} /\ exe.known /\ ObjectsApart =>
                \A i \in DOMAIN exe.known_regions : AllData(i) \/ LabelInside(i))
    BY DEF KnownDataSkipped, AllData, LabelInside
  <2>2. KnownDataSkipped' <=>
            (stage' \in {"queue", "run"} /\ exe.known /\ ObjectsApart =>
                \A i \in DOMAIN exe.known_regions : AllData(i)' \/ LabelInside(i)')
    BY <2>0 DEF KnownDataSkipped, AllData, LabelInside, ObjectsApart, Objects
  <2>3. ASSUME regions' = regions PROVE \A i : AllData(i)' = AllData(i)
    BY <2>0, <2>3 DEF AllData
  <2>4. ASSUME labels' = labels PROVE \A i : LabelInside(i)' = LabelInside(i)
    BY <2>0, <2>4 DEF LabelInside, IsCodeLabel
  <2>5. CASE UNCHANGED kvars
    BY <1>3, <2>1, <2>2, <2>3, <2>4, <2>5 DEF kvars, vars
  <2>6. CASE known_labels_done
    BY <1>3, <2>2, <2>3, <2>6 DEF known_labels_done, vars, TablesInserted
  <2>7. CASE add_labels_to_trace_queue \/ labels_queued
    BY <1>3, <2>1, <2>2, <2>3, <2>4, <2>7
       DEF add_labels_to_trace_queue, labels_queued, vars
  <2>8. CASE run
    <3> SUFFICES ASSUME exe.known, ObjectsApart, NEW i \in DOMAIN exe.known_regions
                 PROVE  AllData(i)' \/ LabelInside(i)'
      BY <2>2
    <3>1. stage = "run" /\ Next /\ Inv
      BY <1>3, <2>8 DEF run, KnownInv
    <3>2. AllData(i) \/ LabelInside(i)
      BY <1>3, <2>1, <3>1
    <3>3. CASE LabelInside(i)
      <4>1. PICK a \in DOMAIN labels :
              InKnownRegion(exe.known_regions[i], a) /\ IsCodeLabel(a)
        BY <3>3 DEF LabelInside
      <4>2. IsCodeLabel(a)'
        BY <3>1, <4>1, CodeLabelsStep
      <4> QED
        BY <2>0, <4>1, <4>2 DEF LabelInside, IsCodeLabel
    <3>4. CASE AllData(i) /\ InsertCode
      <4>1. AllData(i)' \/ InKnownRegion(exe.known_regions[i], trace.start)
        BY <1>3, <3>1, <3>4, TraceStops DEF InsertCode
      <4>2. IsCodeLabel(trace.start)
        BY <3>1, <3>4 DEF Inv, WorklistLabelled, IsTracing, InsertCode
      <4>3. LabelInside(i) => LabelInside(i)'
        BY <2>4, <3>4 DEF InsertCode
      <4> QED
        BY <4>1, <4>2, <4>3 DEF LabelInside, IsCodeLabel
    <3>5. CASE AllData(i) /\ ~ InsertCode
      <4>1. \A a \in Address :
                HasKind(regions, a, "DATA") => HasKind(regions', a, "DATA")
        BY <3>1, <3>5, RunData
      <4> QED
        BY <2>0, <3>5, <4>1 DEF AllData
    <3> QED
      BY <3>2, <3>3, <3>4, <3>5
  <2> QED
    BY <1>3, <2>2, <2>5, <2>6, <2>7, <2>8 DEF KnownNext, insert_known_region,
       known_regions_done, set_known_label, post_anal_fixups_apply
<1> QED
  BY <1>1, <1>2, <1>3, KnownInvHolds, NextInTableStep, DataInTablesStep,
     TablesInsertedStep, PTL DEF KnownSpec

-----------------------------------------------------------------------------
(* The byte map is implemented with the tables, too. *)

LEMMA KnownAbstractStep ==
    KnownInv /\ KnownInv' /\ [KnownNext]_kvars => [Abstract!Next]_KindMap
<1> SUFFICES ASSUME KnownInv, KnownInv', [KnownNext]_kvars
             PROVE  [Abstract!Next]_KindMap
  OBVIOUS
<1>1. RegionsPartition /\ RegionsPartition'
  BY DEF KnownInv, Preparing, Prepared, Inv
<1>2. CASE regions' = regions
  BY <1>2 DEF KindMap, MappedBytes, KindOf
<1>3. CASE Inv /\ Next
  BY <1>3, StepInv, AbstractStep
<1>4. CASE /\ stage = "regions"
           /\ \E parent, reg :
                /\ FitsIn(regions, parent, reg)
                /\ reg.type = "DATA"
                /\ regions' = insert_region(regions, parent, reg)
  <2>1. PICK parent, reg :
            /\ FitsIn(regions, parent, reg)
            /\ reg.type = "DATA"
            /\ regions' = insert_region(regions, parent, reg)
    BY <1>4
  <2>2. \A k \in DOMAIN regions : regions[k].type \in {"UNKNOWN", "DATA"}
    BY <1>4 DEF KnownInv, Preparing, Prepared
  <2>3. PICK lo, hi \in 0 .. AddrSpace - 1 :
            /\ Abstract!Uniform(lo, hi, regions[parent].type)
            /\ Abstract!Reclassify(lo, hi, "DATA")
    BY <1>1, <2>1, InsertReclassifies
  <2>4. regions[parent].type \in Abstract!Kinds
    BY <2>1, <2>2 DEF FitsIn, Abstract!Kinds
  <2>5. \A a \in DOMAIN KindMap : KindMap[a] \in {"UNKNOWN", "DATA"}
    <3> SUFFICES ASSUME NEW a \in MappedBytes
                 PROVE  KindOf(a) \in {"UNKNOWN", "DATA"}
      BY DEF KindMap
    <3>1. HasKind(regions, a, KindOf(a))
      BY <1>1, KindOfByte DEF MappedBytes
    <3> QED
      BY <2>2, <3>1 DEF HasKind
  <2>6. Abstract!DeclareData(lo, hi)
    BY <2>3, <2>4, <2>5 DEF Abstract!DeclareData
  <2> QED
    BY <2>6 DEF Abstract!Next
<1> QED
  BY <1>2, <1>3, <1>4, KnownWhatChanges

\* Declaring the data of the tables is a step of the byte map as well, and
\* one that comes before any code is found.
THEOREM KnownRefinement == KnownSpec => ImplementsByteMap
<1>1. KnownInit => Abstract!Init
  BY AbstractInit DEF KnownInit
<1> QED
  BY <1>1, KnownInvHolds, KnownAbstractStep, PTL
  DEF KnownSpec, ImplementsByteMap, Abstract!Spec

-----------------------------------------------------------------------------
(* The decoded instructions, up to the time they are printed. *)

\* Nothing is decoded before the run, and what the run decodes stays where it
\* is.
KnownCode ==
    /\ Preparing => DOMAIN traced = {}
    /\ stage \in {"run", "print"} => CodeInv /\ TracedInOneRegion

LEMMA KnownCodeInit == KnownInit => KnownCode
<1> SUFFICES ASSUME KnownInit PROVE KnownCode
  OBVIOUS
<1>1. Init /\ CodeInv
  BY CodeInit DEF KnownInit
<1>2. DOMAIN traced = {}
  BY <1>1 DEF Init
<1> QED
  BY <1>1, <1>2 DEF KnownCode, TracedInOneRegion

LEMMA KnownCodeStep == KnownInv /\ KnownCode /\ [KnownNext]_kvars => KnownCode'
<1> SUFFICES ASSUME KnownInv, KnownCode, [KnownNext]_kvars PROVE KnownCode'
  OBVIOUS
<1>1. ASSUME UNCHANGED <<regions, traced, trace, pc>>, CodeInv, TracedInOneRegion
      PROVE  CodeInv' /\ TracedInOneRegion'
  <2>1. CodeInv'
    BY <1>1, CodeQuiet DEF BeingTraced, IsTracing
  <2> QED
    BY <1>1, <2>1 DEF TracedInOneRegion, HeldAsCode, IsTracing
<1>2. CASE UNCHANGED kvars
  BY <1>1, <1>2 DEF kvars, vars, KnownCode, Preparing
<1>3. CASE \/ insert_known_region \/ known_regions_done \/ set_known_label
           \/ known_labels_done \/ add_labels_to_trace_queue
  BY <1>3 DEF insert_known_region, known_regions_done, set_known_label,
     known_labels_done, add_labels_to_trace_queue, vars, KnownCode, Preparing
<1>4. CASE labels_queued
  <2>1. stage = "queue" /\ stage' = "run" /\ UNCHANGED vars /\ Prepared
    BY <1>4 DEF labels_queued, KnownInv, Preparing
  <2>2. DOMAIN traced = {} /\ ~ IsTracing
    BY <2>1 DEF KnownCode, Preparing, Prepared, IsTracing
  <2>3. \A a : ~ HasKind(regions, a, "CODE")
    BY <2>1 DEF Prepared, HasKind
  <2>4. CodeInv /\ TracedInOneRegion
    BY <2>2, <2>3 DEF CodeInv, TracedApart, TracedIsCode, IsDecoded, BeingTraced,
       TracedInOneRegion
  <2> QED
    BY <1>1, <2>1, <2>4 DEF vars, KnownCode, Preparing
<1>5. CASE run
  <2>1. stage = "run" /\ stage' = "run" /\ Inv /\ Next
    BY <1>5 DEF run, KnownInv
  <2>2. CodeInv /\ TracedInOneRegion
    BY <2>1 DEF KnownCode
  <2> QED
    BY <2>1, <2>2, CodeStep, HeldStep DEF KnownCode, Preparing
<1>6. CASE post_anal_fixups_apply
  BY <1>1, <1>6 DEF post_anal_fixups_apply, KnownCode, Preparing
<1> QED
  BY <1>2, <1>3, <1>4, <1>5, <1>6 DEF KnownNext

LEMMA KnownCodeHolds == KnownSpec => []KnownCode
<1> QED
  BY KnownInvHolds, KnownCodeInit, KnownCodeStep, PTL DEF KnownSpec

-----------------------------------------------------------------------------
(* The vtables and the relocations, up to the time they are printed.       *)

\* What the passes leave is there for the printer, but for the labels that
\* are removed after the run.
VtablesLeft ==
    /\ VtableBytes
    /\ \A a \in DOMAIN labels : IsVtable(a) => a \in get_fixup_addresses
    /\ \A b \in get_fixup_addresses :
        IsVtable(b) => b \in DOMAIN labels \/ b \in exe.removed
    /\ \A from \in get_fixup_addresses, a \in Int :
        from <= a /\ InStep(from, a) /\ VtableFrom(from, a + 1)
            => IsEntry(a) \/ read_le(a) \in exe.removed

RelocsLeft ==
    \A b \in get_fixup_addresses :
        /\ ~ HasKind(regions, b, "UNKNOWN")
        /\ HasKind(regions, b, "DATA") => b \in DOMAIN labels \/ b \in exe.removed

KnownVtables ==
    /\ Preparing => LabelsPlaced
    /\ stage = "run" => VtableInv /\ RelocsHandled
    /\ stage = "print" => VtablesLeft /\ RelocsLeft

LEMMA KnownVtablesInit == KnownInit => KnownVtables
<1> SUFFICES ASSUME KnownInit PROVE KnownVtables
  OBVIOUS
<1>1. Init /\ Inv /\ LabelsPlaced /\ stage \in {"regions", "run"}
  BY InitInv, LabelsPlacedInit DEF KnownInit
<1>2. VtableInv
  <2>1. IsExecutable(exe) /\ regions = InitialRegions(exe)
    BY <1>1, ExecutablesAssumption DEF Init
  <2>2. \A k \in DOMAIN regions : regions[k].type # "VTABLE"
    BY <2>1, InitialPartition
  <2> QED
    BY <1>1, <2>2, VtableInvStart DEF Init, Inv
<1>3. RelocsHandled
  BY <1>1 DEF Init, RelocsHandled
<1> QED
  BY <1>1, <1>2, <1>3 DEF KnownVtables

\* When the passes are over, labels on vtables are at targets of relocations.
LEMMA VtablesAreLeft ==
    ASSUME KnownInv, KnownVtables, NothingWaits, post_anal_fixups_apply
    PROVE  VtablesLeft' /\ RelocsLeft'
<1>1. /\ stage = "run" /\ phase = "done" /\ Inv /\ VtableInv /\ RelocsHandled
      /\ UNCHANGED <<exe, regions>>
      /\ code_trace_queue = <<>>
  BY DEF post_anal_fixups_apply, KnownInv, KnownVtables, NothingWaits
<1>2. /\ DOMAIN labels' \subseteq DOMAIN labels
      /\ \A a \in DOMAIN labels : a \in DOMAIN labels' \/ a \in exe.removed
  BY DEF post_anal_fixups_apply
<1>3. /\ get_fixup_addresses' = get_fixup_addresses
      /\ get_fixup_addresses \subseteq Int
  <2>1. get_fixup_addresses' = get_fixup_addresses
    BY <1>1 DEF get_fixup_addresses, FixupSites, FixupAddress, Objects
  <2> QED
    BY <1>1, <2>1, FixupTargets, AddrSpaceAssumption DEF Inv, Address
<1>4. /\ \A a : IsVtable(a)' <=> IsVtable(a)
      /\ \A lo, hi : VtableFrom(lo, hi)' <=> VtableFrom(lo, hi)
      /\ \A a : IsEntry(a) => IsEntry(a)' \/ read_le(a) \in exe.removed
      /\ VtableBytes'
  <2>1. /\ \A a : IsVtable(a)' <=> IsVtable(a)
        /\ \A a : IsCode(a)' <=> IsCode(a)
        /\ \A a : TouchAt(regions', a) <=> TouchAt(regions, a)
        /\ \A lo, hi : VtableFrom(lo, hi)' <=> VtableFrom(lo, hi)
    BY <1>1 DEF IsVtable, IsCode, VtableFrom
  <2>2. VtableBytes'
    BY <1>1, <1>3, <2>1 DEF VtableInv, VtableBytes, VtablesJoined, VtablesBegin,
       VtablesWhole, InStep
  <2>3. \A a : IsEntry(a) => IsEntry(a)' \/ read_le(a) \in exe.removed
    BY <1>1, <1>2 DEF IsEntry, read_le
  <2> QED
    BY <2>1, <2>2, <2>3
<1>5. ASSUME NEW a \in DOMAIN labels, IsVtable(a)
      PROVE  a \in get_fixup_addresses
  <2>1. WellFormed(regions) /\ a \in Int
    BY <1>1, AddrSpaceAssumption DEF Inv, RegionsPartition, TypeOK, Address
  <2>2. ~ HasKind(regions, a, "DATA") /\ ~ IsCode(a)
    BY <1>5, <2>1, OneKind DEF IsVtable, IsCode
  <2>3. ~ IsCodeLabel(a)
    <3>1. ~ IsTracing /\ a \in Address
      BY <1>1 DEF IsTracing, Inv, TypeOK
    <3>2. a \notin Range(code_trace_queue)
      BY <1>1 DEF Range
    <3> QED
      BY <1>1, <1>5, <3>1, <3>2, NoWaitingLabel DEF IsVtable
  <2> QED
    BY <1>1, <1>5, <2>2, <2>3 DEF VtableInv, LabelsPlaced
<1>6. VtablesLeft'
  <2>1. \A a \in DOMAIN labels' : IsVtable(a)' => a \in get_fixup_addresses'
    BY <1>2, <1>3, <1>4, <1>5
  <2>2. \A b \in get_fixup_addresses' :
          IsVtable(b)' => b \in DOMAIN labels' \/ b \in exe'.removed
    BY <1>1, <1>2, <1>3, <1>4 DEF VtableInv, VtablesLabelled
  <2>3. \A from \in get_fixup_addresses', a \in Int :
          from <= a /\ InStep(from, a) /\ VtableFrom(from, a + 1)'
              => IsEntry(a)' \/ read_le(a)' \in exe'.removed
    BY <1>1, <1>3, <1>4 DEF VtableInv, EntriesLabelled, read_le
  <2> QED
    BY <1>4, <2>1, <2>2, <2>3 DEF VtablesLeft, InStep
<1>7. RelocsLeft'
  <2>1. \A s \in FixupSites : Classified(s)
    BY <1>1 DEF RelocsHandled
  <2>2. \A b \in get_fixup_addresses :
          /\ ~ HasKind(regions, b, "UNKNOWN")
          /\ HasKind(regions, b, "DATA") => b \in DOMAIN labels
    BY <2>1 DEF get_fixup_addresses, Classified
  <2> QED
    BY <1>1, <1>2, <1>3, <2>2 DEF RelocsLeft
<1> QED
  BY <1>6, <1>7

LEMMA KnownVtablesStep ==
    KnownInv /\ NothingWaits /\ KnownVtables /\ [KnownNext]_kvars => KnownVtables'
<1> SUFFICES ASSUME KnownInv, NothingWaits, KnownVtables, [KnownNext]_kvars
             PROVE  KnownVtables'
  OBVIOUS
<1>1. get_fixup_addresses' = get_fixup_addresses
  BY KnownWhatChanges DEF get_fixup_addresses, FixupSites, FixupAddress, Objects
<1>2. ASSUME UNCHANGED vars PROVE LabelsPlaced' <=> LabelsPlaced
  BY <1>1, <1>2 DEF vars, LabelsPlaced, IsCodeLabel, IsCode
<1>3. CASE UNCHANGED kvars
  <2>1. UNCHANGED vars /\ stage' = stage /\ [Next]_vars
    BY <1>3 DEF kvars
  <2>2. CASE Preparing
    BY <1>2, <2>1, <2>2 DEF KnownVtables, Preparing
  <2>3. CASE stage = "run"
    <3>1. Inv /\ VtableInv /\ RelocsHandled
      BY <2>3 DEF KnownInv, KnownVtables
    <3> QED
      BY <2>1, <2>3, <3>1, VtableInvStep, RelocsStep DEF KnownVtables, Preparing
  <2>4. CASE stage = "print"
    <3>1. VtablesLeft' /\ RelocsLeft'
      BY <1>1, <2>1, <2>4 DEF vars, KnownVtables, VtablesLeft, RelocsLeft, VtableBytes,
         VtablesJoined, VtablesBegin, VtablesWhole, VtableFrom, IsVtable, IsCode,
         InStep, IsEntry, read_le
    <3> QED
      BY <2>1, <2>4, <3>1 DEF KnownVtables, Preparing
  <2> QED
    BY <2>2, <2>3, <2>4 DEF KnownInv, Preparing
<1>4. CASE known_regions_done \/ known_labels_done
  BY <1>2, <1>4 DEF known_regions_done, known_labels_done, KnownVtables, Preparing
<1>5. CASE add_labels_to_trace_queue
  BY <1>1, <1>5 DEF add_labels_to_trace_queue, KnownVtables, Preparing, LabelsPlaced,
     IsCodeLabel, IsCode
<1>6. CASE insert_known_region
  <2>1. /\ stage = "regions" /\ stage' = "regions" /\ labels' = labels
        /\ Prepared /\ LabelsPlaced
    BY <1>6 DEF insert_known_region, KnownInv, KnownVtables, Preparing
  <2>2. PICK parent, reg :
          /\ FitsIn(regions, parent, reg) /\ reg.type = "DATA"
          /\ regions' = insert_region(regions, parent, reg)
    <3>1. PICK reg, parent : reg = exe.known_regions[next] /\ parent = KnownParent(reg)
      OBVIOUS
    <3>2. TypeOK /\ RegionsPartition /\ AheadInOneRegion
      BY <2>1 DEF Prepared
    <3>3. FitsIn(regions, parent, reg) /\ reg.type = "DATA"
      BY <1>6, <3>1, <3>2, KnownFits DEF insert_known_region
    <3> QED
      BY <1>6, <3>1, <3>3 DEF insert_known_region
  <2>3. WellFormed(regions) /\ \A a : ~ IsCode(a)
    BY <2>1 DEF Prepared, RegionsPartition, IsCode, HasKind
  <2>4. \A a \in Int : HasKind(regions, a, "DATA") => HasKind(regions', a, "DATA")
    BY <2>2, <2>3, InsertCorrect DEF RegionType
  <2>5. DOMAIN labels \subseteq Int
    BY <2>1, AddrSpaceAssumption DEF Prepared, TypeOK, Address
  <2>6. LabelsPlaced'
    BY <1>1, <2>1, <2>3, <2>4, <2>5 DEF LabelsPlaced, IsCodeLabel
  <2> QED
    BY <2>1, <2>6 DEF KnownVtables, Preparing
<1>7. CASE set_known_label
  <2>1. PICK known : known = exe.known_labels[next]
    OBVIOUS
  <2>2. /\ stage = "labels" /\ stage' = "labels" /\ regions' = regions
        /\ labels' = set_label(labels, known.address, known.label)
        /\ Prepared /\ LabelsPlaced
    BY <1>7, <2>1 DEF set_known_label, KnownInv, KnownVtables, Preparing
  <2>3. TypeOK /\ NamesAreFunctions
    BY <2>2 DEF Prepared
  <2>4. /\ known.address \in Address /\ known.label \in LabelSet
        /\ known.label.type \in {"FUNCTION", "JUMP"}
        /\ known.label.named => known.label.type = "FUNCTION"
    BY <1>7, <2>1, <2>3, KnownFacts DEF set_known_label
  <2>5. /\ IsCodeLabel(known.address)'
        /\ \A b : IsCodeLabel(b) => IsCodeLabel(b)'
    <3>1. PICK a, label : a = known.address /\ label = known.label
      OBVIOUS
    <3>2. IsCodeLabel(a)' /\ \A b : IsCodeLabel(b) => IsCodeLabel(b)'
      BY <2>2, <2>3, <2>4, <3>1, SetCodeLabel
    <3> QED
      BY <3>1, <3>2 DEF IsCodeLabel
  <2>6. \A a \in DOMAIN labels' : a \in DOMAIN labels \/ a = known.address
    BY <2>2 DEF set_label
  <2>7. LabelsPlaced'
    BY <1>1, <2>2, <2>5, <2>6 DEF LabelsPlaced, IsCode
  <2> QED
    BY <2>2, <2>7 DEF KnownVtables, Preparing
<1>8. CASE labels_queued
  <2>1. stage = "queue" /\ stage' = "run" /\ UNCHANGED vars /\ Prepared /\ LabelsPlaced
    BY <1>8 DEF labels_queued, KnownInv, KnownVtables, Preparing
  <2>2. /\ TypeOK /\ pc = "run" /\ phase = "entry"
        /\ \A k \in DOMAIN regions : regions[k].type # "VTABLE"
    BY <2>1 DEF Prepared
  <2>3. VtableInv /\ RelocsHandled
    BY <2>1, <2>2, VtableInvStart DEF RelocsHandled
  <2>4. Inv /\ [Next]_vars
    <3>1. KnownInv'
      BY KnownStepInv
    <3>2. Inv'
      BY <2>1, <3>1 DEF KnownInv
    <3> QED
      BY <2>1, <3>2, ImageUnchanged
      DEF vars, Inv, TypeOK, RegionsPartition, RegionHeld, CodeStartsLabelled,
         WorklistLabelled, LabelsFollowed, NamesAreFunctions, IsTracing, IsCodeLabel,
         IsFollowed, TracedRegion
  <2> QED
    BY <2>1, <2>3, <2>4, VtableInvStep, RelocsStep DEF KnownVtables, Preparing
<1>9. CASE run
  <2>1. stage = "run" /\ stage' = "run" /\ Inv /\ Next
    BY <1>9 DEF run, KnownInv
  <2>2. VtableInv /\ RelocsHandled
    BY <2>1 DEF KnownVtables
  <2> QED
    BY <2>1, <2>2, VtableInvStep, RelocsStep DEF KnownVtables, Preparing
<1>10. CASE post_anal_fixups_apply
  BY <1>10, VtablesAreLeft DEF post_anal_fixups_apply, KnownVtables, Preparing
<1> QED
  BY <1>3, <1>4, <1>5, <1>6, <1>7, <1>8, <1>9, <1>10 DEF KnownNext

LEMMA KnownVtablesHold == KnownSpec => [](KnownVtables /\ NothingWaits)
<1>1. KnownInit => NothingWaits
  BY DEF KnownInit, Init, NothingWaits
<1> QED
  BY <1>1, KnownInvHolds, KnownVtablesInit, KnownVtablesStep, NothingWaitsStep, PTL
  DEF KnownSpec

=============================================================================
