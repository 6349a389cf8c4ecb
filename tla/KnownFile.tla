----------------------------- MODULE KnownFile -----------------------------
(***************************************************************************)
(* main_execute around the analyser (le_disasm.cpp) for a file that        *)
(* known_file.cpp recognises or not: before the run the regions and labels *)
(* known for the file are inserted and its code labels queued, and after   *)
(* the run some labels are removed again.                                  *)
(*                                                                         *)
(* The tables of known_file.cpp and known_labels_swars.cpp are the fields  *)
(* known_regions, known_labels and removed of an executable; an executable *)
(* that is not recognised has known = FALSE.                               *)
(***************************************************************************)
EXTENDS Analyser

VARIABLES
    stage,    \* how far main_execute has come
    next      \* the next entry of the table in use, or the last label queued

kvars == <<vars, stage, next>>

\* The tables: known regions are data in a code object and lie apart from one
\* another, in the order of their addresses; known labels are code labels, and
\* only functions are given names.
IsKnown(e) ==
    /\ e.known \in BOOLEAN
    /\ e.known_regions \in Seq(RegionSet)
    /\ \A i \in DOMAIN e.known_regions :
        LET reg == e.known_regions[i]
        IN  /\ reg.size > 0
            /\ reg.type = "DATA"
            /\ \E n \in DOMAIN e.objects :
                /\ e.objects[n].exec
                /\ e.objects[n].base <= reg.address
                /\ reg.address + reg.size <= e.objects[n].base + e.objects[n].size
    /\ \A i, j \in DOMAIN e.known_regions :
        i < j => e.known_regions[i].address + e.known_regions[i].size
                    < e.known_regions[j].address
    /\ e.known_labels \in Seq([address : Address, label : LabelSet])
    /\ \A i \in DOMAIN e.known_labels :
        LET label == e.known_labels[i].label
        IN  /\ label.type \in {"FUNCTION", "JUMP"}
            /\ label.named => label.type = "FUNCTION"
    /\ e.removed \subseteq Address

ASSUME KnownAssumption == \A e \in Executables : IsKnown(e)

KnownInit ==
    /\ Init
    /\ stage = IF exe.known THEN "regions" ELSE "run"
    /\ next = 1

-----------------------------------------------------------------------------
(* pre_anal_fixups_apply *)

\* Fault: the region before the address is taken for the parent.
KnownParent_Before(reg) == get_previous_value(DOMAIN regions, reg.address)

\* insert_region (const Region &): the parent is looked up on the spot.
KnownParent(reg) == get_region_at_address(regions, reg.address)

insert_known_region ==
    /\ stage = "regions"
    /\ next \in DOMAIN exe.known_regions
    /\ LET reg == exe.known_regions[next]
       IN  regions' = insert_region(regions, KnownParent(reg), reg)
    /\ next' = next + 1
    /\ UNCHANGED <<exe, labels, code_trace_queue, phase, pc, sites, trace, scan,
                   traced, stage>>

known_regions_done ==
    /\ stage = "regions"
    /\ next \notin DOMAIN exe.known_regions
    /\ stage' = "labels"
    /\ next' = 1
    /\ UNCHANGED vars

set_known_label ==
    /\ stage = "labels"
    /\ next \in DOMAIN exe.known_labels
    /\ LET known == exe.known_labels[next]
       IN  labels' = set_label(labels, known.address, known.label)
    /\ next' = next + 1
    /\ UNCHANGED <<exe, regions, code_trace_queue, phase, pc, sites, trace,
                   scan, traced, stage>>

known_labels_done ==
    /\ stage = "labels"
    /\ next \notin DOMAIN exe.known_labels
    /\ stage' = "queue"
    /\ next' = 0
    /\ UNCHANGED vars

\* Fault: only functions are queued.
LabelsToQueue_Functions ==
    {a \in DOMAIN labels : a >= next /\ labels[a].type = "FUNCTION"}

\* The code labels from `next' on, in the order of the std::map.
LabelsToQueue == {a \in DOMAIN labels : a >= next /\ IsCodeLabel(a)}

add_labels_to_trace_queue ==
    /\ stage = "queue"
    /\ LabelsToQueue # {}
    /\ LET first == CHOOSE a \in LabelsToQueue : \A b \in LabelsToQueue : a <= b
       IN  /\ code_trace_queue' = Append(code_trace_queue, first)
           /\ next' = first + 1
    /\ UNCHANGED <<exe, regions, labels, phase, pc, sites, trace, scan, traced,
                   stage>>

labels_queued ==
    /\ stage = "queue"
    /\ LabelsToQueue = {}
    /\ stage' = "run"
    /\ UNCHANGED <<vars, next>>

-----------------------------------------------------------------------------
(* run and post_anal_fixups_apply *)

run ==
    /\ stage = "run"
    /\ Next
    /\ UNCHANGED <<stage, next>>

\* Fault: the labels behind a removed one go away with it.
post_anal_fixups_apply_Range ==
    /\ stage = "run" /\ phase = "done"
    /\ labels' = [a \in {b \in DOMAIN labels : \A r \in exe.removed : b < r} |->
                    labels[a]]
    /\ stage' = "print"
    /\ UNCHANGED <<exe, regions, code_trace_queue, phase, pc, sites, trace,
                   scan, traced, next>>

post_anal_fixups_apply ==
    /\ stage = "run" /\ phase = "done"
    /\ labels' = IF exe.known
                 THEN [a \in DOMAIN labels \ exe.removed |-> labels[a]]
                 ELSE labels
    /\ stage' = "print"
    /\ UNCHANGED <<exe, regions, code_trace_queue, phase, pc, sites, trace,
                   scan, traced, next>>

KnownNext ==
    \/ insert_known_region \/ known_regions_done
    \/ set_known_label \/ known_labels_done
    \/ add_labels_to_trace_queue \/ labels_queued
    \/ run
    \/ post_anal_fixups_apply

KnownSpec == KnownInit /\ [][KnownNext]_kvars /\ WF_kvars(KnownNext)

-----------------------------------------------------------------------------
(* Properties. *)

\* The assertions of insert_region hold for the regions of the table: each
\* falls into one region, which nothing inserted before has cut.
KnownInsertAsserts ==
    stage = "regions" /\ next \in DOMAIN exe.known_regions =>
        LET reg == exe.known_regions[next]
        IN  /\ KnownParent(reg) # NULL
            /\ insert_allowed(regions, KnownParent(reg), reg)

\* The known labels are traced in their own right: when the run is over,
\* every mapped address the tables call code is code, whatever the data
\* regions of the tables cut off.
KnownLabelsTraced ==
    phase = "done" /\ exe.known =>
        \A i \in DOMAIN exe.known_labels :
            LET address == exe.known_labels[i].address
            IN  get_object_at_address(address) # NULL
                    => HasKind(regions, address, "CODE")

InKnownRegion(reg, a) == reg.address <= a /\ a < reg.address + reg.size

\* What the known regions are for: code that runs towards one stops in front
\* of it.  Its bytes are data unless there is a code label inside it.
KnownDataSkipped ==
    stage \in {"queue", "run"} /\ exe.known /\ ObjectsApart =>
        \A i \in DOMAIN exe.known_regions :
            LET reg == exe.known_regions[i]
            IN  \/ \A a \in Address :
                    InKnownRegion(reg, a) => HasKind(regions, a, "DATA")
                \/ \E a \in DOMAIN labels : InKnownRegion(reg, a) /\ IsCodeLabel(a)

\* The start of a code region keeps its label to the end, unless it is one of
\* the labels removed after the run.
CodeStartsStayLabelled ==
    \A k \in DOMAIN regions :
        regions[k].type = "CODE" =>
            IsCodeLabel(k) \/ (stage = "print" /\ k \in exe.removed)

=============================================================================
