--------------------------- MODULE Analyser_proofs ---------------------------
(***************************************************************************)
(* The analyser keeps its data structures consistent, for every executable *)
(* and every address space.  One inductive invariant, Inv, carries all of  *)
(* it: the types, the partition of the objects by the regions, the Region* *)
(* held across the loops, and the labels of the worklist.  What the        *)
(* analysis gives the printer gets, property by property, the              *)
(* strengthening that every step keeps on top of Inv.                      *)
(***************************************************************************)
EXTENDS Analyser, Regions_proofs, Basics_proofs, FiniteSetTheorems

\* Only functions have names (the one named label is "_start"), so a label
\* that set_label leaves alone is a code label.
NamesAreFunctions ==
    \A a \in DOMAIN labels : labels[a].named => labels[a].type = "FUNCTION"

Inv ==
    /\ TypeOK
    /\ RegionsPartition
    /\ RegionHeld
    /\ CodeStartsLabelled
    /\ WorklistLabelled
    /\ LabelsFollowed
    /\ NamesAreFunctions

-----------------------------------------------------------------------------
(* The executable. *)

LEMMA ExecutableFacts ==
    ASSUME TypeOK
    PROVE  /\ IsExecutable(exe)
           /\ Objects \subseteq Nat
           /\ \A n \in Objects :
                /\ exe.objects[n].base \in Address
                /\ exe.objects[n].size \in Address \ {0}
                /\ exe.objects[n].exec \in BOOLEAN
                /\ exe.objects[n].base + exe.objects[n].size < AddrSpace
<1>1. IsExecutable(exe)
  BY ExecutablesAssumption DEF TypeOK
<1>2. /\ exe.objects \in Seq([base : Address, size : Address \ {0}, exec : BOOLEAN])
      /\ \A n \in DOMAIN exe.objects :
            exe.objects[n].base + exe.objects[n].size < AddrSpace
  BY <1>1 DEF IsExecutable
<1>3. /\ DOMAIN exe.objects \subseteq Nat
      /\ \A n \in DOMAIN exe.objects :
            exe.objects[n] \in [base : Address, size : Address \ {0}, exec : BOOLEAN]
  BY <1>2, SeqElements
<1> QED
  BY <1>1, <1>2, <1>3 DEF Objects

\* get_object_at_address finds the object of a byte, and only fails when there
\* is none (image.cpp:91).
LEMMA ObjectFound ==
    ASSUME TypeOK, NEW a
    PROVE  get_object_at_address(a) # NULL
                <=> \E n \in Objects : a \in ObjectBytes(exe.objects[n])
<1>1. NULL \notin Objects
  BY ExecutableFacts, NullAssumption
<1> QED
  BY <1>1 DEF get_object_at_address

-----------------------------------------------------------------------------
(* The worklist as a set. *)

LEMMA RangeAppend ==
    ASSUME NEW q \in Seq(Address), NEW x \in Address
    PROVE  /\ Append(q, x) \in Seq(Address)
           /\ Range(Append(q, x)) = Range(q) \cup {x}
<1> DEFINE r == Append(q, x)
<1>1. /\ r \in Seq(Address)
      /\ DOMAIN r = 1 .. Len(q) + 1
      /\ r[Len(q) + 1] = x
      /\ \A i \in 1 .. Len(q) : r[i] = q[i]
      /\ DOMAIN q = 1 .. Len(q) /\ Len(q) \in Nat
  OBVIOUS
<1> HIDE DEF r
<1>2. \A t \in Range(r) : t \in Range(q) \cup {x}
  BY <1>1 DEF Range
<1>3. \A t \in Range(q) \cup {x} : t \in Range(r)
  BY <1>1 DEF Range
<1>4. Range(r) = Range(q) \cup {x}
  BY <1>2, <1>3
<1> QED
  BY <1>1, <1>4 DEF r

LEMMA RangeTail ==
    ASSUME NEW q \in Seq(Address), q # <<>>
    PROVE  /\ Head(q) \in Address
           /\ Tail(q) \in Seq(Address)
           /\ Range(q) = Range(Tail(q)) \cup {Head(q)}
<1>1. Head(q) \in Address /\ Tail(q) \in Seq(Address)
  OBVIOUS
<1>2. \A t \in Range(q) : t \in Range(Tail(q)) \cup {Head(q)}
  <2> SUFFICES ASSUME NEW i \in DOMAIN q, i # 1
               PROVE  q[i] \in Range(Tail(q))
    BY DEF Range
  <2>1. i - 1 \in DOMAIN Tail(q) /\ Tail(q)[i - 1] = q[i]
    OBVIOUS
  <2> QED
    BY <2>1 DEF Range
<1>3. \A t \in Range(Tail(q)) \cup {Head(q)} : t \in Range(q)
  BY DEF Range
<1> QED
  BY <1>1, <1>2, <1>3

-----------------------------------------------------------------------------
(* Labels. *)

LEMMA SetLabel ==
    ASSUME TypeOK, NEW a \in Address, NEW label \in LabelSet,
           labels' = set_label(labels, a, label)
    PROVE  /\ \/ /\ labels' = labels
                 /\ a \in DOMAIN labels
                 /\ labels[a].type = "FUNCTION" \/ labels[a].named
              \/ /\ DOMAIN labels' = DOMAIN labels \cup {a}
                 /\ labels'[a] = label
                 /\ \A b \in DOMAIN labels \ {a} : labels'[b] = labels[b]
                 /\ a \in DOMAIN labels => labels[a].type # "FUNCTION"
           /\ DOMAIN labels' \subseteq Address
           /\ \A b \in DOMAIN labels' : labels'[b] \in LabelSet
           /\ \A b \in DOMAIN labels :
                labels[b].type = "FUNCTION" => labels'[b].type = "FUNCTION"
<1>1. CASE a \in DOMAIN labels /\ (labels[a].type = "FUNCTION" \/ labels[a].named)
  BY <1>1 DEF TypeOK, set_label
<1>2. CASE ~ (a \in DOMAIN labels /\ (labels[a].type = "FUNCTION" \/ labels[a].named))
  <2>1. labels' = [b \in DOMAIN labels \cup {a} |-> IF b = a THEN label ELSE labels[b]]
    BY <1>2 DEF set_label
  <2>2. /\ DOMAIN labels' = DOMAIN labels \cup {a}
        /\ labels'[a] = label
        /\ \A b \in DOMAIN labels \ {a} : labels'[b] = labels[b]
    BY <2>1
  <2> QED
    BY <1>2, <2>2 DEF TypeOK
<1> QED
  BY <1>1, <1>2

LEMMA SetCodeLabel ==
    ASSUME TypeOK, NamesAreFunctions, NEW a \in Address, NEW label \in LabelSet,
           label.type \in {"FUNCTION", "JUMP"},
           label.named => label.type = "FUNCTION",
           labels' = set_label(labels, a, label)
    PROVE  /\ NamesAreFunctions'
           /\ IsCodeLabel(a)'
           /\ \A b : IsCodeLabel(b) => IsCodeLabel(b)'
           /\ \A b : IsCodeLabel(b)' => IsCodeLabel(b) \/ b = a
<1>1. CASE /\ labels' = labels
           /\ a \in DOMAIN labels
           /\ labels[a].type = "FUNCTION" \/ labels[a].named
  <2>1. labels[a].type = "FUNCTION"
    BY <1>1 DEF NamesAreFunctions
  <2>2. NamesAreFunctions'
    BY <1>1 DEF NamesAreFunctions
  <2> QED
    BY <1>1, <2>1, <2>2 DEF IsCodeLabel
<1>2. CASE /\ DOMAIN labels' = DOMAIN labels \cup {a}
           /\ labels'[a] = label
           /\ \A b \in DOMAIN labels \ {a} : labels'[b] = labels[b]
  <2>1. ASSUME NEW b \in DOMAIN labels', labels'[b].named
        PROVE  labels'[b].type = "FUNCTION"
    <3>1. CASE b = a
      BY <1>2, <2>1, <3>1
    <3>2. CASE b # a
      <4>1. b \in DOMAIN labels /\ labels'[b] = labels[b]
        BY <1>2, <3>2
      <4> QED
        BY <2>1, <4>1 DEF NamesAreFunctions
    <3> QED
      BY <3>1, <3>2
  <2>2. NamesAreFunctions'
    BY <2>1 DEF NamesAreFunctions
  <2> QED
    BY <1>2, <2>2 DEF IsCodeLabel
<1> QED
  BY <1>1, <1>2, SetLabel

\* A data or vtable label only takes the place of a label at its address that
\* is not a function.
LEMMA SetOtherLabel ==
    ASSUME TypeOK, NamesAreFunctions, NEW a \in Address,
           NEW type \in {"DATA", "VTABLE"},
           labels' = set_label(labels, a, Label(type))
    PROVE  /\ NamesAreFunctions'
           /\ \A b : b # a => (IsCodeLabel(b)' <=> IsCodeLabel(b))
           /\ IsCodeLabel(a)' => IsCodeLabel(a)
<1>1. Label(type) \in LabelSet /\ Label(type).named = FALSE /\ Label(type).type = type
  BY DEF Label, LabelSet, LabelType
<1>2. CASE labels' = labels
  <2>1. NamesAreFunctions'
    BY <1>2 DEF NamesAreFunctions
  <2> QED
    BY <1>2, <2>1 DEF IsCodeLabel
<1>3. CASE /\ DOMAIN labels' = DOMAIN labels \cup {a}
           /\ labels'[a] = Label(type)
           /\ \A b \in DOMAIN labels \ {a} : labels'[b] = labels[b]
  <2>1. ASSUME NEW b \in DOMAIN labels', labels'[b].named
        PROVE  labels'[b].type = "FUNCTION"
    <3>1. b # a
      BY <1>1, <1>3, <2>1
    <3>2. b \in DOMAIN labels /\ labels'[b] = labels[b]
      BY <1>3, <3>1
    <3> QED
      BY <2>1, <3>2 DEF NamesAreFunctions
  <2>2. NamesAreFunctions'
    BY <2>1 DEF NamesAreFunctions
  <2> QED
    BY <1>1, <1>3, <2>2 DEF IsCodeLabel
<1> QED
  BY <1>1, <1>2, <1>3, SetLabel

-----------------------------------------------------------------------------
(* The initial state: add_initial_regions. *)

\* The regions of the objects are an exact partition of their bytes.
LEMMA InitialPartition ==
    ASSUME NEW e, IsExecutable(e)
    PROVE  /\ WellFormed(InitialRegions(e))
           /\ \A a \in Int :
                IsMapped(InitialRegions(e), a)
                    <=> \E n \in DOMAIN e.objects : a \in ObjectBytes(e.objects[n])
           /\ \A k \in DOMAIN InitialRegions(e) :
                InitialRegions(e)[k].type \in {"UNKNOWN", "DATA"}
<1> DEFINE R == InitialRegions(e)
<1>1. /\ \A n \in DOMAIN e.objects :
            /\ e.objects[n].base \in Address
            /\ e.objects[n].size \in Address \ {0}
            /\ e.objects[n].base + e.objects[n].size < AddrSpace
      /\ \A m, n \in DOMAIN e.objects :
            m # n => \/ e.objects[m].base + e.objects[m].size <= e.objects[n].base
                     \/ e.objects[n].base + e.objects[n].size <= e.objects[m].base
  <2>1. e.objects \in Seq([base : Address, size : Address \ {0}, exec : BOOLEAN])
    BY DEF IsExecutable
  <2>2. \A n \in DOMAIN e.objects :
          e.objects[n] \in [base : Address, size : Address \ {0}, exec : BOOLEAN]
    BY <2>1, SeqElements
  <2> QED
    BY <2>2 DEF IsExecutable
<1>2. \A n \in DOMAIN e.objects : ObjectAt(e, e.objects[n].base) = e.objects[n]
  <2> SUFFICES ASSUME NEW n \in DOMAIN e.objects
               PROVE  ObjectAt(e, e.objects[n].base) = e.objects[n]
    OBVIOUS
  <2>1. \A m \in DOMAIN e.objects : e.objects[m].base = e.objects[n].base => m = n
    BY <1>1 DEF Address
  <2> QED
    BY <2>1 DEF ObjectAt
<1>3. /\ DOMAIN R = Bases(e)
      /\ \A n \in DOMAIN e.objects :
            R[e.objects[n].base] = Region(e.objects[n].base, e.objects[n].size,
                                          InitialType(e.objects[n]))
      /\ \A n \in DOMAIN e.objects : e.objects[n].base \in DOMAIN R
  BY <1>2 DEF InitialRegions, Bases
<1>4. \A k \in DOMAIN R : \E n \in DOMAIN e.objects :
        /\ k = e.objects[n].base
        /\ R[k] = Region(k, e.objects[n].size, InitialType(e.objects[n]))
  <2> SUFFICES ASSUME NEW k \in DOMAIN R
               PROVE  \E n \in DOMAIN e.objects :
                        /\ k = e.objects[n].base
                        /\ R[k] = Region(k, e.objects[n].size, InitialType(e.objects[n]))
    OBVIOUS
  <2>1. PICK n \in DOMAIN e.objects : k = e.objects[n].base
    BY <1>3 DEF Bases
  <2> QED
    BY <1>3, <2>1
<1> HIDE DEF R
<1>5. WellFormed(R)
  <2>1. ASSUME NEW k \in DOMAIN R
        PROVE  /\ k \in Address
               /\ R[k] \in RegionSet
               /\ R[k].address = k
               /\ R[k].size > 0
               /\ k + R[k].size < AddrSpace
    <3>1. PICK n \in DOMAIN e.objects :
            /\ k = e.objects[n].base
            /\ R[k] = Region(k, e.objects[n].size, InitialType(e.objects[n]))
      BY <1>4
    <3>2. InitialType(e.objects[n]) \in RegionType
      BY DEF InitialType, RegionType
    <3>3. R[k] \in RegionSet
      BY <1>1, <3>1, <3>2 DEF RegionSet, Region
    <3>4. R[k].address = k /\ R[k].size = e.objects[n].size
      BY <3>1 DEF Region
    <3> QED
      BY <1>1, <3>1, <3>3, <3>4, AddrSpaceAssumption DEF Address
  <2>2. ASSUME NEW j \in DOMAIN R, NEW k \in DOMAIN R, j < k
        PROVE  j + R[j].size <= k
    <3>1. PICK m \in DOMAIN e.objects :
            j = e.objects[m].base /\ R[j].size = e.objects[m].size
      BY <1>4 DEF Region
    <3>2. PICK n \in DOMAIN e.objects :
            k = e.objects[n].base /\ R[k].size = e.objects[n].size
      BY <1>4 DEF Region
    <3>3. m # n
      BY <1>1, <2>2, <3>1, <3>2 DEF Address
    <3> QED
      BY <1>1, <2>2, <3>1, <3>2, <3>3 DEF Address
  <2> QED
    BY <2>1, <2>2 DEF WellFormed
<1>6. ASSUME NEW a \in Int
      PROVE  IsMapped(R, a)
                <=> \E n \in DOMAIN e.objects : a \in ObjectBytes(e.objects[n])
  <2>1. ASSUME NEW n \in DOMAIN e.objects
        PROVE  a \in ObjectBytes(e.objects[n]) <=> InRegion(R, e.objects[n].base, a)
    <3> DEFINE k == e.objects[n].base
    <3>0. R[k] = Region(k, e.objects[n].size, InitialType(e.objects[n]))
      BY <1>3
    <3> HIDE DEF k
    <3>1. R[k].address = k /\ R[k].size = e.objects[n].size
      BY <3>0 DEF Region
    <3>2. k \in Int /\ e.objects[n].size \in Int
      BY <1>1, AddrSpaceAssumption DEF Address, k
    <3> QED
      BY <3>1, <3>2 DEF ObjectBytes, InRegion, k
  <2> QED
    BY <1>3, <1>4, <2>1 DEF IsMapped
<1>7. \A k \in DOMAIN R : R[k].type \in {"UNKNOWN", "DATA"}
  BY <1>4 DEF InitialType, Region
<1> QED
  BY <1>5, <1>6, <1>7 DEF R

LEMMA InitInv == Init => Inv
<1> SUFFICES ASSUME Init PROVE Inv
  OBVIOUS
<1>1. IsExecutable(exe)
  BY ExecutablesAssumption DEF Init
<1>2. /\ WellFormed(regions)
      /\ \A a \in Int :
            IsMapped(regions, a)
                <=> \E n \in DOMAIN exe.objects : a \in ObjectBytes(exe.objects[n])
      /\ \A k \in DOMAIN regions : regions[k].type \in {"UNKNOWN", "DATA"}
  BY <1>1, InitialPartition DEF Init
<1>3. \A a \in DOMAIN labels : labels[a] = Label("DATA") /\ a \in Bases(exe)
  BY DEF Init, InitialLabels
<1>4. Label("DATA") \in LabelSet /\ Label("DATA").named = FALSE
      /\ Label("DATA").type = "DATA"
  BY DEF Label, LabelSet, LabelType
<1>5. Bases(exe) \subseteq Address
  <2>1. exe.objects \in Seq([base : Address, size : Address \ {0}, exec : BOOLEAN])
    BY <1>1 DEF IsExecutable
  <2>2. \A n \in DOMAIN exe.objects :
          exe.objects[n] \in [base : Address, size : Address \ {0}, exec : BOOLEAN]
    BY <2>1, SeqElements
  <2>3. \A n \in DOMAIN exe.objects : exe.objects[n].base \in Address
    BY <2>2
  <2> QED
    BY <2>3 DEF Bases
<1>6. TypeOK
  <2>1. DOMAIN regions \subseteq Address /\ \A k \in DOMAIN regions : regions[k] \in RegionSet
    BY <1>2 DEF WellFormed
  <2>2. /\ trace \in [reg : Address \cup {NULL}, start : Address, addr : Nat, end : Nat]
        /\ scan \in [reg : Address \cup {NULL}, address : Address, size : Nat,
                     count : Nat]
    BY AddrSpaceAssumption DEF Init, NoTrace, NoScan, Address
  <2>3. /\ exe \in Executables /\ code_trace_queue \in Seq(Address)
        /\ sites \subseteq FixupSites
        /\ traced = <<>> /\ phase = "entry" /\ pc = "run"
    BY DEF Init
  <2>4. DOMAIN traced \subseteq Address /\ \A a \in DOMAIN traced : traced[a] \in InstructionSet
    BY <2>3
  <2>5. /\ DOMAIN labels \subseteq Address
        /\ \A a \in DOMAIN labels : labels[a] \in LabelSet
    BY <1>3, <1>4, <1>5
  <2> QED
    BY <2>1, <2>2, <2>3, <2>4, <2>5 DEF TypeOK
<1>7. RegionsPartition
  BY <1>2, <1>6, ObjectFound DEF RegionsPartition, Address, Objects
<1>8. RegionHeld /\ CodeStartsLabelled
  BY <1>2 DEF Init, RegionHeld, CodeStartsLabelled, IsTracing
<1>9. WorklistLabelled
  BY DEF Init, WorklistLabelled, IsTracing, Range
<1>10. LabelsFollowed /\ NamesAreFunctions
  BY <1>3, <1>4 DEF LabelsFollowed, NamesAreFunctions, IsCodeLabel
<1> QED
  BY <1>6, <1>7, <1>8, <1>9, <1>10 DEF Inv

-----------------------------------------------------------------------------
(* The fixup a pass is at. *)

\* While fixups are left there is a first one, and it points to an address.
LEMMA CurrentSiteFound ==
    ASSUME TypeOK, sites # {}
    PROVE  /\ CurrentSite \in sites
           /\ CurrentSite \in FixupSites
           /\ CurrentSite[1] \in Objects
           /\ FixupAddress(CurrentSite) \in Address
<1>1. \A s \in FixupSites :
        /\ s = <<s[1], s[2]>>
        /\ s[1] \in Objects /\ s[1] \in Nat
        /\ s[2] \in Nat
        /\ FixupAddress(s) \in Address
  <2> SUFFICES ASSUME NEW s \in FixupSites
               PROVE  /\ s = <<s[1], s[2]>>
                      /\ s[1] \in Objects /\ s[1] \in Nat
                      /\ s[2] \in Nat
                      /\ FixupAddress(s) \in Address
    OBVIOUS
  <2>1. PICK n \in Objects : \E off \in DOMAIN exe.fixups[n] : s = <<n, off>>
    BY DEF FixupSites
  <2>2. PICK off \in DOMAIN exe.fixups[n] : s = <<n, off>>
    BY <2>1
  <2>3. n \in Nat /\ IsExecutable(exe)
    BY ExecutableFacts
  <2>4. off \in Address /\ exe.fixups[n][off] \in Address
    BY <2>3 DEF IsExecutable, Objects
  <2>5. off \in Nat
    BY <2>4, AddrSpaceAssumption DEF Address
  <2> QED
    BY <2>2, <2>3, <2>4, <2>5 DEF FixupAddress
<1>2. sites \subseteq FixupSites
  BY DEF TypeOK
<1>3. PICK n \in {s[1] : s \in sites} : \A m \in {s[1] : s \in sites} : n <= m
  <2>1. {s[1] : s \in sites} \subseteq Nat /\ {s[1] : s \in sites} # {}
    BY <1>1, <1>2
  <2> QED
    BY <2>1, LeastNat
<1> DEFINE offs == {off \in Nat : <<n, off>> \in sites}
<1>4. PICK off \in offs : \A o \in offs : off <= o
  <2>1. PICK s \in sites : s[1] = n
    OBVIOUS
  <2>2. s[2] \in offs
    BY <1>1, <1>2, <2>1
  <2> QED
    BY <2>2, LeastNat
<1>5. ASSUME NEW t \in sites PROVE Precedes(<<n, off>>, t)
  <2>1. t = <<t[1], t[2]>> /\ t[1] \in Nat /\ t[2] \in Nat
    BY <1>1, <1>2
  <2>2. n <= t[1] /\ n \in Nat
    BY <1>1, <1>2, <1>3
  <2>3. CASE t[1] = n
    <3>1. t[2] \in offs
      BY <2>1, <2>3
    <3> QED
      BY <1>4, <2>3, <3>1 DEF Precedes
  <2>4. CASE t[1] # n
    BY <2>1, <2>2, <2>4 DEF Precedes
  <2> QED
    BY <2>3, <2>4
<1>6. \E s \in sites : \A t \in sites : Precedes(s, t)
  BY <1>4, <1>5
<1>7. CurrentSite \in sites
  BY <1>6 DEF CurrentSite
<1> QED
  BY <1>1, <1>2, <1>7

-----------------------------------------------------------------------------
(* Steps that only move control: the executable, the regions, the labels   *)
(* and the queue stay as they are.                                         *)

LEMMA ImageUnchanged ==
    ASSUME exe' = exe
    PROVE  /\ Objects' = Objects
           /\ FixupSites' = FixupSites
           /\ \A a : get_object_at_address(a)' = get_object_at_address(a)
           /\ \A s : FixupAddress(s)' = FixupAddress(s)
BY DEF Objects, FixupSites, get_object_at_address, FixupAddress

\* What a lookup in the region map gives a pass.
LEMMA LookupRegion ==
    ASSUME RegionsPartition, NEW a \in Address,
           NEW r, r = get_region_at_address(regions, a), r # NULL
    PROVE  /\ r \in DOMAIN regions /\ r \in Nat /\ r \in Address
           /\ regions[r].address = r
           /\ regions[r].size \in Nat \ {0}
           /\ get_end_address(regions[r]) = r + regions[r].size
           /\ r + regions[r].size < AddrSpace
           /\ r <= a /\ a < r + regions[r].size
<1>1. WellFormed(regions)
  BY DEF RegionsPartition
<1>2. r \in DOMAIN regions /\ InRegion(regions, r, a)
  BY <1>1, LookupCorrect
<1>3. /\ r \in Nat /\ regions[r].address = r
      /\ regions[r].size \in Nat \ {0}
      /\ get_end_address(regions[r]) = r + regions[r].size
  BY <1>1, <1>2, EndAddress
<1>4. r \in Address /\ r + regions[r].size < AddrSpace
  BY <1>1, <1>2 DEF WellFormed
<1> QED
  BY <1>2, <1>3, <1>4 DEF InRegion

LEMMA QuietStep ==
    ASSUME Inv, UNCHANGED <<exe, regions, labels, code_trace_queue>>,
           IsTracing => IsTracing' /\ trace'.start = trace.start
    PROVE  /\ RegionsPartition'
           /\ CodeStartsLabelled'
           /\ LabelsFollowed'
           /\ NamesAreFunctions'
<1>1. \A a : get_object_at_address(a)' = get_object_at_address(a)
  BY ImageUnchanged
<1>2. RegionsPartition'
  BY <1>1 DEF Inv, RegionsPartition
<1>3. CodeStartsLabelled'
  BY DEF Inv, CodeStartsLabelled, IsCodeLabel
<1>4. \A t : IsFollowed(t) => IsFollowed(t)'
  BY <1>1 DEF IsFollowed
<1>5. LabelsFollowed'
  BY <1>4 DEF Inv, LabelsFollowed, IsCodeLabel
<1>6. NamesAreFunctions'
  BY DEF Inv, NamesAreFunctions
<1> QED
  BY <1>2, <1>3, <1>5, <1>6

\* The steps of the passes between two fixups, and the end of the worklist.
LEMMA BetweenFixups ==
    ASSUME Inv,
           \/ EntryTraced \/ FixupTraced \/ SkipVtable \/ NoVtable
           \/ VtablesDone \/ SkipReloc \/ RelocsDone
    PROVE  Inv'
<1>1. UNCHANGED <<exe, regions, labels, code_trace_queue>>
  BY DEF EntryTraced, FixupTraced, SkipVtable, NoVtable, VtablesDone,
         SkipReloc, RelocsDone
<1>2. pc' \in {"next_fixup", "return"} /\ ~ IsTracing /\ ~ IsTracing'
  BY DEF EntryTraced, FixupTraced, SkipVtable, NoVtable, VtablesDone,
         SkipReloc, RelocsDone, IsTracing
<1>3. /\ sites' \subseteq FixupSites'
      /\ scan' = scan \/ scan' = NoScan
      /\ UNCHANGED <<trace, traced>>
  <2>1. sites \subseteq FixupSites /\ FixupSites' = FixupSites
    BY <1>1, ImageUnchanged DEF Inv, TypeOK
  <2> QED
    BY <2>1 DEF EntryTraced, FixupTraced, SkipVtable, NoVtable, VtablesDone,
                SkipReloc, RelocsDone
<1>4. \/ phase' = "vtables" /\ pc' = "next_fixup"
      \/ phase' = "relocs" /\ pc' = "next_fixup"
      \/ phase' = "done" /\ pc' = "return"
  BY DEF EntryTraced, FixupTraced, SkipVtable, NoVtable, VtablesDone,
         SkipReloc, RelocsDone, Inv, TypeOK
<1>5. NoScan \in [reg : Address \cup {NULL}, address : Address, size : Nat,
                  count : Nat]
  BY AddrSpaceAssumption DEF NoScan, Address
<1>6. TypeOK'
  BY <1>1, <1>3, <1>4, <1>5 DEF Inv, TypeOK
<1>7. RegionHeld'
  BY <1>2 DEF RegionHeld
<1>8. code_trace_queue = <<>>
  BY <1>2 DEF EntryTraced, FixupTraced, SkipVtable, NoVtable, VtablesDone,
         SkipReloc, RelocsDone, Inv, WorklistLabelled
<1>9. WorklistLabelled'
  BY <1>1, <1>2, <1>8 DEF WorklistLabelled, Range
<1> QED
  BY <1>1, <1>2, <1>6, <1>7, <1>9, QuietStep DEF Inv

LEMMA RegionExhaustedStep == Inv /\ RegionExhausted => Inv'
<1> SUFFICES ASSUME Inv, RegionExhausted PROVE Inv'
  OBVIOUS
<1>1. /\ UNCHANGED <<exe, regions, labels, code_trace_queue, phase, sites,
                     trace, scan, traced>>
      /\ pc = "decode" /\ pc' = "insert_code"
      /\ trace.addr >= trace.end
  BY DEF RegionExhausted
<1>2. FixupSites' = FixupSites
  BY <1>1, ImageUnchanged
<1>3. TypeOK'
  BY <1>1, <1>2 DEF Inv, TypeOK
<1>4. IsTracing /\ IsTracing'
  BY <1>1 DEF IsTracing
<1>5. /\ trace.reg \in DOMAIN regions
      /\ regions[trace.reg].type # "CODE"
      /\ trace.end = trace.reg + regions[trace.reg].size
      /\ trace.start \in trace.reg .. trace.end - 1
      /\ trace.addr \in trace.start .. trace.end
  BY <1>4 DEF Inv, RegionHeld
<1>6. trace.addr > trace.start
  <2>1. trace.start \in Int /\ trace.end \in Int /\ trace.addr \in Int
    BY AddrSpaceAssumption DEF Inv, TypeOK, Address
  <2> QED
    BY <1>1, <1>5, <2>1
<1>7. RegionHeld'
  BY <1>1, <1>5, <1>6 DEF RegionHeld
<1>8. WorklistLabelled'
  BY <1>1, <1>4 DEF Inv, WorklistLabelled, IsCodeLabel
<1> QED
  BY <1>1, <1>3, <1>4, <1>7, <1>8, QuietStep DEF Inv

LEMMA VtableFoundStep == Inv /\ VtableFound => Inv'
<1> SUFFICES ASSUME Inv, VtableFound PROVE Inv'
  OBVIOUS
<1>1. /\ UNCHANGED <<exe, regions, labels, code_trace_queue, phase, sites,
                     trace, scan, traced>>
      /\ pc = "scan" /\ pc' = "insert_vtable" /\ scan.count > 0
  BY DEF VtableFound
<1>2. FixupSites' = FixupSites
  BY <1>1, ImageUnchanged
<1>3. TypeOK'
  BY <1>1, <1>2 DEF Inv, TypeOK
<1>4. ~ IsTracing /\ ~ IsTracing'
  BY <1>1 DEF IsTracing
<1>5. RegionHeld'
  BY <1>1, <1>4 DEF Inv, RegionHeld
<1>6. WorklistLabelled'
  BY <1>1, <1>4 DEF Inv, WorklistLabelled, IsCodeLabel
<1> QED
  BY <1>1, <1>3, <1>4, <1>5, <1>6, QuietStep DEF Inv

LEMMA StartScanStep == Inv /\ StartScan => Inv'
<1> SUFFICES ASSUME Inv, StartScan PROVE Inv'
  OBVIOUS
<1> DEFINE reg == FixupRegion
           address == FixupAddress(CurrentSite)
           size == VtableRoom(FixupRegion, FixupAddress(CurrentSite))
           last == reg + regions[reg].size
<1>1. /\ UNCHANGED <<exe, regions, labels, code_trace_queue, phase, sites,
                     trace, traced>>
      /\ phase = "vtables" /\ pc = "next_fixup" /\ pc' = "scan"
      /\ reg # NULL /\ regions[reg].type = "UNKNOWN"
      /\ scan' = [reg |-> reg, address |-> address, size |-> size, count |-> 0]
  BY DEF StartScan, MaybeVtable
<1>2. TypeOK /\ RegionsPartition
  BY DEF Inv
<1>3. address \in Address /\ sites # {}
  BY <1>2, CurrentSiteFound DEF StartScan
<1>4. /\ reg \in DOMAIN regions /\ reg \in Nat /\ reg \in Address
      /\ regions[reg].size \in Nat \ {0}
      /\ get_end_address(regions[reg]) = last
      /\ last < AddrSpace
      /\ reg <= address /\ address < last
  BY <1>1, <1>2, <1>3, LookupRegion DEF FixupRegion
<1>5. size \in 1 .. last - address
  <2> DEFINE room == (last - address) % AddrSpace
             aptr == get_next_value(get_fixup_addresses, address)
  <2>1. room = last - address
    <3>1. last - address \in Address
      BY <1>3, <1>4, AddrSpaceAssumption DEF Address
    <3> QED
      BY <3>1, NoWrap
  <2>2. aptr # NULL => aptr \in Int /\ address < aptr
    <3>1. get_fixup_addresses \subseteq Int
      <4> SUFFICES ASSUME NEW s \in FixupSites PROVE FixupAddress(s) \in Int
        BY DEF get_fixup_addresses
      <4>1. PICK n \in Objects : \E off \in DOMAIN exe.fixups[n] : s = <<n, off>>
        BY DEF FixupSites
      <4>2. PICK off \in DOMAIN exe.fixups[n] : s = <<n, off>>
        BY <4>1
      <4>3. exe.fixups[n][off] \in Address
        BY <1>2, ExecutableFacts DEF IsExecutable, Objects
      <4> QED
        BY <4>2, <4>3, AddrSpaceAssumption DEF FixupAddress, Address
    <3> QED
      BY <3>1 DEF get_next_value, IsNext
  <2>3. size = IF aptr # NULL /\ aptr - address < room THEN aptr - address ELSE room
    BY <1>4 DEF VtableRoom
  <2>4. address \in Int /\ last \in Int
    BY <1>3, <1>4, AddrSpaceAssumption DEF Address
  <2> HIDE DEF room, aptr, last, address, size
  <2> QED
    BY <1>4, <2>1, <2>2, <2>3, <2>4
<1>6. address \in Nat /\ size \in Nat
  BY <1>3, <1>4, <1>5, AddrSpaceAssumption DEF Address
<1> HIDE DEF reg, address, size
<1>7. FixupSites' = FixupSites
  BY <1>1, ImageUnchanged
<1>8. scan' \in [reg : Address \cup {NULL}, address : Address, size : Nat, count : Nat]
  BY <1>1, <1>3, <1>4, <1>6
<1>9. TypeOK'
  BY <1>1, <1>2, <1>7, <1>8 DEF TypeOK
<1>10. ~ IsTracing /\ ~ IsTracing'
  BY <1>1 DEF IsTracing
<1>11. RegionHeld'
  <2>1. /\ scan'.reg = reg /\ scan'.address = address
        /\ scan'.size = size /\ scan'.count = 0
        /\ regions' = regions
    BY <1>1
  <2>2. WordSize * 0 = 0
    BY WordSizeAssumption
  <2> QED
    BY <1>1, <1>3, <1>4, <1>5, <1>6, <1>10, <2>1, <2>2 DEF RegionHeld
<1>12. WorklistLabelled'
  BY <1>1, <1>10 DEF Inv, WorklistLabelled, IsCodeLabel, Range
<1> QED
  BY <1>1, <1>9, <1>10, <1>11, <1>12, QuietStep DEF Inv

-----------------------------------------------------------------------------
(* The head of the worklist. *)

LEMMA QueueHead ==
    ASSUME Inv, code_trace_queue # <<>>
    PROVE  /\ Queued \in Address
           /\ Tail(code_trace_queue) \in Seq(Address)
           /\ Range(code_trace_queue) = Range(Tail(code_trace_queue)) \cup {Queued}
           /\ IsCodeLabel(Queued)
<1>1. code_trace_queue \in Seq(Address)
  BY DEF Inv, TypeOK
<1>2. /\ Queued \in Address
      /\ Tail(code_trace_queue) \in Seq(Address)
      /\ Range(code_trace_queue) = Range(Tail(code_trace_queue)) \cup {Queued}
  BY <1>1, RangeTail DEF Queued
<1> QED
  BY <1>2 DEF Inv, WorklistLabelled

LEMMA SkipQueuedStep == Inv /\ SkipQueued => Inv'
<1> SUFFICES ASSUME Inv, SkipQueued PROVE Inv'
  OBVIOUS
<1> DEFINE reg == get_region_at_address(regions, Queued)
<1>1. /\ UNCHANGED <<exe, regions, labels, phase, pc, sites, trace, scan, traced>>
      /\ pc = "trace_code"
      /\ code_trace_queue # <<>>
      /\ code_trace_queue' = Tail(code_trace_queue)
      /\ reg = NULL \/ regions[reg].type = "CODE"
  BY DEF SkipQueued, Traceable
<1>2. /\ FixupSites' = FixupSites
      /\ \A a : get_object_at_address(a)' = get_object_at_address(a)
  BY <1>1, ImageUnchanged
<1>3. TypeOK'
  BY <1>1, <1>2, QueueHead DEF Inv, TypeOK
<1>4. ~ IsTracing /\ ~ IsTracing'
  BY <1>1 DEF IsTracing
<1>5. RegionsPartition'
  BY <1>1, <1>2 DEF Inv, RegionsPartition
<1>6. RegionHeld'
  BY <1>1, <1>4 DEF RegionHeld
<1>7. CodeStartsLabelled' /\ NamesAreFunctions'
  BY <1>1 DEF Inv, CodeStartsLabelled, IsCodeLabel, NamesAreFunctions
<1>8. WorklistLabelled'
  BY <1>1, <1>4, QueueHead DEF Inv, WorklistLabelled, IsCodeLabel
<1>9. get_object_at_address(Queued) = NULL \/ HasKind(regions, Queued, "CODE")
  <2>1. CASE reg = NULL
    <3>1. ~ IsMapped(regions, Queued)
      BY <2>1, QueueHead, <1>1, LookupCorrect DEF Inv, RegionsPartition
    <3> QED
      BY <1>1, <3>1, QueueHead DEF Inv, RegionsPartition
  <2>2. CASE reg # NULL /\ regions[reg].type = "CODE"
    <3>1. reg \in DOMAIN regions /\ InRegion(regions, reg, Queued)
      BY <2>2, QueueHead, <1>1, LookupCorrect DEF Inv, RegionsPartition
    <3> QED
      BY <2>2, <3>1 DEF HasKind
  <2> QED
    BY <1>1, <2>1, <2>2
<1>10. ASSUME NEW a \in DOMAIN labels, IsCodeLabel(a)
       PROVE  IsFollowed(a)'
  <2>1. IsFollowed(a)
    BY <1>10 DEF Inv, LabelsFollowed
  <2>2. CASE a = Queued
    BY <1>1, <1>2, <1>9, <2>2 DEF IsFollowed
  <2>3. CASE a # Queued
    BY <1>1, <1>2, <1>4, <2>1, <2>3, QueueHead DEF IsFollowed
  <2> QED
    BY <2>2, <2>3
<1>11. LabelsFollowed'
  BY <1>1, <1>10 DEF LabelsFollowed, IsCodeLabel
<1> QED
  BY <1>3, <1>5, <1>6, <1>7, <1>8, <1>11 DEF Inv

LEMMA StartTraceStep == Inv /\ StartTrace => Inv'
<1> SUFFICES ASSUME Inv, StartTrace PROVE Inv'
  OBVIOUS
<1> DEFINE reg == get_region_at_address(regions, Queued)
           last == reg + regions[reg].size
<1>1. /\ UNCHANGED <<exe, regions, labels, phase, sites, scan, traced>>
      /\ pc = "trace_code" /\ pc' = "decode"
      /\ code_trace_queue # <<>>
      /\ code_trace_queue' = Tail(code_trace_queue)
      /\ reg # NULL /\ regions[reg].type # "CODE"
      /\ trace' = [reg |-> reg, start |-> Queued, addr |-> Queued,
                   end |-> get_end_address(regions[reg])]
  BY DEF StartTrace, Traceable
<1>2. Queued \in Address
  BY <1>1, QueueHead
<1>3. /\ reg \in DOMAIN regions /\ reg \in Nat /\ reg \in Address
      /\ regions[reg].size \in Nat \ {0}
      /\ get_end_address(regions[reg]) = last
      /\ reg <= Queued /\ Queued < last
  BY <1>1, <1>2, LookupRegion DEF Inv
<1> HIDE DEF reg
<1>4. last \in Nat /\ Queued \in Nat
  BY <1>2, <1>3, AddrSpaceAssumption DEF Address
<1>5. trace' \in [reg : Address \cup {NULL}, start : Address, addr : Nat, end : Nat]
  BY <1>1, <1>2, <1>3, <1>4
<1>6. /\ FixupSites' = FixupSites
      /\ \A a : get_object_at_address(a)' = get_object_at_address(a)
  BY <1>1, ImageUnchanged
<1>7. TypeOK'
  BY <1>1, <1>5, <1>6, QueueHead DEF Inv, TypeOK
<1>8. IsTracing' /\ ~ IsTracing /\ trace'.start = Queued
  BY <1>1 DEF IsTracing
<1>9. RegionsPartition'
  BY <1>1, <1>6 DEF Inv, RegionsPartition
<1>10. RegionHeld'
  <2>1. /\ trace'.reg = reg /\ trace'.start = Queued /\ trace'.addr = Queued
        /\ trace'.end = last
    BY <1>1, <1>3
  <2> QED
    BY <1>1, <1>3, <1>4, <2>1 DEF RegionHeld
<1>11. CodeStartsLabelled' /\ NamesAreFunctions'
  BY <1>1 DEF Inv, CodeStartsLabelled, IsCodeLabel, NamesAreFunctions
<1>12. WorklistLabelled'
  BY <1>1, <1>8, QueueHead DEF Inv, WorklistLabelled, IsCodeLabel
<1>13. ASSUME NEW a \in DOMAIN labels, IsCodeLabel(a)
       PROVE  IsFollowed(a)'
  <2>1. IsFollowed(a)
    BY <1>13 DEF Inv, LabelsFollowed
  <2> QED
    BY <1>1, <1>6, <1>8, <2>1, QueueHead DEF IsFollowed
<1>14. LabelsFollowed'
  BY <1>1, <1>13 DEF LabelsFollowed, IsCodeLabel
<1> QED
  BY <1>7, <1>9, <1>10, <1>11, <1>12, <1>14 DEF Inv

-----------------------------------------------------------------------------
(* Steps that label an address as code and queue it. *)

LEMMA QueueTarget ==
    ASSUME Inv, UNCHANGED <<exe, regions>>,
           IsTracing => IsTracing' /\ trace'.start = trace.start,
           NEW a \in Address, NEW label \in LabelSet,
           label.type \in {"FUNCTION", "JUMP"},
           label.named => label.type = "FUNCTION",
           \/ labels' = set_label(labels, a, label)
           \/ labels' = labels /\ IsCodeLabel(a),
           code_trace_queue' = Append(code_trace_queue, a)
    PROVE  /\ code_trace_queue' \in Seq(Address)
           /\ DOMAIN labels' \subseteq Address
           /\ \A b \in DOMAIN labels' : labels'[b] \in LabelSet
           /\ RegionsPartition'
           /\ CodeStartsLabelled'
           /\ \A t \in Range(code_trace_queue') : IsCodeLabel(t)'
           /\ \A b : IsCodeLabel(b) => IsCodeLabel(b)'
           /\ LabelsFollowed'
           /\ NamesAreFunctions'
<1>1. /\ code_trace_queue' \in Seq(Address)
      /\ Range(code_trace_queue') = Range(code_trace_queue) \cup {a}
  BY RangeAppend DEF Inv, TypeOK
<1>2. \A b : get_object_at_address(b)' = get_object_at_address(b)
  BY ImageUnchanged
<1>3. /\ NamesAreFunctions'
      /\ IsCodeLabel(a)'
      /\ \A b : IsCodeLabel(b) => IsCodeLabel(b)'
      /\ \A b : IsCodeLabel(b)' => IsCodeLabel(b) \/ b = a
  <2>1. CASE labels' = set_label(labels, a, label)
    BY <2>1, SetCodeLabel DEF Inv
  <2>2. CASE labels' = labels /\ IsCodeLabel(a)
    BY <2>2 DEF Inv, NamesAreFunctions, IsCodeLabel
  <2> QED
    BY <2>1, <2>2
<1>4. /\ DOMAIN labels' \subseteq Address
      /\ \A b \in DOMAIN labels' : labels'[b] \in LabelSet
  <2>1. CASE labels' = set_label(labels, a, label)
    BY <2>1, SetLabel DEF Inv
  <2>2. CASE labels' = labels
    BY <2>2 DEF Inv, TypeOK
  <2> QED
    BY <2>1, <2>2
<1>5. RegionsPartition'
  BY <1>2 DEF Inv, RegionsPartition
<1>6. CodeStartsLabelled'
  BY <1>3 DEF Inv, CodeStartsLabelled
<1>7. \A t \in Range(code_trace_queue') : IsCodeLabel(t)'
  BY <1>1, <1>3 DEF Inv, WorklistLabelled
<1>8. \A b : IsFollowed(b) \/ b = a => IsFollowed(b)'
  BY <1>1, <1>2 DEF IsFollowed
<1>9. \A b : IsCodeLabel(b) => b \in DOMAIN labels
  BY DEF IsCodeLabel
<1>10. LabelsFollowed'
  BY <1>3, <1>8, <1>9 DEF Inv, LabelsFollowed
<1> QED
  BY <1>1, <1>3, <1>4, <1>5, <1>6, <1>7, <1>10

LEMMA EntryPointStep == Inv /\ add_eip_to_trace_queue => Inv'
<1> SUFFICES ASSUME Inv, add_eip_to_trace_queue PROVE Inv'
  OBVIOUS
<1> DEFINE start == [type |-> "FUNCTION", named |-> TRUE]
<1>1. /\ UNCHANGED <<exe, regions, phase, sites, trace, scan, traced>>
      /\ phase = "entry" /\ pc = "run" /\ pc' = "trace_code"
      /\ labels' = set_label(labels, EntryPoint, start)
      /\ code_trace_queue' = Append(code_trace_queue, EntryPoint)
  BY DEF add_eip_to_trace_queue
<1>2. EntryPoint \in Address
  <2>1. /\ exe.objects[exe.eip_object].base \in Address
        /\ exe.eip_offset \in Address
    BY ExecutableFacts DEF Inv, IsExecutable, Objects
  <2> QED
    BY <2>1, AddrSpaceAssumption DEF EntryPoint, Address
<1>3. start \in LabelSet /\ start.type = "FUNCTION"
  BY DEF LabelSet, LabelType
<1> HIDE DEF start
<1>4. ~ IsTracing /\ ~ IsTracing' /\ FixupSites' = FixupSites
  BY <1>1, ImageUnchanged DEF IsTracing
<1>5. /\ code_trace_queue' \in Seq(Address)
      /\ DOMAIN labels' \subseteq Address
      /\ \A b \in DOMAIN labels' : labels'[b] \in LabelSet
      /\ RegionsPartition'
      /\ CodeStartsLabelled'
      /\ \A t \in Range(code_trace_queue') : IsCodeLabel(t)'
      /\ LabelsFollowed'
      /\ NamesAreFunctions'
  BY <1>1, <1>2, <1>3, <1>4, QueueTarget
<1>6. TypeOK'
  BY <1>1, <1>4, <1>5 DEF Inv, TypeOK
<1>7. RegionHeld' /\ WorklistLabelled'
  BY <1>1, <1>4, <1>5 DEF RegionHeld, WorklistLabelled
<1> QED
  BY <1>5, <1>6, <1>7 DEF Inv

\* Whatever the decoder makes of the bytes in front of it, it takes at least
\* one of them and none past the end it was given.
LEMMA DecodedInstruction ==
    ASSUME TypeOK, NEW addr, get_object_at_address(addr) # NULL,
           NEW length \in Nat \ {0}, NEW inst \in disassemble(addr, length)
    PROVE  /\ inst \in InstructionSet
           /\ inst.size \in 1 .. length
<1>1. IsExecutable(exe)
  BY ExecutableFacts
<1>2. exe.text[addr] \subseteq InstructionSet /\ exe.stray \subseteq Address
  BY <1>1, ObjectFound DEF IsExecutable, Objects
<1>3. PICK full \in exe.text[addr] :
        inst \in IF full.size <= length THEN {full} ELSE Truncated(full)
  BY DEF disassemble
<1>4. full \in InstructionSet
  BY <1>2, <1>3
<1>5. full.size \in Nat \ {0} /\ full.target \in Address /\ full.type \in InstructionType
  BY <1>4, AddrSpaceAssumption DEF InstructionSet, Address
<1>6. CASE full.size <= length
  BY <1>3, <1>4, <1>5, <1>6
<1>7. CASE ~ (full.size <= length)
  <2>1. inst \in Truncated(full)
    BY <1>3, <1>7
  <2>2. /\ 1 \in Address \ {0} /\ 0 \in Address
    BY <1>4, <1>5, <1>7, AddrSpaceAssumption DEF InstructionSet, Address
  <2>3. \A type \in InstructionType, t \in Address :
            /\ [size |-> 1, type |-> type, target |-> t] \in InstructionSet
            /\ [size |-> 1, type |-> type, target |-> t].size = 1
    BY <2>2 DEF InstructionSet
  <2>4. \E type \in InstructionType, t \in Address :
            inst = [size |-> 1, type |-> type, target |-> t]
    BY <1>2, <1>5, <2>1, <2>2 DEF Truncated, InstructionType
  <2> QED
    BY <2>3, <2>4
<1> QED
  BY <1>6, <1>7

\* The decode loop only decodes bytes of its region.
LEMMA DecodedInside ==
    ASSUME Inv, DecodeInstruction,
           NEW inst \in disassemble(trace.addr, trace.end - trace.addr)
    PROVE  /\ trace.addr \in Address
           /\ inst \in InstructionSet
           /\ inst.target \in Address
           /\ inst.size \in 1 .. trace.end - trace.addr
<1>1. /\ pc = "decode" /\ trace.addr < trace.end
  BY DEF DecodeInstruction
<1>2. /\ trace.reg \in DOMAIN regions
      /\ trace.end = trace.reg + regions[trace.reg].size
      /\ trace.start \in trace.reg .. trace.end - 1
      /\ trace.addr \in trace.start .. trace.end
  BY <1>1 DEF Inv, RegionHeld, IsTracing
<1>3. trace.addr \in Nat /\ trace.end \in Nat /\ trace.start \in Nat
  BY AddrSpaceAssumption DEF Inv, TypeOK, Address
<1>4. /\ trace.reg \in Nat /\ regions[trace.reg].address = trace.reg
      /\ trace.end < AddrSpace
  BY <1>2, AddrSpaceAssumption DEF Inv, RegionsPartition, WellFormed, Address
<1>5. trace.addr \in Address
  BY <1>1, <1>3, <1>4, AddrSpaceAssumption DEF Address
<1>6. get_object_at_address(trace.addr) # NULL
  <2>1. InRegion(regions, trace.reg, trace.addr)
    BY <1>1, <1>2, <1>3, <1>4 DEF InRegion
  <2> QED
    BY <1>2, <1>5, <2>1 DEF Inv, RegionsPartition, IsMapped
<1>7. trace.end - trace.addr \in Nat \ {0}
  BY <1>1, <1>3
<1>8. inst \in InstructionSet /\ inst.size \in 1 .. trace.end - trace.addr
  BY <1>6, <1>7, DecodedInstruction DEF Inv
<1> QED
  BY <1>5, <1>8 DEF InstructionSet

LEMMA DecodeStep == Inv /\ DecodeInstruction => Inv'
<1> SUFFICES ASSUME Inv, DecodeInstruction PROVE Inv'
  OBVIOUS
<1>1. /\ UNCHANGED <<exe, regions, phase, sites, scan>>
      /\ pc = "decode"
      /\ trace.addr < trace.end
  BY DEF DecodeInstruction
<1>2. PICK inst \in disassemble(trace.addr, trace.end - trace.addr) :
        /\ follow_target(inst)
        /\ trace' = [trace EXCEPT !.addr = @ + inst.size]
        /\ traced' = [a \in DOMAIN traced \cup {trace.addr} |->
                        IF a = trace.addr THEN inst ELSE traced[a]]
        /\ pc' = IF EndsTrace(inst) THEN "insert_code" ELSE "decode"
  BY DEF DecodeInstruction
<1>3. /\ IsTracing /\ IsTracing'
      /\ pc' \in {"decode", "insert_code"}
  BY <1>1, <1>2 DEF IsTracing
<1>4. /\ trace.reg \in DOMAIN regions
      /\ regions[trace.reg].type # "CODE"
      /\ trace.end = trace.reg + regions[trace.reg].size
      /\ trace.start \in trace.reg .. trace.end - 1
      /\ trace.addr \in trace.start .. trace.end
  BY <1>3 DEF Inv, RegionHeld
<1>5. /\ trace \in [reg : Address \cup {NULL}, start : Address, addr : Nat, end : Nat]
      /\ trace.addr \in Nat /\ trace.end \in Nat /\ trace.start \in Nat
  BY AddrSpaceAssumption DEF Inv, TypeOK, Address
<1>9. /\ trace.addr \in Address
      /\ inst \in InstructionSet
      /\ inst.target \in Address
      /\ inst.size \in 1 .. trace.end - trace.addr
  BY DecodedInside
<1>10. /\ trace'.reg = trace.reg /\ trace'.start = trace.start
       /\ trace'.end = trace.end
       /\ trace'.addr = trace.addr + inst.size
       /\ trace' \in [reg : Address \cup {NULL}, start : Address, addr : Nat, end : Nat]
  BY <1>2, <1>5, <1>9
<1>11. /\ code_trace_queue' \in Seq(Address)
       /\ DOMAIN labels' \subseteq Address
       /\ \A b \in DOMAIN labels' : labels'[b] \in LabelSet
       /\ RegionsPartition'
       /\ CodeStartsLabelled'
       /\ \A t \in Range(code_trace_queue') : IsCodeLabel(t)'
       /\ \A b : IsCodeLabel(b) => IsCodeLabel(b)'
       /\ LabelsFollowed'
       /\ NamesAreFunctions'
  <2>1. CASE HasTarget(inst)
    <3>1. /\ labels' = set_label(labels, inst.target, TargetLabel(inst))
          /\ code_trace_queue' = Append(code_trace_queue, inst.target)
      BY <1>2, <2>1 DEF follow_target
    <3>2. /\ TargetLabel(inst) \in LabelSet
          /\ TargetLabel(inst).type \in {"FUNCTION", "JUMP"}
          /\ ~ TargetLabel(inst).named
      BY DEF TargetLabel, Label, LabelSet, LabelType
    <3> QED
      BY <1>1, <1>3, <1>9, <1>10, <3>1, <3>2, QueueTarget
  <2>2. CASE ~ HasTarget(inst)
    <3>1. labels' = labels /\ code_trace_queue' = code_trace_queue
      BY <1>2, <2>2 DEF follow_target
    <3>2. /\ RegionsPartition' /\ CodeStartsLabelled'
          /\ LabelsFollowed' /\ NamesAreFunctions'
      BY <1>1, <1>3, <1>10, <3>1, QuietStep
    <3>3. \A b : IsCodeLabel(b)' <=> IsCodeLabel(b)
      BY <3>1 DEF IsCodeLabel
    <3> QED
      BY <3>1, <3>2, <3>3 DEF Inv, TypeOK, WorklistLabelled
  <2> QED
    BY <2>1, <2>2
<1>12. /\ DOMAIN traced' \subseteq Address
       /\ \A a \in DOMAIN traced' : traced'[a] \in InstructionSet
  BY <1>2, <1>9 DEF Inv, TypeOK
<1>13. FixupSites' = FixupSites
  BY <1>1, ImageUnchanged
<1>14. TypeOK'
  BY <1>1, <1>3, <1>10, <1>11, <1>12, <1>13 DEF Inv, TypeOK
<1>15. RegionHeld'
  BY <1>1, <1>3, <1>4, <1>5, <1>9, <1>10 DEF RegionHeld
<1>16. WorklistLabelled'
  BY <1>3, <1>10, <1>11 DEF Inv, WorklistLabelled
<1> QED
  BY <1>11, <1>14, <1>15, <1>16 DEF Inv

\* The scan stays inside the region it started in.
LEMMA ScanWithin ==
    ASSUME Inv, pc = "scan", WordFits
    PROVE  /\ ScanAddress \in Address
           /\ get_object_at_address(ScanAddress) # NULL
           /\ read_le(ScanAddress) \in Address
           /\ WordSize * (scan.count + 1) <= scan.size
           /\ scan.count + 1 \in Nat \ {0}
<1>1. /\ scan.reg \in DOMAIN regions
      /\ scan.address \in scan.reg .. scan.reg + regions[scan.reg].size - 1
      /\ scan.size \in 1 .. scan.reg + regions[scan.reg].size - scan.address
  BY DEF Inv, RegionHeld
<1>2. /\ scan.reg \in Nat /\ regions[scan.reg].address = scan.reg
      /\ regions[scan.reg].size \in Nat
      /\ scan.reg + regions[scan.reg].size < AddrSpace
  BY <1>1, EndAddress DEF Inv, RegionsPartition, WellFormed
<1>3. scan.address \in Nat /\ scan.size \in Nat /\ scan.count \in Nat
  BY AddrSpaceAssumption DEF Inv, TypeOK, Address
<1>4. PICK bytes \in Nat : bytes = WordSize * scan.count
  BY <1>3, WordSizeAssumption
<1>5. bytes + WordSize <= scan.size
  BY <1>4 DEF WordFits
<1>6. /\ ScanAddress \in Nat
      /\ scan.reg <= ScanAddress
      /\ ScanAddress < scan.reg + regions[scan.reg].size
  BY <1>1, <1>2, <1>3, <1>4, <1>5, WordSizeAssumption DEF ScanAddress
<1>7. ScanAddress \in Address
  BY <1>2, <1>6, AddrSpaceAssumption DEF Address
<1>8. get_object_at_address(ScanAddress) # NULL
  <2>1. InRegion(regions, scan.reg, ScanAddress)
    BY <1>2, <1>6 DEF InRegion
  <2> QED
    BY <1>1, <1>7, <2>1 DEF Inv, RegionsPartition, IsMapped
<1>9. read_le(ScanAddress) \in Address
  BY <1>8, ExecutableFacts, ObjectFound DEF Inv, IsExecutable, read_le, Objects
<1>10. WordSize * (scan.count + 1) = bytes + WordSize
  BY <1>3, <1>4, WordSizeAssumption
<1> QED
  BY <1>3, <1>5, <1>7, <1>8, <1>9, <1>10

LEMMA ScanEntryStep == Inv /\ ScanEntry => Inv'
<1> SUFFICES ASSUME Inv, ScanEntry PROVE Inv'
  OBVIOUS
<1> DEFINE addr == read_le(ScanAddress)
<1>1. /\ UNCHANGED <<exe, regions, phase, pc, sites, trace, traced>>
      /\ pc = "scan" /\ WordFits
      /\ scan' = [scan EXCEPT !.count = @ + 1]
      /\ IF addr # 0
         THEN /\ labels' = set_label(labels, addr, Label("FUNCTION"))
              /\ code_trace_queue' = Append(code_trace_queue, addr)
         ELSE UNCHANGED <<labels, code_trace_queue>>
  BY DEF ScanEntry
<1>2. /\ addr \in Address
      /\ WordSize * (scan.count + 1) <= scan.size
      /\ scan.count + 1 \in Nat \ {0}
  BY <1>1, ScanWithin
<1> HIDE DEF addr
<1>3. ~ IsTracing /\ ~ IsTracing' /\ FixupSites' = FixupSites
  BY <1>1, ImageUnchanged DEF IsTracing
<1>4. /\ scan'.reg = scan.reg /\ scan'.address = scan.address
      /\ scan'.size = scan.size /\ scan'.count = scan.count + 1
      /\ scan' \in [reg : Address \cup {NULL}, address : Address, size : Nat,
                    count : Nat]
  BY <1>1, <1>2 DEF Inv, TypeOK
<1>5. \A t \in Range(code_trace_queue) : labels[t].type = "FUNCTION" /\ t \in DOMAIN labels
  BY <1>1 DEF Inv, WorklistLabelled, IsCodeLabel
<1>6. /\ code_trace_queue' \in Seq(Address)
      /\ DOMAIN labels' \subseteq Address
      /\ \A b \in DOMAIN labels' : labels'[b] \in LabelSet
      /\ RegionsPartition'
      /\ CodeStartsLabelled'
      /\ \A t \in Range(code_trace_queue') : IsCodeLabel(t)'
      /\ \A t \in Range(code_trace_queue') : labels'[t].type = "FUNCTION"
      /\ LabelsFollowed'
      /\ NamesAreFunctions'
  <2>1. CASE addr # 0
    <3>1. /\ labels' = set_label(labels, addr, Label("FUNCTION"))
          /\ code_trace_queue' = Append(code_trace_queue, addr)
      BY <1>1, <2>1
    <3>2. /\ Label("FUNCTION") \in LabelSet
          /\ Label("FUNCTION").type = "FUNCTION"
          /\ ~ Label("FUNCTION").named
      BY DEF Label, LabelSet, LabelType
    <3>3. Range(code_trace_queue') = Range(code_trace_queue) \cup {addr}
      BY <1>2, <3>1, RangeAppend DEF Inv, TypeOK
    <3>4. labels'[addr].type = "FUNCTION"
      BY <1>2, <3>1, <3>2, SetLabel DEF Inv, NamesAreFunctions
    <3>5. \A b \in DOMAIN labels :
            labels[b].type = "FUNCTION" => labels'[b].type = "FUNCTION"
      BY <1>2, <3>1, <3>2, SetLabel DEF Inv
    <3>6. \A t \in Range(code_trace_queue') : labels'[t].type = "FUNCTION"
      BY <1>5, <3>3, <3>4, <3>5
    <3> QED
      BY <1>1, <1>2, <1>3, <3>1, <3>2, <3>6, QueueTarget
  <2>2. CASE addr = 0
    <3>1. labels' = labels /\ code_trace_queue' = code_trace_queue
      BY <1>1, <2>2
    <3>2. /\ RegionsPartition' /\ CodeStartsLabelled'
          /\ LabelsFollowed' /\ NamesAreFunctions'
      BY <1>1, <1>3, <3>1, QuietStep
    <3>3. \A b : IsCodeLabel(b)' <=> IsCodeLabel(b)
      BY <3>1 DEF IsCodeLabel
    <3> QED
      BY <1>5, <3>1, <3>2, <3>3 DEF Inv, TypeOK, WorklistLabelled
  <2> QED
    BY <2>1, <2>2
<1>7. TypeOK'
  BY <1>1, <1>3, <1>4, <1>6 DEF Inv, TypeOK
<1>8. RegionHeld'
  BY <1>1, <1>2, <1>3, <1>4 DEF Inv, RegionHeld
<1>9. WorklistLabelled'
  <2>1. scan'.count # 0
    BY <1>2, <1>4
  <2> QED
    BY <1>1, <1>3, <1>6, <2>1 DEF WorklistLabelled
<1> QED
  BY <1>6, <1>7, <1>8, <1>9 DEF Inv

LEMMA TraceRelocStep == Inv /\ TraceReloc => Inv'
<1> SUFFICES ASSUME Inv, TraceReloc PROVE Inv'
  OBVIOUS
<1> DEFINE address == FixupAddress(CurrentSite)
<1>1. /\ UNCHANGED <<exe, regions, phase, sites, trace, scan, traced>>
      /\ phase = "relocs" /\ pc = "next_fixup" /\ pc' = "trace_code"
      /\ sites # {}
      /\ labels' = IF IsCodeLabel(address) THEN labels
                   ELSE set_label(labels, address, Label("FUNCTION"))
      /\ code_trace_queue' = Append(code_trace_queue, address)
  BY DEF TraceReloc
<1>2. address \in Address
  BY <1>1, CurrentSiteFound DEF Inv
<1> HIDE DEF address
<1>3. /\ Label("FUNCTION") \in LabelSet
      /\ Label("FUNCTION").type = "FUNCTION"
      /\ ~ Label("FUNCTION").named
  BY DEF Label, LabelSet, LabelType
<1>4. \/ labels' = set_label(labels, address, Label("FUNCTION"))
      \/ labels' = labels /\ IsCodeLabel(address)
  BY <1>1
<1>5. ~ IsTracing /\ ~ IsTracing' /\ FixupSites' = FixupSites
  BY <1>1, ImageUnchanged DEF IsTracing
<1>6. /\ code_trace_queue' \in Seq(Address)
      /\ DOMAIN labels' \subseteq Address
      /\ \A b \in DOMAIN labels' : labels'[b] \in LabelSet
      /\ RegionsPartition'
      /\ CodeStartsLabelled'
      /\ \A t \in Range(code_trace_queue') : IsCodeLabel(t)'
      /\ LabelsFollowed'
      /\ NamesAreFunctions'
  BY <1>1, <1>2, <1>3, <1>4, <1>5, QueueTarget
<1>7. TypeOK'
  BY <1>1, <1>5, <1>6 DEF Inv, TypeOK
<1>8. RegionHeld' /\ WorklistLabelled'
  BY <1>1, <1>5, <1>6 DEF RegionHeld, WorklistLabelled
<1> QED
  BY <1>6, <1>7, <1>8 DEF Inv

-----------------------------------------------------------------------------
(* A data label, where no code is waiting and no code starts. *)

LEMMA LabelDataStep == Inv /\ LabelData => Inv'
<1> SUFFICES ASSUME Inv, LabelData PROVE Inv'
  OBVIOUS
<1>0. PICK address : address = FixupAddress(CurrentSite)
  OBVIOUS
<1>1. /\ UNCHANGED <<exe, regions, code_trace_queue, phase, pc, trace, scan, traced>>
      /\ phase = "relocs" /\ pc = "next_fixup"
      /\ sites # {} /\ sites' = sites \ {CurrentSite}
      /\ FixupRegion # NULL /\ regions[FixupRegion].type = "DATA"
      /\ labels' = set_label(labels, address, Label("DATA"))
  BY <1>0 DEF LabelData, FixupRegionHas
<1>2. address \in Address
  BY <1>0, <1>1, CurrentSiteFound DEF Inv
<1>3. address \in DOMAIN regions => regions[address].type = "DATA"
  BY <1>0, <1>1 DEF FixupRegion, get_region_at_address
<1>4. code_trace_queue = <<>>
  BY <1>1 DEF Inv, WorklistLabelled
<1>5. /\ NamesAreFunctions'
      /\ \A b : b # address => (IsCodeLabel(b)' <=> IsCodeLabel(b))
      /\ IsCodeLabel(address)' => IsCodeLabel(address)
  <2>1. TypeOK /\ NamesAreFunctions /\ "DATA" \in {"DATA", "VTABLE"}
    BY DEF Inv
  <2> QED
    BY <1>1, <1>2, <2>1, SetOtherLabel
<1>6. Label("DATA") \in LabelSet
  BY DEF Label, LabelSet, LabelType
<1>7. /\ DOMAIN labels' \subseteq Address
      /\ \A b \in DOMAIN labels' : labels'[b] \in LabelSet
  BY <1>1, <1>2, <1>6, SetLabel DEF Inv
<1>8. /\ FixupSites' = FixupSites
      /\ \A a : get_object_at_address(a)' = get_object_at_address(a)
      /\ ~ IsTracing /\ ~ IsTracing'
  BY <1>1, ImageUnchanged DEF IsTracing
<1>9. TypeOK'
  BY <1>1, <1>7, <1>8 DEF Inv, TypeOK
<1>10. RegionsPartition' /\ RegionHeld'
  BY <1>1, <1>8 DEF Inv, RegionsPartition, RegionHeld
<1>11. CodeStartsLabelled'
  BY <1>1, <1>3, <1>5 DEF Inv, CodeStartsLabelled
<1>12. WorklistLabelled'
  BY <1>1, <1>4, <1>8 DEF WorklistLabelled, Range
<1>13. \A a : IsFollowed(a) => IsFollowed(a)'
  BY <1>1, <1>8 DEF IsFollowed
<1>14. \A a : IsCodeLabel(a)' => IsCodeLabel(a) /\ a \in DOMAIN labels
  <2>1. \A a : IsCodeLabel(a)' => IsCodeLabel(a)
    BY <1>5, Zenon
  <2> QED
    BY <2>1 DEF IsCodeLabel
<1>15. LabelsFollowed'
  BY <1>13, <1>14 DEF Inv, LabelsFollowed
<1> QED
  BY <1>5, <1>9, <1>10, <1>11, <1>12, <1>15 DEF Inv

-----------------------------------------------------------------------------
(* The two insertions. *)

\* A byte has one kind.
LEMMA OneKind ==
    ASSUME NEW map, WellFormed(map), NEW a \in Int,
           NEW t, NEW u, HasKind(map, a, t), HasKind(map, a, u)
    PROVE  t = u
<1>1. PICK j \in DOMAIN map : InRegion(map, j, a) /\ map[j].type = t
  BY DEF HasKind
<1>2. PICK k \in DOMAIN map : InRegion(map, k, a) /\ map[k].type = u
  BY DEF HasKind
<1>3. /\ j \in Nat /\ map[j].address = j /\ map[j].size \in Nat
      /\ k \in Nat /\ map[k].address = k /\ map[k].size \in Nat
  BY EndAddress
<1>4. j <= a /\ a < j + map[j].size /\ k <= a /\ a < k + map[k].size
  BY <1>1, <1>2, <1>3 DEF InRegion
<1>5. /\ j < k => j + map[j].size <= k
      /\ k < j => k + map[k].size <= j
  BY DEF WellFormed
<1>6. j = k
  BY <1>3, <1>4, <1>5
<1> QED
  BY <1>1, <1>2, <1>6

\* What trace_code_at_address inserts lies in the region it looked up.
LEMMA TracedFits ==
    ASSUME Inv, pc = "insert_code"
    PROVE  /\ FitsIn(regions, trace.reg, TracedRegion)
           /\ TracedRegion.address = trace.start
           /\ TracedRegion.type = "CODE"
           /\ TracedRegion.address + TracedRegion.size = trace.addr
           /\ trace.start \in Nat /\ trace.addr \in Nat /\ trace.start < trace.addr
<1>1. /\ trace.reg \in DOMAIN regions
      /\ trace.end = trace.reg + regions[trace.reg].size
      /\ trace.start \in trace.reg .. trace.end - 1
      /\ trace.addr \in trace.start .. trace.end
      /\ trace.addr > trace.start
  BY DEF Inv, RegionHeld, IsTracing
<1>2. /\ trace.reg \in Nat /\ regions[trace.reg].size \in Nat
      /\ trace.end < AddrSpace
  BY <1>1, EndAddress DEF Inv, RegionsPartition, WellFormed
<1>3. trace.start \in Address /\ trace.start \in Nat /\ trace.addr \in Nat
  BY AddrSpaceAssumption DEF Inv, TypeOK, Address
<1>4. trace.addr - trace.start \in Address
  BY <1>1, <1>2, <1>3, AddrSpaceAssumption DEF Address
<1>5. TracedRegion = [address |-> trace.start, size |-> trace.addr - trace.start,
                      type |-> "CODE"]
  BY <1>4, NoWrap DEF TracedRegion, Region
<1>6. TracedRegion \in RegionSet
  BY <1>3, <1>4, <1>5 DEF RegionSet, RegionType
<1>7. /\ TracedRegion.address = trace.start
      /\ TracedRegion.size = trace.addr - trace.start
      /\ TracedRegion.type = "CODE"
  BY <1>5
<1>8. FitsIn(regions, trace.reg, TracedRegion)
  BY <1>1, <1>2, <1>3, <1>6, <1>7 DEF FitsIn
<1> QED
  BY <1>1, <1>3, <1>7, <1>8

\* So does what trace_vtables inserts.
LEMMA ScannedFits ==
    ASSUME Inv, pc = "insert_vtable"
    PROVE  /\ FitsIn(regions, scan.reg, ScannedRegion)
           /\ ScannedRegion.address = scan.address
           /\ ScannedRegion.type = "VTABLE"
           /\ ScannedRegion.size \in Nat \ {0}
           /\ ScannedRegion.size = WordSize * scan.count
           /\ scan.address \in Nat
<1>1. /\ scan.reg \in DOMAIN regions
      /\ scan.address \in scan.reg .. scan.reg + regions[scan.reg].size - 1
      /\ scan.size \in 1 .. scan.reg + regions[scan.reg].size - scan.address
      /\ WordSize * scan.count <= scan.size
      /\ scan.count > 0
  BY DEF Inv, RegionHeld
<1>2. /\ scan.reg \in Nat /\ regions[scan.reg].size \in Nat
      /\ scan.reg + regions[scan.reg].size < AddrSpace
  BY <1>1, EndAddress DEF Inv, RegionsPartition, WellFormed
<1>3. /\ scan.address \in Address /\ scan.address \in Nat
      /\ scan.size \in Nat /\ scan.count \in Nat
  BY AddrSpaceAssumption DEF Inv, TypeOK, Address
<1>4. PICK bytes \in Nat \ {0} : bytes = WordSize * scan.count
  BY <1>1, <1>3, WordSizeAssumption
<1>5. bytes \in Address
  BY <1>1, <1>2, <1>3, <1>4, AddrSpaceAssumption DEF Address
<1>6. ScannedRegion = [address |-> scan.address, size |-> bytes, type |-> "VTABLE"]
  BY <1>4, <1>5, NoWrap DEF ScannedRegion, Region
<1>7. ScannedRegion \in RegionSet
  BY <1>3, <1>5, <1>6 DEF RegionSet, RegionType
<1>8. /\ ScannedRegion.address = scan.address
      /\ ScannedRegion.size = bytes
      /\ ScannedRegion.type = "VTABLE"
  BY <1>6
<1>9. FitsIn(regions, scan.reg, ScannedRegion)
  BY <1>1, <1>2, <1>3, <1>4, <1>7, <1>8 DEF FitsIn
<1> QED
  BY <1>3, <1>4, <1>8, <1>9

\* Both insertions keep the partition.
LEMMA InsertPartition ==
    ASSUME RegionsPartition, exe' = exe,
           NEW parent, NEW reg, FitsIn(regions, parent, reg),
           regions' = insert_region(regions, parent, reg)
    PROVE  /\ RegionsPartition'
           /\ DOMAIN regions' \subseteq Address
           /\ \A k \in DOMAIN regions' : regions'[k] \in RegionSet
<1>1. WellFormed(regions)
  BY DEF RegionsPartition
<1>2. WellFormed(regions')
  BY <1>1, InsertCorrect
<1>3. \A a \in Int : IsMapped(regions', a) <=> IsMapped(regions, a)
  BY <1>1, InsertKeepsMapped
<1>4. \A a : get_object_at_address(a)' = get_object_at_address(a)
  BY ImageUnchanged
<1>5. Address \subseteq Int
  BY AddrSpaceAssumption DEF Address
<1>6. RegionsPartition'
  BY <1>2, <1>3, <1>4, <1>5 DEF RegionsPartition
<1> QED
  BY <1>2, <1>6 DEF WellFormed

LEMMA InsertCodeStep == Inv /\ InsertCode => Inv'
<1> SUFFICES ASSUME Inv, InsertCode PROVE Inv'
  OBVIOUS
<1>1. PICK start : start = trace.start
  OBVIOUS
<1>2. /\ UNCHANGED <<exe, labels, code_trace_queue, phase, sites, scan, traced>>
      /\ pc = "insert_code" /\ pc' = "trace_code"
      /\ trace' = NoTrace
      /\ regions' = insert_region(regions, trace.reg, TracedRegion)
  BY DEF InsertCode
<1>3. /\ FitsIn(regions, trace.reg, TracedRegion)
      /\ TracedRegion.address = start
      /\ TracedRegion.type = "CODE"
      /\ TracedRegion.address + TracedRegion.size = trace.addr
      /\ start \in Nat /\ trace.addr \in Nat /\ start < trace.addr
  BY <1>1, <1>2, TracedFits
<1>4. /\ RegionsPartition'
      /\ DOMAIN regions' \subseteq Address
      /\ \A k \in DOMAIN regions' : regions'[k] \in RegionSet
  BY <1>2, <1>3, InsertPartition DEF Inv
<1>5. IsTracing /\ ~ IsTracing'
  BY <1>2 DEF IsTracing
<1>6. regions[trace.reg].type # "CODE" /\ IsCodeLabel(start)
  BY <1>1, <1>5 DEF Inv, RegionHeld, WorklistLabelled
<1>7. /\ \A a \in Int, t \in RegionType :
            HasKind(regions', a, t) <=>
                IF start <= a /\ a < trace.addr
                THEN t = "CODE"
                ELSE HasKind(regions, a, t)
      /\ \A k \in DOMAIN regions' :
            \/ k = start
            \/ k \in DOMAIN regions /\ regions'[k].type = regions[k].type
            \/ regions'[k].type = regions[trace.reg].type
  BY <1>2, <1>3, InsertCorrect DEF Inv, RegionsPartition
<1>8. /\ FixupSites' = FixupSites
      /\ \A a : get_object_at_address(a)' = get_object_at_address(a)
  BY <1>2, ImageUnchanged
<1>9. TypeOK'
  <2>1. trace' \in [reg : Address \cup {NULL}, start : Address, addr : Nat, end : Nat]
    BY <1>2, AddrSpaceAssumption DEF NoTrace, Address
  <2> QED
    BY <1>2, <1>4, <1>8, <2>1 DEF Inv, TypeOK
<1>10. RegionHeld'
  BY <1>2, <1>5 DEF RegionHeld
<1>11. \A a : IsCodeLabel(a)' <=> IsCodeLabel(a)
  BY <1>2 DEF IsCodeLabel
<1>12. CodeStartsLabelled'
  BY <1>6, <1>7, <1>11 DEF Inv, CodeStartsLabelled
<1>13. WorklistLabelled'
  BY <1>2, <1>5, <1>11 DEF Inv, WorklistLabelled
<1>14. ASSUME NEW a \in Address, IsFollowed(a)
       PROVE  IsFollowed(a)'
  <2>1. "CODE" \in RegionType /\ a \in Int
    BY AddrSpaceAssumption DEF RegionType, Address
  <2>2. HasKind(regions, a, "CODE") \/ a = start => HasKind(regions', a, "CODE")
    BY <1>3, <1>7, <2>1
  <2>3. \/ get_object_at_address(a) = NULL
        \/ HasKind(regions, a, "CODE")
        \/ a \in Range(code_trace_queue)
        \/ a = start
    BY <1>1, <1>14 DEF IsFollowed
  <2> QED
    BY <1>2, <1>8, <2>2, <2>3 DEF IsFollowed
<1>15. LabelsFollowed'
  BY <1>2, <1>11, <1>14 DEF Inv, LabelsFollowed, TypeOK
<1>16. NamesAreFunctions'
  BY <1>2 DEF Inv, NamesAreFunctions
<1> QED
  BY <1>4, <1>9, <1>10, <1>12, <1>13, <1>15, <1>16 DEF Inv

LEMMA InsertVtableStep == Inv /\ InsertVtable => Inv'
<1> SUFFICES ASSUME Inv, InsertVtable PROVE Inv'
  OBVIOUS
<1>1. PICK address : address = scan.address
  OBVIOUS
<1>2. /\ UNCHANGED <<exe, code_trace_queue, phase, sites, trace, traced>>
      /\ pc = "insert_vtable" /\ pc' = "trace_code"
      /\ scan' = NoScan
      /\ regions' = insert_region(regions, scan.reg, ScannedRegion)
      /\ labels' = set_label(labels, address, Label("VTABLE"))
  BY <1>1 DEF InsertVtable
<1> DEFINE end == ScannedRegion.address + ScannedRegion.size
<1>3. /\ FitsIn(regions, scan.reg, ScannedRegion)
      /\ ScannedRegion.address = address
      /\ ScannedRegion.type = "VTABLE"
      /\ ScannedRegion.size \in Nat \ {0}
      /\ address \in Nat /\ end \in Nat /\ address < end
  BY <1>1, <1>2, ScannedFits
<1>4. /\ RegionsPartition'
      /\ DOMAIN regions' \subseteq Address
      /\ \A k \in DOMAIN regions' : regions'[k] \in RegionSet
  BY <1>2, <1>3, InsertPartition DEF Inv
<1>5. ~ IsTracing /\ ~ IsTracing'
  BY <1>2 DEF IsTracing
<1>6. regions[scan.reg].type = "UNKNOWN" /\ scan.reg \in DOMAIN regions
  BY <1>2 DEF Inv, RegionHeld
<1>7. /\ \A a \in Int, t \in RegionType :
            HasKind(regions', a, t) <=>
                IF address <= a /\ a < end
                THEN t = "VTABLE"
                ELSE HasKind(regions, a, t)
      /\ \A k \in DOMAIN regions' :
            \/ k = address /\ regions'[k].type = "VTABLE"
            \/ k \in DOMAIN regions /\ regions'[k].type = regions[k].type
            \/ regions'[k].type = "UNKNOWN"
  BY <1>2, <1>3, <1>6, InsertCorrect DEF Inv, RegionsPartition
<1>8. address \in Address
  BY <1>1 DEF Inv, TypeOK
<1>9. /\ NamesAreFunctions'
      /\ \A b : b # address => (IsCodeLabel(b)' <=> IsCodeLabel(b))
      /\ IsCodeLabel(address)' => IsCodeLabel(address)
  <2>1. TypeOK /\ NamesAreFunctions /\ "VTABLE" \in {"DATA", "VTABLE"}
    BY DEF Inv
  <2> QED
    BY <1>2, <1>8, <2>1, SetOtherLabel
<1>10. /\ DOMAIN labels' \subseteq Address
       /\ \A b \in DOMAIN labels' : labels'[b] \in LabelSet
       /\ \A b \in DOMAIN labels :
            labels[b].type = "FUNCTION" => b \in DOMAIN labels' /\ labels'[b].type = "FUNCTION"
  <2>1. Label("VTABLE") \in LabelSet
    BY DEF Label, LabelSet, LabelType
  <2> QED
    BY <1>2, <1>8, <2>1, SetLabel DEF Inv
<1>11. /\ FixupSites' = FixupSites
       /\ \A a : get_object_at_address(a)' = get_object_at_address(a)
  BY <1>2, ImageUnchanged
<1>12. TypeOK'
  <2>1. scan' \in [reg : Address \cup {NULL}, address : Address, size : Nat,
                   count : Nat]
    BY <1>2, AddrSpaceAssumption DEF NoScan, Address
  <2> QED
    BY <1>2, <1>4, <1>10, <1>11, <2>1 DEF Inv, TypeOK
<1>13. RegionHeld'
  BY <1>2, <1>5 DEF RegionHeld
<1>14. ASSUME NEW k \in DOMAIN regions', regions'[k].type = "CODE"
       PROVE  IsCodeLabel(k)'
  <2>1. k \in DOMAIN regions /\ regions[k].type = "CODE"
    BY <1>7, <1>14
  <2>2. k # address
    <3>1. HasKind(regions', k, "CODE") /\ k \in Int
      <4>1. WellFormed(regions')
        BY <1>4 DEF RegionsPartition
      <4> QED
        BY <1>14, <4>1, EndAddress DEF HasKind, InRegion
    <3> QED
      BY <1>3, <1>7, <3>1 DEF RegionType
  <2> QED
    BY <1>9, <2>1, <2>2 DEF Inv, CodeStartsLabelled
<1>15. CodeStartsLabelled'
  BY <1>14 DEF CodeStartsLabelled
<1>16. WorklistLabelled'
  <2>1. \A t \in Range(code_trace_queue) :
            labels[t].type = "FUNCTION" /\ t \in DOMAIN labels
    BY <1>2 DEF Inv, WorklistLabelled, IsCodeLabel
  <2>2. \A t \in Range(code_trace_queue') : IsCodeLabel(t)'
    BY <1>2, <1>10, <2>1 DEF IsCodeLabel
  <2> QED
    BY <1>2, <1>5, <2>2 DEF WorklistLabelled
<1>17. ASSUME NEW a \in Address, IsFollowed(a)
       PROVE  IsFollowed(a)'
  <2>1. "CODE" \in RegionType /\ "UNKNOWN" \in RegionType /\ a \in Int
    BY AddrSpaceAssumption DEF RegionType, Address
  <2>2. address <= a /\ a < end => HasKind(regions, a, "UNKNOWN")
    BY <1>3, <1>6, <2>1, FitsInEnds DEF FitsIn, HasKind, InRegion, Inv, RegionsPartition
  <2>3. HasKind(regions, a, "CODE") => HasKind(regions', a, "CODE")
    BY <1>7, <2>1, <2>2, OneKind DEF Inv, RegionsPartition
  <2>4. \/ get_object_at_address(a) = NULL
        \/ HasKind(regions, a, "CODE")
        \/ a \in Range(code_trace_queue)
    BY <1>5, <1>17 DEF IsFollowed
  <2> QED
    BY <1>2, <1>11, <2>3, <2>4 DEF IsFollowed
<1>18. LabelsFollowed'
  <2>1. \A a : IsCodeLabel(a)' => IsCodeLabel(a)
    BY <1>9, Zenon
  <2>2. \A a : IsCodeLabel(a)' => IsCodeLabel(a) /\ a \in DOMAIN labels
    BY <2>1 DEF IsCodeLabel
  <2> QED
    BY <1>17, <2>2 DEF Inv, LabelsFollowed, TypeOK
<1> QED
  BY <1>4, <1>9, <1>12, <1>13, <1>15, <1>16, <1>18 DEF Inv

-----------------------------------------------------------------------------
(* The theorems. *)

\* No step of any pass breaks the invariant.
LEMMA StepInv == Inv /\ [Next]_vars => Inv'
<1> SUFFICES ASSUME Inv, [Next]_vars PROVE Inv'
  OBVIOUS
<1>1. CASE UNCHANGED vars
  <2>1. /\ UNCHANGED <<exe, regions, labels, code_trace_queue, phase, pc, sites,
                       trace, scan, traced>>
        /\ IsTracing' = IsTracing
    BY <1>1 DEF vars, IsTracing
  <2>2. /\ RegionsPartition' /\ CodeStartsLabelled'
        /\ LabelsFollowed' /\ NamesAreFunctions'
    BY <2>1, QuietStep
  <2>3. FixupSites' = FixupSites
    BY <2>1, ImageUnchanged
  <2>4. TypeOK'
    BY <2>1, <2>3 DEF Inv, TypeOK
  <2>5. RegionHeld'
    BY <2>1 DEF Inv, RegionHeld
  <2>6. WorklistLabelled'
    BY <2>1 DEF Inv, WorklistLabelled, IsCodeLabel
  <2> QED
    BY <2>2, <2>4, <2>5, <2>6 DEF Inv
<1>2. CASE add_eip_to_trace_queue
  BY <1>2, EntryPointStep
<1>3. CASE trace_code
  BY <1>3, SkipQueuedStep, StartTraceStep, BetweenFixups DEF trace_code
<1>4. CASE trace_code_at_address
  BY <1>4, DecodeStep, RegionExhaustedStep, InsertCodeStep DEF trace_code_at_address
<1>5. CASE trace_vtables
  BY <1>5, StartScanStep, ScanEntryStep, VtableFoundStep, InsertVtableStep,
     BetweenFixups DEF trace_vtables
<1>6. CASE trace_remaining_relocs
  BY <1>6, TraceRelocStep, LabelDataStep, BetweenFixups DEF trace_remaining_relocs
<1> QED
  BY <1>1, <1>2, <1>3, <1>4, <1>5, <1>6 DEF Next

\* The inductive invariant holds in every state of every analysis.
THEOREM InvHolds == Spec => []Inv
<1> QED
  BY InitInv, StepInv, PTL DEF Spec

\* The variables keep their types (run() and the passes it calls).
THEOREM TypeCorrect == Spec => []TypeOK
<1>1. Inv => TypeOK
  BY DEF Inv
<1> QED
  BY <1>1, InvHolds, PTL

\* insert_region and check_merge_regions keep the regions an exact partition
\* of the bytes of the objects.
THEOREM PartitionKept == Spec => []RegionsPartition
<1>1. Inv => RegionsPartition
  BY DEF Inv
<1> QED
  BY <1>1, InvHolds, PTL

\* The Region* held across the decode and scan loops is still the region that
\* was looked up.
THEOREM RegionStillHeld == Spec => []RegionHeld
<1>1. Inv => RegionHeld
  BY DEF Inv
<1> QED
  BY <1>1, InvHolds, PTL

\* The two assertions of insert_region never fail.
THEOREM AssertsHold == Spec => []InsertAsserts
<1>1. Inv => InsertAsserts
  <2> SUFFICES ASSUME Inv PROVE InsertAsserts
    OBVIOUS
  <2>1. WellFormed(regions)
    BY DEF Inv, RegionsPartition
  <2>2. ASSUME pc = "insert_code"
        PROVE  /\ trace.reg \in DOMAIN regions
               /\ insert_allowed(regions, trace.reg, TracedRegion)
    BY <2>1, <2>2, TracedFits, InsertAllowed DEF FitsIn
  <2>3. ASSUME pc = "insert_vtable"
        PROVE  /\ scan.reg \in DOMAIN regions
               /\ insert_allowed(regions, scan.reg, ScannedRegion)
    BY <2>1, <2>3, ScannedFits, InsertAllowed DEF FitsIn
  <2> QED
    BY <2>2, <2>3 DEF InsertAsserts
<1> QED
  BY <1>1, InvHolds, PTL

\* Every code region starts with a function or jump label.
THEOREM CodeLabelled == Spec => []CodeStartsLabelled
<1>1. Inv => CodeStartsLabelled
  BY DEF Inv
<1> QED
  BY <1>1, InvHolds, PTL

\* Everything that waits to be traced has a code label.
THEOREM QueueLabelled == Spec => []WorklistLabelled
<1>1. Inv => WorklistLabelled
  BY DEF Inv
<1> QED
  BY <1>1, InvHolds, PTL

\* The worklist forgets no label.
THEOREM NothingForgotten == Spec => []LabelsFollowed
<1>1. Inv => LabelsFollowed
  BY DEF Inv
<1> QED
  BY <1>1, InvHolds, PTL

-----------------------------------------------------------------------------
(* Code labels are kept. *)

\* A code label at an address that is neither code nor waiting does not exist.
LEMMA NoWaitingLabel ==
    ASSUME Inv, ~ IsTracing, NEW a \in Address,
           NEW t, t # "CODE", HasKind(regions, a, t), IsCodeLabel(a)
    PROVE  a \in Range(code_trace_queue)
<1>1. IsFollowed(a)
  BY DEF Inv, LabelsFollowed, IsCodeLabel
<1>2. ~ HasKind(regions, a, "CODE")
  BY OneKind, AddrSpaceAssumption DEF Inv, RegionsPartition, Address
<1>3. get_object_at_address(a) # NULL
  BY DEF Inv, RegionsPartition, HasKind, IsMapped
<1> QED
  BY <1>1, <1>2, <1>3 DEF IsFollowed

CodeLabels ==
    {label \in LabelSet : label.type \in {"FUNCTION", "JUMP"}
                          /\ (label.named => label.type = "FUNCTION")}

\* The labels that are set: code labels, by all the steps but two.
LEMMA LabelStep ==
    ASSUME Inv, [Next]_vars
    PROVE  \/ labels' = labels
           \/ \E b \in Address, label \in CodeLabels : labels' = set_label(labels, b, label)
           \/ InsertVtable \/ LabelData
<1>1. \A type \in {"FUNCTION", "JUMP"} : Label(type) \in CodeLabels
  BY DEF Label, LabelSet, LabelType, CodeLabels
<1>2. CASE add_eip_to_trace_queue
  <2>1. EntryPoint \in Address
    <3>1. exe.objects[exe.eip_object].base \in Address /\ exe.eip_offset \in Address
      BY ExecutableFacts DEF Inv, IsExecutable, Objects
    <3> QED
      BY <3>1, AddrSpaceAssumption DEF EntryPoint, Address
  <2>2. [type |-> "FUNCTION", named |-> TRUE] \in CodeLabels
    BY DEF LabelSet, LabelType, CodeLabels
  <2> QED
    BY <1>2, <2>1, <2>2 DEF add_eip_to_trace_queue
<1>3. CASE DecodeInstruction
  <2>1. PICK inst \in disassemble(trace.addr, trace.end - trace.addr) :
          follow_target(inst)
    BY <1>3 DEF DecodeInstruction
  <2>2. CASE HasTarget(inst)
    <3>1. labels' = set_label(labels, inst.target, TargetLabel(inst))
      BY <2>1, <2>2 DEF follow_target
    <3>2. inst.target \in Address
      BY <1>3, <2>1, DecodedInside
    <3> QED
      BY <1>1, <3>1, <3>2 DEF TargetLabel
  <2>3. CASE ~ HasTarget(inst)
    BY <2>1, <2>3 DEF follow_target
  <2> QED
    BY <2>2, <2>3
<1>4. CASE ScanEntry
  <2>1. read_le(ScanAddress) \in Address
    BY <1>4, ScanWithin DEF ScanEntry
  <2> QED
    BY <1>1, <1>4, <2>1 DEF ScanEntry
<1>5. CASE TraceReloc
  <2>1. FixupAddress(CurrentSite) \in Address
    BY <1>5, CurrentSiteFound DEF Inv, TraceReloc
  <2> QED
    BY <1>1, <1>5, <2>1 DEF TraceReloc
<1>6. \/ UNCHANGED labels
      \/ add_eip_to_trace_queue \/ DecodeInstruction \/ ScanEntry
      \/ TraceReloc \/ InsertVtable \/ LabelData
  BY DEF Next, vars, trace_code, trace_code_at_address, trace_vtables,
     trace_remaining_relocs, SkipQueued, StartTrace, EntryTraced, FixupTraced,
     RegionExhausted, InsertCode, SkipVtable, StartScan, NoVtable, VtableFound,
     VtablesDone, SkipReloc, RelocsDone
<1> QED
  BY <1>2, <1>3, <1>4, <1>5, <1>6

\* No step of a pass turns a function or jump label into another label.
LEMMA CodeLabelsStep ==
    ASSUME Inv, Next, NEW a, IsCodeLabel(a)
    PROVE  IsCodeLabel(a)'
<1>1. ASSUME UNCHANGED labels PROVE IsCodeLabel(a)'
  BY <1>1 DEF IsCodeLabel
<1>2. ASSUME NEW b \in Address, NEW label \in CodeLabels,
             labels' = set_label(labels, b, label)
      PROVE  IsCodeLabel(a)'
  BY <1>2, SetCodeLabel DEF Inv, CodeLabels
<1>3. CASE InsertVtable
  <2>1. PICK b : b = scan.address
    OBVIOUS
  <2>2. /\ labels' = set_label(labels, b, Label("VTABLE"))
        /\ pc = "insert_vtable" /\ b \in Address
    BY <1>3, <2>1 DEF InsertVtable, Inv, TypeOK
  <2>3. CASE a = b
    <3>1. HasKind(regions, b, "UNKNOWN")
      <4>1. FitsIn(regions, scan.reg, ScannedRegion)
            /\ ScannedRegion.address = b /\ b \in Nat
            /\ ScannedRegion.size \in Nat \ {0}
        BY <2>1, <2>2, ScannedFits
      <4>2. regions[scan.reg].type = "UNKNOWN"
        BY <2>2 DEF Inv, RegionHeld
      <4> QED
        BY <4>1, <4>2, FitsInEnds
           DEF FitsIn, HasKind, InRegion, Inv, RegionsPartition
    <3>2. b \in Range(code_trace_queue)
      BY <2>2, <2>3, <3>1, NoWaitingLabel DEF IsTracing
    <3>3. b \in DOMAIN labels /\ labels[b].type = "FUNCTION"
      BY <2>2, <2>3, <3>2 DEF Inv, WorklistLabelled, IsCodeLabel
    <3> QED
      BY <1>1, <2>2, <3>3 DEF set_label
  <2>4. CASE a # b
    <3>1. TypeOK /\ NamesAreFunctions /\ "VTABLE" \in {"DATA", "VTABLE"}
      BY DEF Inv
    <3> QED
      BY <2>2, <2>4, <3>1, SetOtherLabel
  <2> QED
    BY <2>3, <2>4
<1>4. CASE LabelData
  <2>1. PICK b : b = FixupAddress(CurrentSite)
    OBVIOUS
  <2>2. /\ labels' = set_label(labels, b, Label("DATA"))
        /\ pc = "next_fixup" /\ b \in Address
        /\ FixupRegion # NULL /\ regions[FixupRegion].type = "DATA"
    BY <1>4, <2>1, CurrentSiteFound DEF LabelData, Inv, FixupRegionHas
  <2>3. a # b
    <3>1. HasKind(regions, b, "DATA")
      BY <2>1, <2>2, LookupCorrect
         DEF FixupRegion, HasKind, Inv, RegionsPartition
    <3>2. code_trace_queue = <<>> /\ ~ IsTracing
      BY <2>2 DEF Inv, WorklistLabelled, IsTracing
    <3>3. ~ IsCodeLabel(b)
      BY <2>2, <3>1, <3>2, NoWaitingLabel DEF Range
    <3> QED
      BY <3>3
  <2>4. TypeOK /\ NamesAreFunctions /\ "DATA" \in {"DATA", "VTABLE"}
    BY DEF Inv
  <2> QED
    BY <2>2, <2>3, <2>4, SetOtherLabel
<1> QED
  BY <1>1, <1>2, <1>3, <1>4, LabelStep

\* No pass turns a function or jump label into a data or vtable label.
THEOREM CodeLabelsStay == Spec => CodeLabelsKept
<1>1. Inv /\ [Next]_vars
        => [\A a \in DOMAIN labels : IsCodeLabel(a) => IsCodeLabel(a)']_labels
  BY CodeLabelsStep DEF vars
<1> QED
  BY <1>1, InvHolds, PTL DEF CodeLabelsKept, Spec

-----------------------------------------------------------------------------
(* The region map implements the byte map. *)

LEMMA KindOfByte ==
    ASSUME RegionsPartition, NEW a \in Address
    PROVE  /\ a \in MappedBytes
                <=> \E t \in RegionType : HasKind(regions, a, t)
           /\ a \in MappedBytes =>
                KindOf(a) \in RegionType /\ HasKind(regions, a, KindOf(a))
           /\ \A t \in RegionType : HasKind(regions, a, t) => KindOf(a) = t
<1>1. WellFormed(regions) /\ a \in Int
  BY AddrSpaceAssumption DEF RegionsPartition, Address
<1>2. a \in MappedBytes <=> \E t \in RegionType : HasKind(regions, a, t)
  BY <1>1 DEF MappedBytes, IsMapped, HasKind, WellFormed, RegionSet
<1>3. ASSUME a \in MappedBytes
      PROVE  KindOf(a) \in RegionType /\ HasKind(regions, a, KindOf(a))
  BY <1>2, <1>3 DEF KindOf
<1>4. ASSUME NEW t \in RegionType, HasKind(regions, a, t)
      PROVE  KindOf(a) = t
  BY <1>1, <1>2, <1>3, <1>4, OneKind
<1> QED
  BY <1>2, <1>3, <1>4

\* An insertion that fits reclassifies the bytes of the new region, which had
\* the kind of the parent, and no others.
LEMMA InsertReclassifies ==
    ASSUME RegionsPartition, RegionsPartition',
           NEW parent, NEW reg, FitsIn(regions, parent, reg),
           regions' = insert_region(regions, parent, reg),
           NEW lo, lo = reg.address,
           NEW hi, hi = reg.address + reg.size - 1
    PROVE  /\ lo \in 0 .. AddrSpace - 1 /\ hi \in 0 .. AddrSpace - 1
           /\ Abstract!Uniform(lo, hi, regions[parent].type)
           /\ Abstract!Reclassify(lo, hi, reg.type)
<1>1. WellFormed(regions)
  BY DEF RegionsPartition
<1>2. /\ parent \in DOMAIN regions /\ parent \in Nat
      /\ regions[parent].address = parent /\ regions[parent].size \in Nat
      /\ parent + regions[parent].size < AddrSpace
      /\ regions[parent].type \in RegionType
      /\ reg.type \in RegionType
      /\ lo \in Nat /\ hi \in Nat /\ lo <= hi
      /\ parent <= lo /\ hi < parent + regions[parent].size
  BY <1>1, FitsInEnds DEF FitsIn, RegionSet
<1>3. lo \in Address /\ hi \in Address
  BY <1>2, AddrSpaceAssumption DEF Address
<1>4. \A a \in lo .. hi : a \in Address /\ HasKind(regions, a, regions[parent].type)
  BY <1>2, AddrSpaceAssumption DEF HasKind, InRegion, Address
<1>5. \A a \in lo .. hi : a \in MappedBytes /\ KindOf(a) = regions[parent].type
  BY <1>2, <1>4, KindOfByte
<1>6. Abstract!Uniform(lo, hi, regions[parent].type)
  BY <1>2, <1>5 DEF Abstract!Uniform, KindMap
<1>7. \A a \in Int, t \in RegionType :
        HasKind(regions', a, t) <=>
            IF a \in lo .. hi THEN t = reg.type ELSE HasKind(regions, a, t)
  <2>1. \A a \in Int : a \in lo .. hi <=> reg.address <= a /\ a < reg.address + reg.size
    BY <1>1, <1>2, FitsInEnds
  <2> QED
    BY <1>1, <2>1, InsertCorrect
<1>8. MappedBytes' = MappedBytes
  <2>1. \A a \in Address : IsMapped(regions', a) <=> IsMapped(regions, a)
    BY <1>1, InsertKeepsMapped, AddrSpaceAssumption DEF Address
  <2> QED
    BY <2>1 DEF MappedBytes
<1>9. ASSUME NEW a \in MappedBytes
      PROVE  KindOf(a)' = IF a \in lo .. hi THEN reg.type ELSE KindOf(a)
  <2>1. a \in Address /\ a \in Int
    BY AddrSpaceAssumption DEF MappedBytes, Address
  <2>2. \A t \in RegionType : HasKind(regions', a, t) => KindOf(a)' = t
    <3>1. WellFormed(regions')
      BY DEF RegionsPartition
    <3> QED
      BY <2>1, <3>1, OneKind DEF KindOf
  <2>3. CASE a \in lo .. hi
    BY <1>2, <1>7, <2>1, <2>2, <2>3
  <2>4. CASE a \notin lo .. hi
    BY <1>7, <2>1, <2>2, <2>4, KindOfByte
  <2> QED
    BY <2>3, <2>4
<1>10. KindMap' = [a \in MappedBytes |-> IF a \in lo .. hi THEN reg.type ELSE KindOf(a)]
  BY <1>8, <1>9 DEF KindMap
<1>11. /\ DOMAIN KindMap = MappedBytes
       /\ \A a \in MappedBytes : KindMap[a] = KindOf(a)
  BY DEF KindMap
<1>12. Abstract!Reclassify(lo, hi, reg.type)
  BY <1>10, <1>11 DEF Abstract!Reclassify
<1> QED
  BY <1>3, <1>6, <1>12 DEF Address

LEMMA AbstractInit == Init => Abstract!Init
<1> SUFFICES ASSUME Init PROVE Abstract!Init
  OBVIOUS
<1>1. IsExecutable(exe) /\ Inv
  BY InitInv, ExecutablesAssumption DEF Init
<1>2. \A k \in DOMAIN regions : regions[k].type \in {"UNKNOWN", "DATA"}
  BY <1>1, InitialPartition DEF Init
<1>3. \A a \in MappedBytes : KindOf(a) \in {"UNKNOWN", "DATA"}
  <2> SUFFICES ASSUME NEW a \in MappedBytes
               PROVE  KindOf(a) \in {"UNKNOWN", "DATA"}
    OBVIOUS
  <2>1. HasKind(regions, a, KindOf(a))
    BY <1>1, KindOfByte DEF MappedBytes, Inv
  <2> QED
    BY <1>2, <2>1 DEF HasKind
<1>4. /\ DOMAIN KindMap = MappedBytes
      /\ \A a \in MappedBytes : KindMap[a] = KindOf(a)
      /\ KindMap = [a \in DOMAIN KindMap |-> KindMap[a]]
  BY DEF KindMap
<1>5. MappedBytes \subseteq 0 .. AddrSpace - 1
  BY DEF MappedBytes, Address
<1> QED
  BY <1>3, <1>4, <1>5 DEF Abstract!Init

LEMMA AbstractStep == Inv /\ Inv' /\ [Next]_vars => [Abstract!Next]_KindMap
<1> SUFFICES ASSUME Inv, Inv', [Next]_vars PROVE [Abstract!Next]_KindMap
  OBVIOUS
<1>1. RegionsPartition /\ RegionsPartition'
  BY DEF Inv
<1>2. CASE InsertCode
  <2>1. FitsIn(regions, trace.reg, TracedRegion) /\ TracedRegion.type = "CODE"
    BY <1>2, TracedFits DEF InsertCode
  <2>2. regions[trace.reg].type \in RegionType \ {"CODE"}
    BY <1>2 DEF InsertCode, Inv, TypeOK, RegionHeld, IsTracing, RegionSet
  <2>3. PICK lo, hi \in 0 .. AddrSpace - 1 :
            /\ Abstract!Uniform(lo, hi, regions[trace.reg].type)
            /\ Abstract!Reclassify(lo, hi, "CODE")
    BY <1>1, <1>2, <2>1, InsertReclassifies DEF InsertCode
  <2>4. Abstract!FindCode(lo, hi)
    BY <2>2, <2>3 DEF Abstract!FindCode, Abstract!Kinds, RegionType
  <2> QED
    BY <2>4 DEF Abstract!Next
<1>3. CASE InsertVtable
  <2>1. FitsIn(regions, scan.reg, ScannedRegion) /\ ScannedRegion.type = "VTABLE"
    BY <1>3, ScannedFits DEF InsertVtable
  <2>2. regions[scan.reg].type = "UNKNOWN"
    BY <1>3 DEF InsertVtable, Inv, RegionHeld
  <2>3. PICK lo, hi \in 0 .. AddrSpace - 1 :
            /\ Abstract!Uniform(lo, hi, "UNKNOWN")
            /\ Abstract!Reclassify(lo, hi, "VTABLE")
    BY <1>1, <1>3, <2>1, <2>2, InsertReclassifies DEF InsertVtable
  <2>4. Abstract!FindVtable(lo, hi)
    BY <2>3 DEF Abstract!FindVtable
  <2> QED
    BY <2>4 DEF Abstract!Next
<1>4. CASE regions' = regions
  BY <1>4 DEF KindMap, MappedBytes, KindOf
<1>5. InsertCode \/ InsertVtable \/ regions' = regions
  BY DEF Next, vars, add_eip_to_trace_queue, trace_code, trace_code_at_address,
     trace_vtables, trace_remaining_relocs, SkipQueued, StartTrace, EntryTraced,
     FixupTraced, DecodeInstruction, RegionExhausted, SkipVtable, StartScan,
     ScanEntry, NoVtable, VtableFound, VtablesDone, SkipReloc, TraceReloc,
     LabelData, RelocsDone
<1> QED
  BY <1>2, <1>3, <1>4, <1>5

\* The passes do to the kinds of the bytes what the byte map allows: found
\* code is never taken back, a vtable is only made of unknown bytes, and no
\* other kind is ever given to a byte.
THEOREM Refinement == Spec => ImplementsByteMap
<1> QED
  BY InvHolds, AbstractInit, AbstractStep, PTL
  DEF Spec, ImplementsByteMap, Abstract!Spec

-----------------------------------------------------------------------------
(* What the analysis gives the printer: the regions are as large as they   *)
(* can be, what is read lies within an object, code is what was decoded,   *)
(* the targets of branches and of relocations have labels, a vtable has a  *)
(* label at its start and its words are relocated.                         *)

\* The regions are only changed by the two insertions, the history of decoded
\* instructions only by the decode loop; the executable never is.
LEMMA WhatChanges ==
    ASSUME [Next]_vars
    PROVE  /\ exe' = exe
           /\ regions' = regions \/ InsertCode \/ InsertVtable
           /\ traced' = traced \/ DecodeInstruction
BY DEF Next, vars, add_eip_to_trace_queue, trace_code, trace_code_at_address,
   trace_vtables, trace_remaining_relocs, SkipQueued, StartTrace, EntryTraced,
   FixupTraced, DecodeInstruction, RegionExhausted, InsertCode, SkipVtable,
   StartScan, ScanEntry, NoVtable, VtableFound, InsertVtable, VtablesDone,
   SkipReloc, TraceReloc, LabelData, RelocsDone

\* Each initial region is the region of one object, of the type the object
\* has it (analyser.cpp:37-58).
LEMMA InitialRegion ==
    ASSUME NEW e, IsExecutable(e), NEW k \in DOMAIN InitialRegions(e)
    PROVE  \E n \in DOMAIN e.objects :
                /\ k = e.objects[n].base
                /\ InitialRegions(e)[k]
                     = Region(k, e.objects[n].size, InitialType(e.objects[n]))
<1>1. PICK n \in DOMAIN e.objects : e.objects[n].base = k
  BY DEF InitialRegions, Bases
<1> DEFINE m == CHOOSE m \in DOMAIN e.objects : e.objects[m].base = k
<1>2. m \in DOMAIN e.objects /\ e.objects[m].base = k
  BY <1>1
<1>3. ObjectAt(e, k) = e.objects[m]
  BY DEF ObjectAt
<1>4. InitialRegions(e)[k]
        = Region(k, ObjectAt(e, k).size, InitialType(ObjectAt(e, k)))
  BY DEF InitialRegions
<1> HIDE DEF m
<1> QED
  BY <1>2, <1>3, <1>4

-----------------------------------------------------------------------------
(* The regions are maximal. *)

TouchingAtBases == \A x : TouchAt(regions, x) => x \in Bases(exe)

LEMMA MaximalInit == Init => TouchingAtBases
<1> SUFFICES ASSUME Init, NEW x \in DOMAIN regions PROVE x \in Bases(exe)
  BY DEF TouchingAtBases, TouchAt
<1> QED
  BY DEF Init, InitialRegions

\* What one insertion of a region that fits does to touching entries.
LEMMA MaximalInsert ==
    ASSUME RegionsPartition, TouchingAtBases, exe' = exe,
           NEW parent, NEW reg, FitsIn(regions, parent, reg),
           regions' = insert_region(regions, parent, reg)
    PROVE  TouchingAtBases'
<1>1. WellFormed(regions)
  BY DEF RegionsPartition
<1>2. \A x : TouchAt(regions', x) => TouchAt(regions, x)
  BY <1>1, InsertTouches
<1> QED
  BY <1>2 DEF TouchingAtBases, Bases

LEMMA MaximalStep == Inv /\ TouchingAtBases /\ [Next]_vars => TouchingAtBases'
<1> SUFFICES ASSUME Inv, TouchingAtBases, [Next]_vars PROVE TouchingAtBases'
  OBVIOUS
<1>1. exe' = exe /\ RegionsPartition
  BY WhatChanges DEF Inv
<1>2. CASE regions' = regions
  BY <1>1, <1>2 DEF TouchingAtBases, Bases
<1>3. CASE InsertCode
  BY <1>1, <1>3, TracedFits, MaximalInsert DEF InsertCode
<1>4. CASE InsertVtable
  BY <1>1, <1>4, ScannedFits, MaximalInsert DEF InsertVtable
<1> QED
  BY <1>2, <1>3, <1>4, WhatChanges

LEMMA MaximalMeans == TouchingAtBases => RegionsMaximal
BY DEF TouchingAtBases, TouchAt, joinable, RegionsMaximal

\* check_merge_regions leaves no two regions of one type that touch, except
\* at the start of an object (analyser.cpp:254-278).
THEOREM MaximalRegions == Spec => []RegionsMaximal
<1> QED
  BY InvHolds, MaximalInit, MaximalStep, MaximalMeans, PTL DEF Spec

-----------------------------------------------------------------------------
(* What is read lies within an object. *)

\* What is left of the initial regions stays within the objects; the code and
\* the vtables of objects that touch may be joined.
FreeWithinObjects ==
    \A k \in DOMAIN regions :
        regions[k].type \in {"UNKNOWN", "DATA"} =>
            WithinObject(k, k + regions[k].size)

LEMMA FreeInit == Init => FreeWithinObjects
<1> SUFFICES ASSUME Init, NEW k \in DOMAIN regions
             PROVE  WithinObject(k, k + regions[k].size)
  BY DEF FreeWithinObjects
<1>1. IsExecutable(exe) /\ TypeOK
  BY InitInv, ExecutablesAssumption DEF Init, Inv
<1>2. PICK n \in Objects :
        /\ k = exe.objects[n].base
        /\ regions[k] = Region(k, exe.objects[n].size, InitialType(exe.objects[n]))
  BY <1>1, InitialRegion DEF Init, Objects
<1>3. regions[k].size = exe.objects[n].size
  BY <1>2 DEF Region
<1>4. exe.objects[n].base \in Int /\ exe.objects[n].size \in Int
  BY <1>1, ExecutableFacts, AddrSpaceAssumption DEF Address
<1> QED
  BY <1>2, <1>3, <1>4 DEF WithinObject

\* What lies within an interval that lies within an object.
LEMMA WithinPart ==
    ASSUME TypeOK, NEW j \in Int, NEW e \in Int, WithinObject(j, e),
           NEW first \in Int, NEW end \in Int, j <= first, end <= e
    PROVE  WithinObject(first, end)
<1>1. PICK n \in Objects :
        /\ exe.objects[n].base <= j
        /\ e <= exe.objects[n].base + exe.objects[n].size
  BY DEF WithinObject
<1>2. exe.objects[n].base \in Int /\ exe.objects[n].size \in Int
  BY ExecutableFacts, AddrSpaceAssumption DEF Address
<1> QED
  BY <1>1, <1>2 DEF WithinObject

LEMMA FreeInsert ==
    ASSUME Inv, FreeWithinObjects, exe' = exe,
           NEW parent, NEW reg, FitsIn(regions, parent, reg),
           reg.type \in {"CODE", "VTABLE"},
           regions' = insert_region(regions, parent, reg)
    PROVE  FreeWithinObjects'
<1>1. WellFormed(regions) /\ TypeOK
  BY DEF Inv, RegionsPartition
<1>2. WellFormed(regions')
  BY <1>1, InsertCorrect
<1> SUFFICES ASSUME NEW k \in DOMAIN regions',
                    regions'[k].type \in {"UNKNOWN", "DATA"}
             PROVE  WithinObject(k, k + regions'[k].size)
  BY DEF FreeWithinObjects, WithinObject, Objects
<1>3. PICK j \in DOMAIN regions :
        /\ regions[j].type = regions'[k].type
        /\ j <= k
        /\ k + regions'[k].size <= j + regions[j].size
  BY <1>1, InsertWithin
<1>4. WithinObject(j, j + regions[j].size)
  BY <1>3 DEF FreeWithinObjects
<1>5. /\ j \in Int /\ regions[j].size \in Int
      /\ k \in Int /\ regions'[k].size \in Int
  BY <1>1, <1>2, EndAddress
<1> QED
  BY <1>1, <1>3, <1>4, <1>5, WithinPart

LEMMA FreeStep == Inv /\ FreeWithinObjects /\ [Next]_vars => FreeWithinObjects'
<1> SUFFICES ASSUME Inv, FreeWithinObjects, [Next]_vars PROVE FreeWithinObjects'
  OBVIOUS
<1>1. exe' = exe
  BY WhatChanges
<1>2. CASE regions' = regions
  BY <1>1, <1>2 DEF FreeWithinObjects, WithinObject, Objects
<1>3. CASE InsertCode
  BY <1>1, <1>3, TracedFits, FreeInsert DEF InsertCode
<1>4. CASE InsertVtable
  BY <1>1, <1>4, ScannedFits, FreeInsert DEF InsertVtable
<1> QED
  BY <1>2, <1>3, <1>4, WhatChanges

\* A trace that does not start in a vtable and every scan for a vtable stay
\* within one object, also where objects touch: the decoder and the scan are
\* given the data of the object and the end of the region (analyser.cpp:126-135,
\* 319-326).
THEOREM ReadsInside == Spec => []ReadsWithinObject
<1>1. Inv /\ FreeWithinObjects => ReadsWithinObject
  <2> SUFFICES ASSUME Inv, FreeWithinObjects PROVE ReadsWithinObject
    OBVIOUS
  <2>1. TypeOK /\ RegionHeld /\ WellFormed(regions)
    BY DEF Inv, RegionsPartition
  <2>2. \A k \in DOMAIN regions :
          k \in Nat /\ regions[k].size \in Nat /\ regions[k].type \in RegionType
    BY <2>1, EndAddress DEF WellFormed, RegionSet
  <2>3. ASSUME IsTracing, regions[trace.reg].type # "VTABLE"
        PROVE  WithinObject(trace.start, trace.end)
    <3>1. /\ trace.reg \in DOMAIN regions
          /\ regions[trace.reg].type \in {"UNKNOWN", "DATA"}
          /\ trace.end = trace.reg + regions[trace.reg].size
          /\ trace.start \in trace.reg .. trace.end - 1
      BY <2>1, <2>2, <2>3 DEF RegionHeld, RegionType
    <3>2. WithinObject(trace.reg, trace.end)
      BY <3>1 DEF FreeWithinObjects
    <3>3. /\ trace.reg \in Int /\ trace.end \in Int /\ trace.start \in Int
          /\ trace.reg <= trace.start
      BY <2>2, <3>1
    <3> QED
      BY <2>1, <3>2, <3>3, WithinPart
  <2>4. ASSUME pc \in {"scan", "insert_vtable"}
        PROVE  WithinObject(scan.reg, scan.address + scan.size)
    <3> DEFINE last == scan.reg + regions[scan.reg].size
    <3>1. /\ scan.reg \in DOMAIN regions
          /\ regions[scan.reg].type = "UNKNOWN"
          /\ scan.address \in scan.reg .. scan.reg + regions[scan.reg].size - 1
          /\ scan.size \in 1 .. scan.reg + regions[scan.reg].size - scan.address
      BY <2>1, <2>4 DEF RegionHeld
    <3>2. WithinObject(scan.reg, last)
      BY <3>1 DEF FreeWithinObjects
    <3>3. /\ scan.reg \in Int /\ last \in Int
          /\ scan.address + scan.size \in Int
          /\ scan.address + scan.size <= last
      BY <2>2, <3>1
    <3> HIDE DEF last
    <3> QED
      BY <2>1, <3>2, <3>3, WithinPart
  <2> QED
    BY <2>3, <2>4 DEF ReadsWithinObject
<1> QED
  BY <1>1, InvHolds, FreeInit, FreeStep, PTL DEF Spec

-----------------------------------------------------------------------------
(* The targets of the decoded branches. *)

LEMMA TargetsStep == Inv /\ TargetsLabelled /\ [Next]_vars => TargetsLabelled'
<1> SUFFICES ASSUME Inv, TargetsLabelled, [Next]_vars PROVE TargetsLabelled'
  OBVIOUS
<1>1. \A a : IsCodeLabel(a) => IsCodeLabel(a)'
  BY CodeLabelsStep DEF vars, IsCodeLabel
<1>2. CASE traced' = traced
  BY <1>1, <1>2 DEF TargetsLabelled
<1>3. CASE DecodeInstruction
  <2>1. PICK inst \in disassemble(trace.addr, trace.end - trace.addr) :
          /\ follow_target(inst)
          /\ traced' = [a \in DOMAIN traced \cup {trace.addr} |->
                          IF a = trace.addr THEN inst ELSE traced[a]]
    BY <1>3 DEF DecodeInstruction
  <2>2. HasTarget(inst) => IsCodeLabel(inst.target)'
    <3> SUFFICES ASSUME HasTarget(inst) PROVE IsCodeLabel(inst.target)'
      OBVIOUS
    <3>1. labels' = set_label(labels, inst.target, TargetLabel(inst))
      BY <2>1 DEF follow_target
    <3>2. /\ TargetLabel(inst) \in LabelSet
          /\ TargetLabel(inst).type \in {"FUNCTION", "JUMP"}
          /\ ~ TargetLabel(inst).named
      BY DEF TargetLabel, Label, LabelSet, LabelType
    <3>3. inst.target \in Address
      BY <1>3, DecodedInside
    <3>4. TypeOK /\ NamesAreFunctions
      BY DEF Inv
    <3> QED
      BY <3>1, <3>2, <3>3, <3>4, SetCodeLabel
  <2> QED
    BY <1>1, <2>1, <2>2 DEF TargetsLabelled
<1> QED
  BY <1>2, <1>3, WhatChanges

\* Every branch decoded so far has a function or jump label at its target
\* (analyser.cpp:135-154), whatever label the target had and gets later.
THEOREM BranchesLabelled == Spec => []TargetsLabelled
<1>1. Init => TargetsLabelled
  BY DEF Init, TargetsLabelled
<1> QED
  BY <1>1, InvHolds, TargetsStep, PTL DEF Spec

-----------------------------------------------------------------------------
(* The unknown bytes are executable. *)

\* An address belongs to one object.
LEMMA ObjectOf ==
    ASSUME TypeOK, NEW a, NEW n \in Objects, a \in ObjectBytes(exe.objects[n])
    PROVE  get_object_at_address(a) = n
<1> DEFINE Base(i) == exe.objects[i].base
           End(i) == exe.objects[i].base + exe.objects[i].size
<1>1. \A i \in Objects :
        Base(i) \in Int /\ exe.objects[i].size \in Int /\ End(i) \in Int
  BY ExecutableFacts, AddrSpaceAssumption DEF Address
<1>2. \A i \in Objects : a \in ObjectBytes(exe.objects[i]) =>
        a \in Int /\ Base(i) <= a /\ a < End(i)
  <2> SUFFICES ASSUME NEW i \in Objects, a \in ObjectBytes(exe.objects[i])
               PROVE  a \in Int /\ Base(i) <= a /\ a < End(i)
    OBVIOUS
  <2> QED
    BY <1>1 DEF ObjectBytes
<1>3. \A i \in Objects : a \in ObjectBytes(exe.objects[i]) => i = n
  <2> SUFFICES ASSUME NEW i \in Objects, a \in ObjectBytes(exe.objects[i]), i # n
               PROVE  FALSE
    OBVIOUS
  <2>1. End(i) <= Base(n) \/ End(n) <= Base(i)
    BY ExecutableFacts DEF IsExecutable, Objects
  <2> QED
    BY <1>1, <1>2, <2>1
<1> QED
  BY <1>3 DEF get_object_at_address

ObjectIsExecutable(a) == exe.objects[get_object_at_address(a)].exec

UnknownIsExecutable ==
    \A a \in Address :
        HasKind(regions, a, "UNKNOWN") \/ HasKind(regions, a, "VTABLE")
            => ObjectIsExecutable(a)

LEMMA UnknownInit == Init => UnknownIsExecutable
<1> SUFFICES ASSUME Init, NEW a \in Address,
                    HasKind(regions, a, "UNKNOWN") \/ HasKind(regions, a, "VTABLE")
             PROVE  ObjectIsExecutable(a)
  BY DEF UnknownIsExecutable
<1>1. IsExecutable(exe) /\ TypeOK
  BY InitInv, ExecutablesAssumption DEF Init, Inv
<1>2. PICK k \in DOMAIN regions :
        InRegion(regions, k, a) /\ regions[k].type \in {"UNKNOWN", "VTABLE"}
  BY DEF HasKind
<1>3. PICK n \in Objects :
        /\ k = exe.objects[n].base
        /\ regions[k] = Region(k, exe.objects[n].size, InitialType(exe.objects[n]))
  BY <1>1, InitialRegion DEF Init, Objects
<1>4. exe.objects[n].exec
  BY <1>2, <1>3 DEF Region, InitialType
<1>5. /\ exe.objects[n].base \in Int /\ exe.objects[n].size \in Int /\ a \in Int
      /\ exe.objects[n].base <= a
      /\ a < exe.objects[n].base + exe.objects[n].size
  BY <1>1, <1>2, <1>3, ExecutableFacts, AddrSpaceAssumption
     DEF InRegion, Region, Address
<1>6. a \in ObjectBytes(exe.objects[n])
  BY <1>5 DEF ObjectBytes
<1> QED
  BY <1>1, <1>4, <1>6, ObjectOf DEF ObjectIsExecutable

LEMMA UnknownStep == Inv /\ UnknownIsExecutable /\ [Next]_vars => UnknownIsExecutable'
<1> SUFFICES ASSUME Inv, UnknownIsExecutable, [Next]_vars
             PROVE  UnknownIsExecutable'
  OBVIOUS
<1>0. \A a : ObjectIsExecutable(a)' = ObjectIsExecutable(a)
  BY WhatChanges, ImageUnchanged DEF ObjectIsExecutable
<1> SUFFICES ASSUME NEW a \in Address,
                    HasKind(regions', a, "UNKNOWN") \/ HasKind(regions', a, "VTABLE")
             PROVE  ObjectIsExecutable(a)
  BY <1>0 DEF UnknownIsExecutable
<1>1. a \in Int
  BY AddrSpaceAssumption DEF Address
<1>2. ASSUME NEW type \in {"UNKNOWN", "VTABLE"}, HasKind(regions, a, type)
      PROVE  ObjectIsExecutable(a)
  BY <1>2 DEF UnknownIsExecutable
<1>3. CASE regions' = regions
  BY <1>2, <1>3
<1>4. CASE InsertCode
  <2>1. \A t \in RegionType :
            HasKind(regions', a, t) /\ t # "CODE" => HasKind(regions, a, t)
    BY <1>1, <1>4, TracedFits, InsertCorrect DEF InsertCode, Inv, RegionsPartition
  <2> QED
    BY <1>2, <2>1 DEF RegionType
<1>5. CASE InsertVtable
  <2>1. /\ FitsIn(regions, scan.reg, ScannedRegion)
        /\ ScannedRegion.type = "VTABLE"
        /\ regions[scan.reg].type = "UNKNOWN"
        /\ WellFormed(regions)
    BY <1>5, ScannedFits DEF InsertVtable, Inv, RegionHeld, RegionsPartition
  <2> DEFINE within == /\ ScannedRegion.address <= a
                       /\ a < ScannedRegion.address + ScannedRegion.size
  <2>2. CASE within
    <3>1. HasKind(regions, a, "UNKNOWN")
      BY <1>1, <2>1, <2>2, FitsInEnds DEF FitsIn, HasKind, InRegion
    <3> QED
      BY <1>2, <3>1
  <2>3. CASE ~ within
    <3>1. \A t \in RegionType : HasKind(regions', a, t) => HasKind(regions, a, t)
      BY <1>1, <1>5, <2>1, <2>3, InsertCorrect DEF InsertVtable
    <3> QED
      BY <1>2, <3>1 DEF RegionType
  <2> QED
    BY <2>2, <2>3
<1> QED
  BY <1>3, <1>4, <1>5, WhatChanges

\* A region of vtables or of unknown bytes starts in an executable object:
\* what is data by its object only ever becomes code (add_initial_regions,
\* trace_vtables).
THEOREM DataStaysData == Spec => []DataObjectsStayData
<1>1. Inv /\ UnknownIsExecutable => DataObjectsStayData
  <2> SUFFICES ASSUME Inv, UnknownIsExecutable, NEW k \in DOMAIN regions,
                      regions[k].type \in {"UNKNOWN", "VTABLE"}
               PROVE  ObjectIsExecutable(k)
    BY DEF DataObjectsStayData, ObjectIsExecutable
  <2>1. k \in Address /\ HasKind(regions, k, regions[k].type)
    BY EndAddress DEF Inv, RegionsPartition, WellFormed, HasKind, InRegion
  <2> QED
    BY <2>1 DEF UnknownIsExecutable
<1> QED
  BY <1>1, InvHolds, UnknownInit, UnknownStep, PTL DEF Spec

-----------------------------------------------------------------------------
(* Code is what was decoded. *)

\* A decoded instruction holds the byte.
IsDecoded(a) == \E i \in DOMAIN traced : i <= a /\ a < i + traced[i].size

TracedApart ==
    \A i, j \in DOMAIN traced : i < j => i + traced[i].size <= j

TracedIsCode ==
    \A a \in Address :
        IsDecoded(a) <=> HasKind(regions, a, "CODE") \/ BeingTraced(a)

CodeInv == TracedApart /\ TracedIsCode

LEMMA CodeInit == Init => CodeInv
<1> SUFFICES ASSUME Init PROVE CodeInv
  OBVIOUS
<1>1. traced = <<>> /\ DOMAIN traced = {} /\ ~ IsTracing
  BY DEF Init, IsTracing
<1>2. \A a : ~ HasKind(regions, a, "CODE")
  <2>1. \A k \in DOMAIN regions : regions[k].type \in {"UNKNOWN", "DATA"}
    BY InitialPartition, ExecutablesAssumption DEF Init
  <2> QED
    BY <2>1 DEF HasKind
<1> QED
  BY <1>1, <1>2 DEF CodeInv, TracedApart, TracedIsCode, IsDecoded, BeingTraced

\* A step that decodes nothing and keeps the trace in progress.
LEMMA CodeQuiet ==
    ASSUME CodeInv, UNCHANGED <<regions, traced>>,
           \A a \in Address : BeingTraced(a)' <=> BeingTraced(a)
    PROVE  CodeInv'
BY DEF CodeInv, TracedApart, TracedIsCode, IsDecoded

\* The bytes ahead of the trace were never decoded: their region is not code.
LEMMA AheadNotDecoded ==
    ASSUME Inv, CodeInv, IsTracing,
           NEW a \in Nat, trace.addr <= a, a < trace.end
    PROVE  ~ IsDecoded(a)
<1>1. /\ trace.reg \in DOMAIN regions
      /\ regions[trace.reg].type # "CODE"
      /\ trace.end = trace.reg + regions[trace.reg].size
      /\ trace.start \in trace.reg .. trace.end - 1
      /\ trace.addr \in trace.start .. trace.end
  BY DEF Inv, RegionHeld
<1>2. /\ WellFormed(regions)
      /\ trace.reg \in Nat /\ regions[trace.reg].address = trace.reg
      /\ regions[trace.reg].size \in Nat /\ trace.end < AddrSpace
  BY <1>1, EndAddress DEF Inv, RegionsPartition, WellFormed
<1>3. trace.start \in Nat /\ trace.addr \in Nat /\ trace.end \in Nat
  BY AddrSpaceAssumption DEF Inv, TypeOK, Address
<1>4. a \in Address
  BY <1>2, <1>3, AddrSpaceAssumption DEF Address
<1>5. InRegion(regions, trace.reg, a)
  BY <1>1, <1>2, <1>3 DEF InRegion
<1>6. HasKind(regions, a, regions[trace.reg].type)
  BY <1>1, <1>5 DEF HasKind
<1>7. ~ HasKind(regions, a, "CODE")
  BY <1>1, <1>2, <1>6, OneKind
<1>8. ~ BeingTraced(a)
  BY <1>3 DEF BeingTraced
<1> QED
  BY <1>4, <1>7, <1>8 DEF CodeInv, TracedIsCode

LEMMA CodeDecode == Inv /\ CodeInv /\ DecodeInstruction => CodeInv'
<1> SUFFICES ASSUME Inv, CodeInv, DecodeInstruction PROVE CodeInv'
  OBVIOUS
<1>1. PICK addr : addr = trace.addr
  OBVIOUS
<1>2. PICK inst \in disassemble(trace.addr, trace.end - trace.addr) :
        /\ trace' = [trace EXCEPT !.addr = @ + inst.size]
        /\ traced' = [a \in DOMAIN traced \cup {addr} |->
                        IF a = addr THEN inst ELSE traced[a]]
        /\ pc' \in {"decode", "insert_code"}
        /\ UNCHANGED regions
  BY <1>1 DEF DecodeInstruction
<1>3. /\ addr \in Address /\ addr \in Nat
      /\ inst \in InstructionSet
      /\ inst.size \in Nat \ {0}
      /\ addr + inst.size <= trace.end
      /\ trace.end \in Nat /\ trace.start \in Nat /\ trace.start <= addr
  <2>1. /\ trace.addr \in Address
        /\ inst \in InstructionSet
        /\ inst.size \in 1 .. trace.end - trace.addr
    BY DecodedInside
  <2>2. trace.start \in Address /\ trace.end \in Nat /\ trace.addr \in Nat
    BY DEF Inv, TypeOK
  <2>3. trace.addr \in trace.start .. trace.end
    BY DEF DecodeInstruction, Inv, RegionHeld, IsTracing
  <2> QED
    BY <1>1, <2>1, <2>2, <2>3, AddrSpaceAssumption DEF Address
<1>4. /\ IsTracing /\ IsTracing'
      /\ trace'.start = trace.start /\ trace'.addr = addr + inst.size
  BY <1>1, <1>2, <1>3 DEF DecodeInstruction, IsTracing, Inv, TypeOK
<1>5. \A i \in DOMAIN traced : i \in Nat /\ traced[i].size \in Nat \ {0}
  BY AddrSpaceAssumption DEF Inv, TypeOK, InstructionSet, Address
<1>6. \A a \in Nat : addr <= a /\ a < addr + inst.size => ~ IsDecoded(a)
  BY <1>1, <1>3, <1>4, AheadNotDecoded
<1>7. /\ addr \notin DOMAIN traced
      /\ DOMAIN traced' = DOMAIN traced \cup {addr}
      /\ traced'[addr] = inst
      /\ \A i \in DOMAIN traced : traced'[i] = traced[i]
  <2>1. addr \notin DOMAIN traced
    BY <1>3, <1>5, <1>6 DEF IsDecoded
  <2> QED
    BY <1>2, <2>1
\* No instruction decoded before reaches into this one, or starts in it.
<1>8. \A i \in DOMAIN traced :
        /\ i < addr => i + traced[i].size <= addr
        /\ addr < i => addr + inst.size <= i
  <2> SUFFICES ASSUME NEW i \in DOMAIN traced
               PROVE  /\ i < addr => i + traced[i].size <= addr
                      /\ addr < i => addr + inst.size <= i
    OBVIOUS
  <2>1. i \in Nat /\ traced[i].size \in Nat \ {0}
    BY <1>5
  <2>2. ~ IsDecoded(addr)
    BY <1>3, <1>6
  <2>3. addr < i /\ i < addr + inst.size => ~ IsDecoded(i)
    BY <1>3, <1>6, <2>1
  <2>4. IsDecoded(i)
    BY <2>1 DEF IsDecoded
  <2> QED
    BY <1>3, <2>1, <2>2, <2>3, <2>4 DEF IsDecoded
<1>9. TracedApart'
  <2> SUFFICES ASSUME NEW i \in DOMAIN traced', NEW j \in DOMAIN traced', i < j
               PROVE  i + traced'[i].size <= j
    BY DEF TracedApart
  <2>1. CASE i \in DOMAIN traced /\ j \in DOMAIN traced
    BY <1>7, <2>1 DEF CodeInv, TracedApart
  <2>2. CASE i = addr /\ j \in DOMAIN traced
    BY <1>7, <1>8, <2>2
  <2>3. CASE i \in DOMAIN traced /\ j = addr
    BY <1>7, <1>8, <2>3
  <2>4. ~ (i = addr /\ j = addr)
    BY <1>3
  <2> QED
    BY <1>7, <2>1, <2>2, <2>3, <2>4
<1>10. ASSUME NEW a \in Address
       PROVE  IsDecoded(a)' <=> HasKind(regions', a, "CODE") \/ BeingTraced(a)'
  <2>1. a \in Nat
    BY AddrSpaceAssumption DEF Address
  <2>2. IsDecoded(a)' <=> IsDecoded(a) \/ (addr <= a /\ a < addr + inst.size)
    BY <1>7 DEF IsDecoded
  <2>3. BeingTraced(a)' <=> BeingTraced(a) \/ (addr <= a /\ a < addr + inst.size)
    BY <1>1, <1>3, <1>4, <2>1 DEF BeingTraced
  <2>4. IsDecoded(a) <=> HasKind(regions, a, "CODE") \/ BeingTraced(a)
    BY DEF CodeInv, TracedIsCode
  <2> QED
    BY <1>2, <2>2, <2>3, <2>4
<1> QED
  BY <1>9, <1>10 DEF CodeInv, TracedIsCode

LEMMA CodeInsertCode == Inv /\ CodeInv /\ InsertCode => CodeInv'
<1> SUFFICES ASSUME Inv, CodeInv, InsertCode PROVE CodeInv'
  OBVIOUS
<1>1. /\ pc = "insert_code" /\ pc' = "trace_code"
      /\ traced' = traced
      /\ regions' = insert_region(regions, trace.reg, TracedRegion)
  BY DEF InsertCode
<1>2. IsTracing /\ ~ IsTracing'
  BY <1>1 DEF IsTracing
<1>3. /\ FitsIn(regions, trace.reg, TracedRegion)
      /\ TracedRegion.address = trace.start
      /\ TracedRegion.type = "CODE"
      /\ TracedRegion.address + TracedRegion.size = trace.addr
  BY <1>1, TracedFits
<1>4. ASSUME NEW a \in Address
      PROVE  IsDecoded(a)' <=> HasKind(regions', a, "CODE") \/ BeingTraced(a)'
  <2>1. a \in Int /\ "CODE" \in RegionType
    BY AddrSpaceAssumption DEF Address, RegionType
  <2>2. HasKind(regions', a, "CODE") <=>
            IF trace.start <= a /\ a < trace.addr
            THEN TRUE ELSE HasKind(regions, a, "CODE")
    BY <1>1, <1>3, <2>1, InsertCorrect DEF Inv, RegionsPartition
  <2>3. BeingTraced(a) <=> trace.start <= a /\ a < trace.addr
    BY <1>2 DEF BeingTraced
  <2>4. IsDecoded(a) <=> HasKind(regions, a, "CODE") \/ BeingTraced(a)
    BY DEF CodeInv, TracedIsCode
  <2>5. IsDecoded(a)' <=> IsDecoded(a)
    BY <1>1 DEF IsDecoded
  <2> QED
    BY <1>2, <2>2, <2>3, <2>4, <2>5 DEF BeingTraced
<1>5. TracedApart'
  BY <1>1 DEF CodeInv, TracedApart
<1> QED
  BY <1>4, <1>5 DEF CodeInv, TracedIsCode

LEMMA CodeInsertVtable == Inv /\ CodeInv /\ InsertVtable => CodeInv'
<1> SUFFICES ASSUME Inv, CodeInv, InsertVtable PROVE CodeInv'
  OBVIOUS
<1>1. /\ pc = "insert_vtable" /\ pc' = "trace_code"
      /\ traced' = traced
      /\ regions' = insert_region(regions, scan.reg, ScannedRegion)
  BY DEF InsertVtable
<1>2. ~ IsTracing /\ ~ IsTracing'
  BY <1>1 DEF IsTracing
<1>3. /\ FitsIn(regions, scan.reg, ScannedRegion)
      /\ ScannedRegion.type = "VTABLE"
      /\ regions[scan.reg].type = "UNKNOWN"
      /\ WellFormed(regions)
  BY <1>1, ScannedFits DEF Inv, RegionHeld, RegionsPartition
<1>4. ASSUME NEW a \in Address
      PROVE  HasKind(regions', a, "CODE") <=> HasKind(regions, a, "CODE")
  <2>1. a \in Int /\ "CODE" \in RegionType
    BY AddrSpaceAssumption DEF Address, RegionType
  <2> DEFINE within == /\ ScannedRegion.address <= a
                       /\ a < ScannedRegion.address + ScannedRegion.size
  <2>2. HasKind(regions', a, "CODE") <=>
            IF within THEN FALSE ELSE HasKind(regions, a, "CODE")
    BY <1>1, <1>3, <2>1, InsertCorrect
  <2>3. within => HasKind(regions, a, "UNKNOWN")
    BY <1>3, <2>1, FitsInEnds DEF FitsIn, HasKind, InRegion
  <2>4. within => ~ HasKind(regions, a, "CODE")
    BY <1>3, <2>1, <2>3, OneKind
  <2> QED
    BY <2>2, <2>4
<1> QED
  BY <1>1, <1>2, <1>4
     DEF CodeInv, TracedApart, TracedIsCode, IsDecoded, BeingTraced

LEMMA CodeStep == Inv /\ CodeInv /\ [Next]_vars => CodeInv'
<1> SUFFICES ASSUME Inv, CodeInv, [Next]_vars PROVE CodeInv'
  OBVIOUS
<1>1. CASE DecodeInstruction
  BY <1>1, CodeDecode
<1>2. CASE InsertCode
  BY <1>2, CodeInsertCode
<1>3. CASE InsertVtable
  BY <1>3, CodeInsertVtable
<1>4. CASE StartTrace
  <2>1. /\ UNCHANGED <<regions, traced>>
        /\ pc = "trace_code" /\ pc' = "decode"
        /\ trace'.start = Queued /\ trace'.addr = Queued
        /\ Queued \in Address
    BY <1>4, QueueHead DEF StartTrace
  <2>2. \A a \in Address : ~ BeingTraced(a) /\ ~ BeingTraced(a)'
    BY <2>1, AddrSpaceAssumption DEF BeingTraced, IsTracing, Address
  <2> QED
    BY <2>1, <2>2, CodeQuiet
<1>5. CASE ~ (DecodeInstruction \/ InsertCode \/ InsertVtable \/ StartTrace)
  <2>1. UNCHANGED <<regions, traced>>
    BY <1>5, WhatChanges
  <2>2. trace' = trace /\ (IsTracing' <=> IsTracing)
    BY <1>5 DEF Next, vars, add_eip_to_trace_queue, trace_code,
       trace_code_at_address, trace_vtables, trace_remaining_relocs, SkipQueued,
       EntryTraced, FixupTraced, RegionExhausted, SkipVtable, StartScan,
       ScanEntry, NoVtable, VtableFound, VtablesDone, SkipReloc, TraceReloc,
       LabelData, RelocsDone, IsTracing
  <2> QED
    BY <2>1, <2>2, CodeQuiet DEF BeingTraced
<1> QED
  BY <1>1, <1>2, <1>3, <1>4, <1>5

LEMMA CodeMeans == Inv /\ CodeInv => CodeIsTraced
<1> SUFFICES ASSUME Inv, CodeInv, NEW a \in Address,
                    NEW holders,
                    holders = {i \in DOMAIN traced : i <= a /\ a < i + traced[i].size}
             PROVE  /\ Cardinality(holders) <= 1
                    /\ holders # {} <=> HasKind(regions, a, "CODE") \/ BeingTraced(a)
  BY DEF CodeIsTraced
<1>1. a \in Nat /\ \A i \in DOMAIN traced : i \in Nat /\ traced[i].size \in Nat
  BY AddrSpaceAssumption DEF Inv, TypeOK, InstructionSet, Address
<1>2. \A i, j \in holders : i = j
  <2> SUFFICES ASSUME NEW i \in holders, NEW j \in holders, i < j PROVE FALSE
    BY <1>1
  <2> QED
    BY <1>1 DEF CodeInv, TracedApart
<1>3. Cardinality(holders) <= 1
  <2>1. CASE holders = {}
    <3>1. Cardinality(holders) = 0
      BY <2>1, FS_EmptySet, Zenon
    <3> QED
      BY <3>1
  <2>2. CASE holders # {}
    <3>1. PICK i : holders = {i}
      BY <1>2, <2>2
    <3> QED
      BY <3>1, FS_Singleton
  <2> QED
    BY <2>1, <2>2
<1> QED
  BY <1>3 DEF CodeInv, TracedIsCode, IsDecoded

\* The code regions are the bytes of the decoded instructions, and no byte
\* belongs to two of them: the decode loop never runs into code found before,
\* as its region ends there (analyser.cpp:105-173).
THEOREM CodeDecodedOnce == Spec => []CodeIsTraced
<1> QED
  BY InvHolds, CodeInit, CodeStep, CodeMeans, PTL DEF Spec

-----------------------------------------------------------------------------
(* Every relocation is dealt with. *)

Classified(s) ==
    /\ ~ HasKind(regions, FixupAddress(s), "UNKNOWN")
    /\ HasKind(regions, FixupAddress(s), "DATA") => FixupAddress(s) \in DOMAIN labels

\* The fixups the last pass has been through are classified, and the target
\* of the one it is tracing has a code label.
RelocsHandled ==
    /\ phase \in {"relocs", "done"} => \A s \in FixupSites \ sites : Classified(s)
    /\ phase = "done" => sites = {}
    /\ phase = "relocs" /\ pc # "next_fixup" =>
        sites # {} /\ IsCodeLabel(FixupAddress(CurrentSite))

\* No label is ever dropped by the passes.
LEMMA LabelsGrow ==
    ASSUME Next PROVE DOMAIN labels \subseteq DOMAIN labels'
<1>1. ASSUME NEW a, NEW label, labels' = set_label(labels, a, label)
      PROVE  DOMAIN labels \subseteq DOMAIN labels'
  BY <1>1 DEF set_label
<1>2. ASSUME NEW inst, follow_target(inst)
      PROVE  DOMAIN labels \subseteq DOMAIN labels'
  BY <1>1, <1>2 DEF follow_target
<1>3. CASE DecodeInstruction
  BY <1>2, <1>3 DEF DecodeInstruction
<1>4. \/ UNCHANGED labels
      \/ \E a, label : labels' = set_label(labels, a, label)
      \/ DecodeInstruction
  BY DEF Next, add_eip_to_trace_queue, trace_code, trace_code_at_address,
     trace_vtables, trace_remaining_relocs, SkipQueued, StartTrace, EntryTraced,
     FixupTraced, RegionExhausted, InsertCode, SkipVtable, StartScan, ScanEntry,
     NoVtable, VtableFound, InsertVtable, VtablesDone, SkipReloc, TraceReloc,
     LabelData, RelocsDone
<1> QED
  BY <1>1, <1>3, <1>4

\* What is classified stays so: the insertions of the last pass are of code,
\* and no label is dropped.
LEMMA ClassifiedStays ==
    ASSUME Inv, Next, phase = "relocs", NEW s \in FixupSites, Classified(s)
    PROVE  Classified(s)'
<1>1. FixupAddress(s)' = FixupAddress(s)
  BY WhatChanges, ImageUnchanged
<1>2. FixupAddress(s) \in Int
  BY ExecutableFacts, AddrSpaceAssumption
     DEF Inv, FixupSites, FixupAddress, IsExecutable, Objects, Address
<1>3. \A t \in {"UNKNOWN", "DATA"} :
        HasKind(regions', FixupAddress(s), t) => HasKind(regions, FixupAddress(s), t)
  <2>1. CASE InsertCode
    BY <1>2, <2>1, TracedFits, InsertCorrect
       DEF InsertCode, Inv, RegionsPartition, RegionType
  <2>2. ~ InsertVtable
    BY DEF InsertVtable, Inv, TypeOK
  <2> QED
    BY <2>1, <2>2, WhatChanges
<1> QED
  BY <1>1, <1>3, LabelsGrow DEF Classified

LEMMA RelocsStep == Inv /\ RelocsHandled /\ [Next]_vars => RelocsHandled'
<1> SUFFICES ASSUME Inv, RelocsHandled, [Next]_vars PROVE RelocsHandled'
  OBVIOUS
<1>1. /\ FixupSites' = FixupSites
      /\ \A s : FixupAddress(s)' = FixupAddress(s)
  BY WhatChanges, ImageUnchanged
<1>2. CASE UNCHANGED vars
  BY <1>1, <1>2 DEF vars, RelocsHandled, Classified, IsCodeLabel, CurrentSite
<1>3. CASE Next /\ phase \in {"entry", "vtables"}
  <2>1. \/ phase' \in {"entry", "vtables"}
        \/ phase' = "relocs" /\ pc' = "next_fixup" /\ sites' = FixupSites
    BY <1>3 DEF Next, add_eip_to_trace_queue, trace_code, trace_code_at_address,
       trace_vtables, trace_remaining_relocs, SkipQueued, StartTrace, EntryTraced,
       FixupTraced, DecodeInstruction, RegionExhausted, InsertCode, SkipVtable,
       StartScan, ScanEntry, NoVtable, VtableFound, InsertVtable, VtablesDone,
       SkipReloc, TraceReloc, LabelData, RelocsDone
  <2> QED
    BY <1>1, <2>1 DEF RelocsHandled
<1>4. CASE Next /\ phase = "relocs"
  <2>0. PICK site : site = CurrentSite
    OBVIOUS
  <2>1. ASSUME sites # {}
        PROVE  /\ site \in FixupSites
               /\ FixupAddress(site) \in Address /\ FixupAddress(site) \in Int
    BY <2>0, <2>1, CurrentSiteFound, AddrSpaceAssumption DEF Inv, Address
  <2>2. \A s \in FixupSites \ sites : Classified(s)'
    BY <1>4, ClassifiedStays DEF RelocsHandled
  <2>3. \A a : IsCodeLabel(a) => IsCodeLabel(a)'
    BY <1>4, CodeLabelsStep
  <2>4. WellFormed(regions)
    BY DEF Inv, RegionsPartition
  <2>5. ASSUME sites # {}, UNCHANGED regions, pc = "next_fixup",
               NEW t, ~ FixupRegionHas(t)
        PROVE  ~ HasKind(regions', FixupAddress(site), t)
    <3>1. PICK r : r = FixupRegion
      OBVIOUS
    <3>2. /\ r # NULL => r \in DOMAIN regions /\ InRegion(regions, r, FixupAddress(site))
          /\ r = NULL => ~ IsMapped(regions, FixupAddress(site))
      BY <2>0, <2>1, <2>4, <2>5, <3>1, LookupCorrect DEF FixupRegion
    <3>3. CASE r = NULL
      BY <2>5, <3>2, <3>3 DEF IsMapped, HasKind
    <3>4. CASE r # NULL
      <4>1. /\ HasKind(regions, FixupAddress(site), regions[r].type)
            /\ regions[r].type # t
        BY <2>5, <3>1, <3>2, <3>4 DEF HasKind, FixupRegionHas
      <4> QED
        BY <2>1, <2>4, <2>5, <4>1, OneKind
    <3> QED
      BY <3>3, <3>4
  <2>6. CASE SkipReloc
    <3>1. Classified(site)'
      BY <1>1, <2>5, <2>6 DEF SkipReloc, Classified
    <3>2. phase' = "relocs" /\ pc' = "next_fixup" /\ sites' = sites \ {site}
      BY <2>0, <2>6 DEF SkipReloc
    <3> QED
      BY <1>1, <2>2, <3>1, <3>2 DEF RelocsHandled
  <2>7. CASE LabelData
    <3>0. /\ sites # {} /\ UNCHANGED regions /\ pc = "next_fixup"
          /\ phase' = "relocs" /\ pc' = "next_fixup" /\ sites' = sites \ {site}
          /\ labels' = set_label(labels, FixupAddress(site), Label("DATA"))
          /\ ~ FixupRegionHas("UNKNOWN")
      BY <2>0, <2>7 DEF LabelData, FixupRegionHas
    <3>1. FixupAddress(site) \in DOMAIN labels'
      BY <3>0 DEF set_label
    <3>2. Classified(site)'
      BY <1>1, <2>5, <3>0, <3>1 DEF Classified
    <3> QED
      BY <1>1, <2>2, <3>0, <3>2 DEF RelocsHandled
  <2>8. CASE FixupTraced
    <3>0. /\ UNCHANGED <<regions, labels>>
          /\ phase' = "relocs" /\ pc' = "next_fixup" /\ sites' = sites \ {site}
          /\ code_trace_queue = <<>> /\ pc = "trace_code"
      BY <1>4, <2>0, <2>8 DEF FixupTraced
    <3>1. sites # {} /\ IsCodeLabel(FixupAddress(site))
      BY <1>4, <2>0, <3>0 DEF RelocsHandled
    <3>2. IsFollowed(FixupAddress(site)) /\ ~ IsTracing
      BY <3>0, <3>1 DEF Inv, LabelsFollowed, IsCodeLabel, IsTracing
    <3>3. \/ get_object_at_address(FixupAddress(site)) = NULL
          \/ HasKind(regions, FixupAddress(site), "CODE")
      BY <3>0, <3>2 DEF IsFollowed, Range
    <3>4. \A t : HasKind(regions, FixupAddress(site), t) => t = "CODE"
      BY <2>1, <2>4, <3>1, <3>3, OneKind
         DEF Inv, RegionsPartition, HasKind, IsMapped
    <3>5. Classified(site)'
      BY <1>1, <3>0, <3>4 DEF Classified
    <3> QED
      BY <1>1, <2>2, <3>0, <3>5 DEF RelocsHandled
  <2>9. CASE TraceReloc
    <3>0. /\ UNCHANGED sites /\ sites # {} /\ phase' = "relocs"
          /\ labels' = IF IsCodeLabel(FixupAddress(site)) THEN labels
                       ELSE set_label(labels, FixupAddress(site), Label("FUNCTION"))
      BY <1>4, <2>0, <2>9 DEF TraceReloc
    <3>3. PICK address \in Address : address = FixupAddress(site)
      BY <2>1, <3>0
    <3>1. IsCodeLabel(address)'
      <4>1. CASE IsCodeLabel(address)
        BY <2>3, <4>1
      <4>2. CASE ~ IsCodeLabel(address)
        <5>1. /\ Label("FUNCTION") \in LabelSet
              /\ Label("FUNCTION").type = "FUNCTION"
          BY DEF Label, LabelSet, LabelType
        <5>2. labels' = set_label(labels, address, Label("FUNCTION"))
          BY <3>0, <3>3, <4>2
        <5>3. TypeOK /\ NamesAreFunctions
          BY DEF Inv
        <5> QED
          BY <5>1, <5>2, <5>3, SetCodeLabel
      <4> QED
        BY <4>1, <4>2
    <3>2. CurrentSite' = site
      BY <2>0, <3>0 DEF CurrentSite
    <3>4. FixupAddress(CurrentSite)' = address
      BY <1>1, <3>2, <3>3 DEF FixupAddress
    <3>5. IsCodeLabel(FixupAddress(CurrentSite))'
      BY <3>1, <3>4 DEF IsCodeLabel
    <3> QED
      BY <1>1, <2>2, <3>0, <3>5 DEF RelocsHandled
  <2>10. CASE RelocsDone
    BY <1>1, <1>4, <2>2, <2>10 DEF RelocsDone, RelocsHandled
  <2>11. CASE SkipQueued \/ StartTrace \/ trace_code_at_address
    <3>1. /\ UNCHANGED <<phase, sites>> /\ pc # "next_fixup" /\ pc' # "next_fixup"
      BY <2>11 DEF SkipQueued, StartTrace, trace_code_at_address,
         DecodeInstruction, RegionExhausted, InsertCode
    <3>2. CurrentSite' = CurrentSite
      BY <3>1 DEF CurrentSite
    <3> QED
      BY <1>1, <1>4, <2>2, <2>3, <3>1, <3>2 DEF RelocsHandled
  <2> QED
    BY <1>4, <2>6, <2>7, <2>8, <2>9, <2>10, <2>11
       DEF Next, add_eip_to_trace_queue, trace_code, EntryTraced, trace_vtables,
       SkipVtable, StartScan, ScanEntry, NoVtable, VtableFound, InsertVtable,
       VtablesDone, trace_remaining_relocs, Inv, TypeOK
<1>5. CASE Next /\ phase = "done"
  BY <1>5 DEF Next, add_eip_to_trace_queue, trace_code, trace_code_at_address,
     trace_vtables, trace_remaining_relocs, SkipQueued, StartTrace, EntryTraced,
     FixupTraced, DecodeInstruction, RegionExhausted, InsertCode, SkipVtable,
     StartScan, ScanEntry, NoVtable, VtableFound, InsertVtable, VtablesDone,
     SkipReloc, TraceReloc, LabelData, RelocsDone, Inv, TypeOK
<1> QED
  BY <1>2, <1>3, <1>4, <1>5 DEF Inv, TypeOK

\* When the analysis is over no relocation points into the unknown, and what
\* the others point to has a label if it is data (trace_remaining_relocs).
THEOREM RelocsDealtWith == Spec => []RelocsClassified
<1>1. Init => RelocsHandled
  BY DEF Init, RelocsHandled
<1>2. RelocsHandled => RelocsClassified
  BY DEF RelocsHandled, RelocsClassified, Classified
<1> QED
  BY <1>1, <1>2, InvHolds, RelocsStep, PTL DEF Spec

-----------------------------------------------------------------------------
(* An instruction lies in one region of code.                              *)

HeldAsCode(map, lo, hi) ==
    \E k \in DOMAIN map :
        map[k].type = "CODE" /\ k <= lo /\ hi <= k + map[k].size

\* Either its trace has been inserted, or it is part of the one in progress.
TracedInOneRegion ==
    \A a \in DOMAIN traced :
        \/ HeldAsCode(regions, a, a + traced[a].size)
        \/ IsTracing /\ trace.start <= a /\ a + traced[a].size <= trace.addr

\* What is inserted elsewhere cuts no region of code.
LEMMA CodeStaysHeld ==
    ASSUME NEW map, WellFormed(map), NEW parent, NEW reg, FitsIn(map, parent, reg),
           map[parent].type # "CODE",
           NEW m, m = insert_region(map, parent, reg),
           NEW lo \in Int, NEW hi \in Int, lo < hi, HeldAsCode(map, lo, hi)
    PROVE  HeldAsCode(m, lo, hi)
<1>1. PICK k \in DOMAIN map :
        map[k].type = "CODE" /\ k <= lo /\ hi <= k + map[k].size
  BY DEF HeldAsCode
<1>2. /\ k \in Nat /\ map[k].address = k /\ map[k].size \in Nat
      /\ parent \in Nat /\ reg.address \in Nat /\ reg.size \in Nat
      /\ map[parent].size \in Nat
  BY EndAddress, FitsInEnds
<1>3. k < parent => k + map[k].size <= parent
  BY DEF WellFormed, FitsIn
<1>4. parent < k => parent + map[parent].size <= k
  BY DEF WellFormed, FitsIn
<1>5. hi <= reg.address \/ reg.address + reg.size <= lo
  <2>1. k # parent
    BY <1>1
  <2>2. parent <= reg.address /\ reg.address + reg.size <= parent + map[parent].size
    BY DEF FitsIn
  <2> QED
    BY <1>1, <1>2, <1>3, <1>4, <2>1, <2>2
<1>6. Holds(m, lo, hi)
  <2>1. Holds(map, lo, hi)
    BY <1>1 DEF Holds
  <2> QED
    BY <1>5, <2>1, InsertHolds
<1>7. HasKind(m, lo, "CODE")
  <2>1. HasKind(map, lo, "CODE")
    BY <1>1, <1>2 DEF HasKind, InRegion
  <2> QED
    BY <1>2, <1>5, <2>1, InsertCorrect DEF RegionType
<1>8. PICK j \in DOMAIN m : j <= lo /\ hi <= j + m[j].size
  BY <1>6 DEF Holds
<1>9. m[j].type = "CODE"
  <2>1. WellFormed(m)
    BY InsertCorrect
  <2>2. j \in Nat /\ m[j].address = j /\ m[j].size \in Nat
    BY <2>1, EndAddress
  <2>3. HasKind(m, lo, m[j].type)
    BY <1>8, <2>2 DEF HasKind, InRegion
  <2> QED
    BY <1>7, <2>1, <2>3, OneKind
<1> QED
  BY <1>8, <1>9 DEF HeldAsCode

LEMMA HeldInsert ==
    ASSUME Inv, TracedInOneRegion, UNCHANGED traced,
           NEW parent, NEW reg, FitsIn(regions, parent, reg),
           regions[parent].type # "CODE",
           regions' = insert_region(regions, parent, reg),
           NEW a \in DOMAIN traced, HeldAsCode(regions, a, a + traced[a].size)
    PROVE  HeldAsCode(regions', a, a + traced[a].size)
<1>1. a \in Int /\ a + traced[a].size \in Int /\ a < a + traced[a].size
  BY AddrSpaceAssumption DEF Inv, TypeOK, InstructionSet, Address
<1>2. WellFormed(regions)
  BY DEF Inv, RegionsPartition
<1> QED
  BY <1>1, <1>2, CodeStaysHeld

LEMMA HeldStep ==
    Inv /\ TracedInOneRegion /\ [Next]_vars => TracedInOneRegion'
<1> SUFFICES ASSUME Inv, TracedInOneRegion, [Next]_vars,
                    NEW a \in DOMAIN traced'
             PROVE  \/ HeldAsCode(regions', a, a + traced'[a].size)
                    \/ /\ IsTracing' /\ trace'.start <= a
                       /\ a + traced'[a].size <= trace'.addr
  BY DEF TracedInOneRegion
<1>1. ASSUME a \in DOMAIN traced
      PROVE  \/ HeldAsCode(regions, a, a + traced[a].size)
             \/ IsTracing /\ trace.start <= a /\ a + traced[a].size <= trace.addr
  BY <1>1 DEF TracedInOneRegion
<1>2. CASE DecodeInstruction
  <2>1. PICK addr : addr = trace.addr
    OBVIOUS
  <2>2. PICK inst \in disassemble(trace.addr, trace.end - trace.addr) :
          /\ trace' = [trace EXCEPT !.addr = @ + inst.size]
          /\ traced' = [b \in DOMAIN traced \cup {addr} |->
                          IF b = addr THEN inst ELSE traced[b]]
          /\ pc' \in {"decode", "insert_code"}
          /\ UNCHANGED regions
    BY <1>2, <2>1 DEF DecodeInstruction
  <2>3. addr \in Nat /\ inst.size \in Nat
    BY <1>2, <2>1, <2>2, DecodedInside, AddrSpaceAssumption DEF Address
  <2>4. trace.start \in Nat /\ trace.start <= addr /\ IsTracing
    BY <1>2, <2>1, AddrSpaceAssumption
       DEF DecodeInstruction, IsTracing, Inv, RegionHeld, TypeOK, Address
  <2>5. IsTracing' /\ trace'.start = trace.start /\ trace'.addr = addr + inst.size
    BY <2>1, <2>2 DEF IsTracing, Inv, TypeOK
  <2>6. CASE a = addr
    BY <2>2, <2>3, <2>4, <2>5, <2>6
  <2>7. CASE a # addr
    <3>1. a \in DOMAIN traced /\ traced'[a] = traced[a]
      BY <2>2, <2>7
    <3>2. a \in Nat /\ traced[a].size \in Nat
      BY <3>1, AddrSpaceAssumption DEF Inv, TypeOK, InstructionSet, Address
    <3> QED
      BY <1>1, <2>1, <2>2, <2>3, <2>5, <3>1, <3>2
  <2> QED
    BY <2>6, <2>7
<1>3. CASE InsertCode
  <2>1. /\ pc = "insert_code" /\ traced' = traced
        /\ regions' = insert_region(regions, trace.reg, TracedRegion)
    BY <1>3 DEF InsertCode
  <2>2. /\ FitsIn(regions, trace.reg, TracedRegion)
        /\ TracedRegion.address = trace.start
        /\ TracedRegion.type = "CODE"
        /\ TracedRegion.address + TracedRegion.size = trace.addr
        /\ trace.start \in Nat /\ trace.addr \in Nat /\ trace.start < trace.addr
    BY <2>1, TracedFits
  <2>3. regions[trace.reg].type # "CODE" /\ WellFormed(regions)
    BY <2>1 DEF Inv, RegionHeld, IsTracing, RegionsPartition
  <2>4. CASE HeldAsCode(regions, a, a + traced[a].size)
    BY <2>1, <2>2, <2>3, <2>4, HeldInsert
  <2>5. CASE trace.start <= a /\ a + traced[a].size <= trace.addr
    <3>1. Holds(regions', trace.start, trace.addr)
      BY <2>1, <2>2, <2>3, InsertHoldsNew
    <3>2. PICK k \in DOMAIN regions' : k <= trace.start /\ trace.addr <= k + regions'[k].size
      BY <3>1 DEF Holds
    <3>3. WellFormed(regions') /\ HasKind(regions', trace.start, "CODE")
      BY <2>1, <2>2, <2>3, InsertCorrect DEF RegionType
    <3>4. k \in Nat /\ regions'[k].address = k /\ regions'[k].size \in Nat
      BY <3>2, <3>3, EndAddress
    <3>5. HasKind(regions', trace.start, regions'[k].type)
      BY <2>2, <3>2, <3>4 DEF HasKind, InRegion
    <3>6. regions'[k].type = "CODE"
      BY <2>2, <3>3, <3>5, OneKind
    <3>7. a \in Nat /\ traced[a].size \in Nat
      BY <2>1, AddrSpaceAssumption DEF Inv, TypeOK, InstructionSet, Address
    <3> QED
      BY <2>1, <2>2, <2>5, <3>2, <3>4, <3>6, <3>7 DEF HeldAsCode
  <2> QED
    BY <1>1, <2>1, <2>4, <2>5
<1>4. CASE InsertVtable
  <2>1. /\ pc = "insert_vtable" /\ traced' = traced /\ ~ IsTracing
        /\ regions' = insert_region(regions, scan.reg, ScannedRegion)
    BY <1>4 DEF InsertVtable, IsTracing
  <2>2. FitsIn(regions, scan.reg, ScannedRegion) /\ regions[scan.reg].type # "CODE"
    BY <2>1, ScannedFits DEF Inv, RegionHeld
  <2> QED
    BY <1>1, <2>1, <2>2, HeldInsert
<1>5. CASE StartTrace
  <2>1. UNCHANGED <<regions, traced>> /\ ~ IsTracing
    BY <1>5 DEF StartTrace, IsTracing
  <2> QED
    BY <1>1, <2>1
<1>6. CASE ~ (DecodeInstruction \/ InsertCode \/ InsertVtable \/ StartTrace)
  <2>1. UNCHANGED <<regions, traced>>
    BY <1>6, WhatChanges
  <2>2. trace' = trace /\ (IsTracing' <=> IsTracing)
    BY <1>6 DEF Next, vars, add_eip_to_trace_queue, trace_code,
       trace_code_at_address, trace_vtables, trace_remaining_relocs, SkipQueued,
       EntryTraced, FixupTraced, RegionExhausted, SkipVtable, StartScan,
       ScanEntry, NoVtable, VtableFound, VtablesDone, SkipReloc, TraceReloc,
       LabelData, RelocsDone, IsTracing
  <2> QED
    BY <1>1, <2>1, <2>2
<1> QED
  BY <1>2, <1>3, <1>4, <1>5, <1>6

\* An instruction lies in one region, with all its bytes: no later insertion
\* splits it, as none is made inside code (analyser.cpp:228-278).
THEOREM InstructionsWhole == Spec => []TracedInOneRegion
<1>1. Init => TracedInOneRegion
  BY DEF Init, TracedInOneRegion
<1> QED
  BY <1>1, InvHolds, HeldStep, PTL DEF Spec

-----------------------------------------------------------------------------
(* The bytes of a vtable.  Regions of vtables are joined with others in    *)
(* front and behind and cut by the code that is traced into them, so what  *)
(* is said of vtables is said of bytes: where a vtable begins, how far it  *)
(* is from there to the next one, and what its words point to.             *)

IsVtable(a) == HasKind(regions, a, "VTABLE")

IsCode(a) == HasKind(regions, a, "CODE")

VtableFrom(lo, hi) == \A a \in Int : lo <= a /\ a < hi => IsVtable(a)

\* A whole number of words lies between the addresses.
InStep(a, b) == \E m \in Nat : b = a + WordSize * m

LEMMA NoStep ==
    ASSUME NEW a \in Int
    PROVE  InStep(a, a)
<1>1. a = a + WordSize * 0
  BY WordSizeAssumption
<1> QED
  BY <1>1 DEF InStep

LEMMA StepOn ==
    ASSUME NEW a \in Int, NEW b, NEW c, InStep(a, b), InStep(b, c)
    PROVE  InStep(a, c)
<1>1. PICK m \in Nat : b = a + WordSize * m
  BY DEF InStep
<1>2. PICK n \in Nat : c = b + WordSize * n
  BY DEF InStep
<1>3. WordSize * (m + n) = WordSize * m + WordSize * n
  BY WordSizeAssumption
<1>4. WordSize * m \in Nat /\ WordSize * n \in Nat
  BY WordSizeAssumption
<1>5. c = a + WordSize * (m + n) /\ m + n \in Nat
  BY <1>1, <1>2, <1>3, <1>4
<1> QED
  BY <1>5 DEF InStep

LEMMA StepBetween ==
    ASSUME NEW a \in Int, NEW b, NEW c, InStep(a, b), InStep(a, c), b <= c
    PROVE  InStep(b, c)
<1>1. PICK m \in Nat : b = a + WordSize * m
  BY DEF InStep
<1>2. PICK n \in Nat : c = a + WordSize * n
  BY DEF InStep
<1>3. WordSize * m \in Nat /\ WordSize * n \in Nat
  BY WordSizeAssumption
<1>4. m <= n
  <2> SUFFICES ASSUME n < m PROVE FALSE
    OBVIOUS
  <2>1. PICK d \in Nat \ {0} : m = n + d
    <3>1. m - n \in Nat \ {0} /\ m = n + (m - n)
      OBVIOUS
    <3> QED
      BY <3>1
  <2>2. WordSize * m = WordSize * n + WordSize * d
    BY <2>1, WordSizeAssumption
  <2>3. WordSize * d \in Nat \ {0}
    BY <2>1, WordSizeAssumption
  <2> QED
    BY <1>1, <1>2, <1>3, <2>2, <2>3
<1>5. WordSize * n = WordSize * m + WordSize * (n - m)
  BY WordSizeAssumption
<1>6. n - m \in Nat /\ WordSize * (n - m) \in Nat
  BY <1>4, WordSizeAssumption
<1>7. c = b + WordSize * (n - m)
  BY <1>1, <1>2, <1>3, <1>5, <1>6
<1> QED
  BY <1>6, <1>7 DEF InStep

\* What get_next_value finds in a set of addresses.
LEMMA NextValue ==
    ASSUME NEW keys \in SUBSET Nat, NEW key, NEW v, v = get_next_value(keys, key)
    PROVE  \/ v = NULL /\ \A k \in keys : ~ (key < k)
           \/ v \in keys /\ v # NULL /\ key < v /\ \A k \in keys : key < k => v <= k
<1> DEFINE T == {k \in keys : key < k}
<1>1. CASE T = {}
  <2>1. \A k \in keys : ~ IsNext(keys, key, k)
    BY <1>1 DEF IsNext
  <2> QED
    BY <1>1, <2>1 DEF get_next_value
<1>2. CASE T # {}
  <2>1. PICK k \in T : \A j \in T : k <= j
    BY <1>2, LeastNat
  <2>2. k \in keys /\ IsNext(keys, key, k)
    BY <2>1 DEF IsNext
  <2>3. v \in keys /\ IsNext(keys, key, v)
    BY <2>2 DEF get_next_value
  <2> QED
    BY <2>3, NullAssumption DEF IsNext
<1> QED
  BY <1>1, <1>2

\* The targets of relocations are addresses.
LEMMA FixupTargets ==
    ASSUME TypeOK
    PROVE  get_fixup_addresses \subseteq Address
BY ExecutableFacts DEF get_fixup_addresses, FixupSites, FixupAddress, IsExecutable,
   Objects

\* What the two insertions do to the bytes of vtables.
LEMMA VtableInserted ==
    ASSUME Inv, InsertVtable,
           NEW from, from = scan.address,
           NEW to, to = scan.address + WordSize * scan.count
    PROVE  /\ from \in Nat /\ to \in Nat /\ from < to /\ InStep(from, to)
           /\ to <= from + scan.size /\ scan.size \in Nat
           /\ \A a \in Int :
                /\ IsVtable(a)' <=> IsVtable(a) \/ (from <= a /\ a < to)
                /\ IsCode(a)' <=> IsCode(a)
                /\ HasKind(regions, a, "DATA") => HasKind(regions', a, "DATA")
                /\ from <= a /\ a < to => ~ IsVtable(a) /\ ~ IsCode(a)
<1>1. /\ FitsIn(regions, scan.reg, ScannedRegion)
      /\ ScannedRegion.address = from
      /\ ScannedRegion.type = "VTABLE"
      /\ ScannedRegion.size \in Nat \ {0}
      /\ from + ScannedRegion.size = to
      /\ from \in Nat
  BY ScannedFits DEF InsertVtable
<1>2. /\ WellFormed(regions)
      /\ regions[scan.reg].type = "UNKNOWN"
      /\ regions' = insert_region(regions, scan.reg, ScannedRegion)
  BY DEF InsertVtable, Inv, RegionHeld, RegionsPartition
<1>3. from \in Nat /\ to \in Nat /\ from < to
  BY <1>1
<1>4. InStep(from, to) /\ to <= from + scan.size /\ scan.size \in Nat
  <2>1. scan.count \in Nat /\ WordSize * scan.count <= scan.size /\ scan.size \in Nat
    BY DEF InsertVtable, Inv, RegionHeld, TypeOK
  <2>2. InStep(from, to)
    BY <2>1 DEF InStep
  <2>3. to <= from + scan.size
    <3>1. PICK n \in Nat : n = WordSize * scan.count
      BY <2>1, WordSizeAssumption
    <3> QED
      BY <1>3, <2>1, <3>1
  <2> QED
    BY <2>1, <2>2, <2>3
<1>5. ASSUME NEW a \in Int, from <= a, a < to
      PROVE  HasKind(regions, a, "UNKNOWN")
  <2>1. /\ scan.reg \in DOMAIN regions
        /\ scan.reg <= from /\ to <= scan.reg + regions[scan.reg].size
    BY <1>1, <1>2 DEF FitsIn
  <2>2. /\ regions[scan.reg].address = scan.reg /\ scan.reg \in Nat
        /\ regions[scan.reg].size \in Nat
    BY <1>2, <2>1, EndAddress
  <2>3. InRegion(regions, scan.reg, a)
    BY <1>3, <1>5, <2>1, <2>2 DEF InRegion
  <2> QED
    BY <1>2, <2>1, <2>3 DEF HasKind
<1>6. \A a \in Int, t \in RegionType :
        HasKind(regions', a, t) <=>
            IF from <= a /\ a < to THEN t = "VTABLE" ELSE HasKind(regions, a, t)
  BY <1>1, <1>2, InsertCorrect
<1>7. {"VTABLE", "CODE", "DATA", "UNKNOWN"} \subseteq RegionType
  BY DEF RegionType
<1>8. ASSUME NEW a \in Int, from <= a, a < to, NEW t, t # "UNKNOWN"
      PROVE  ~ HasKind(regions, a, t)
  BY <1>2, <1>5, <1>8, OneKind
<1>9. ASSUME NEW a \in Int
      PROVE  /\ IsVtable(a)' <=> IsVtable(a) \/ (from <= a /\ a < to)
             /\ IsCode(a)' <=> IsCode(a)
             /\ HasKind(regions, a, "DATA") => HasKind(regions', a, "DATA")
             /\ from <= a /\ a < to => ~ IsVtable(a) /\ ~ IsCode(a)
  BY <1>6, <1>7, <1>8 DEF IsVtable, IsCode
<1> QED
  BY <1>3, <1>4, <1>9

LEMMA CodeInserted ==
    ASSUME Inv, InsertCode, NEW a \in Int
    PROVE  /\ IsVtable(a)' => IsVtable(a)
           /\ IsVtable(a) => IsVtable(a)' \/ IsCode(a)'
           /\ IsCode(a) => IsCode(a)'
           /\ HasKind(regions, a, "DATA") => HasKind(regions', a, "DATA") \/ IsCode(a)'
<1>1. /\ FitsIn(regions, trace.reg, TracedRegion)
      /\ TracedRegion.type = "CODE"
      /\ regions' = insert_region(regions, trace.reg, TracedRegion)
      /\ WellFormed(regions)
  BY TracedFits DEF InsertCode, Inv, RegionsPartition
<1>2. \A t \in RegionType :
        HasKind(regions', a, t) <=>
            IF TracedRegion.address <= a /\ a < TracedRegion.address + TracedRegion.size
            THEN t = "CODE" ELSE HasKind(regions, a, t)
  BY <1>1, InsertCorrect
<1>3. {"VTABLE", "CODE", "DATA", "UNKNOWN"} \subseteq RegionType
  BY DEF RegionType
<1> QED
  BY <1>2, <1>3 DEF IsVtable, IsCode

\* Where regions of one type touch there is no vtable.
VtablesJoined == \A x : TouchAt(regions, x) => ~ IsVtable(x)

\* A byte of a vtable that no relocation points to follows another, or code.
VtablesBegin ==
    \A a \in Int : IsVtable(a) =>
        a \in get_fixup_addresses \/ IsVtable(a - 1) \/ IsCode(a - 1)

\* From where a relocation points to, vtables go on in whole words, to the
\* next target of a relocation and to their end, if it is not code.
VtablesWhole ==
    \A from \in get_fixup_addresses, to \in Int :
        from < to /\ VtableFrom(from, to) /\ ~ IsCode(to)
        /\ (to \in get_fixup_addresses \/ ~ IsVtable(to))
            => InStep(from, to)

VtableBytes == VtablesJoined /\ VtablesBegin /\ VtablesWhole

LEMMA VtableBytesInit ==
    ASSUME TypeOK, \A k \in DOMAIN regions : regions[k].type # "VTABLE"
    PROVE  VtableBytes
<1>1. \A a : ~ IsVtable(a)
  BY DEF IsVtable, HasKind
<1>2. VtablesJoined /\ VtablesBegin
  BY <1>1 DEF VtablesJoined, VtablesBegin
<1>3. ASSUME NEW from \in Int, NEW to \in Int, from < to
      PROVE  ~ VtableFrom(from, to)
  BY <1>1, <1>3 DEF VtableFrom
<1>4. get_fixup_addresses \subseteq Int
  BY FixupTargets, AddrSpaceAssumption DEF Address
<1>5. VtablesWhole
  BY <1>3, <1>4 DEF VtablesWhole
<1> QED
  BY <1>2, <1>5 DEF VtableBytes

\* Code only takes bytes away from vtables.
LEMMA VtableBytesCode ==
    ASSUME Inv, VtableBytes, InsertCode
    PROVE  VtableBytes'
<1>1. /\ \A a : TouchAt(regions', a) => TouchAt(regions, a) /\ a \in Int
      /\ get_fixup_addresses' = get_fixup_addresses
      /\ get_fixup_addresses \subseteq Int
  <2>1. /\ FitsIn(regions, trace.reg, TracedRegion) /\ WellFormed(regions)
        /\ regions' = insert_region(regions, trace.reg, TracedRegion)
    BY TracedFits DEF InsertCode, Inv, RegionsPartition
  <2>2. \A a : TouchAt(regions', a) => TouchAt(regions, a)
    BY <2>1, InsertTouches
  <2>3. \A a : TouchAt(regions, a) => a \in Int
    BY <2>1, EndAddress DEF TouchAt
  <2>4. get_fixup_addresses' = get_fixup_addresses
    BY DEF InsertCode, get_fixup_addresses, FixupSites, FixupAddress, Objects
  <2> QED
    BY <2>2, <2>3, <2>4, FixupTargets, AddrSpaceAssumption DEF Inv, Address
<1>2. VtablesJoined'
  BY <1>1, CodeInserted DEF VtableBytes, VtablesJoined
<1>3. VtablesBegin'
  <2> SUFFICES ASSUME NEW a \in Int, IsVtable(a)', a \notin get_fixup_addresses
               PROVE  IsVtable(a - 1)' \/ IsCode(a - 1)'
    BY <1>1 DEF VtablesBegin
  <2>1. IsVtable(a) /\ a - 1 \in Int
    BY CodeInserted
  <2>2. IsVtable(a - 1) \/ IsCode(a - 1)
    BY <2>1 DEF VtableBytes, VtablesBegin
  <2> QED
    BY <2>1, <2>2, CodeInserted
<1>4. VtablesWhole'
  <2> SUFFICES ASSUME NEW from \in get_fixup_addresses, NEW to \in Int,
                      from < to, VtableFrom(from, to)', ~ IsCode(to)',
                      to \in get_fixup_addresses \/ ~ IsVtable(to)'
               PROVE  InStep(from, to)
    BY <1>1 DEF VtablesWhole, InStep
  <2>1. VtableFrom(from, to)
    BY CodeInserted DEF VtableFrom
  <2>2. ~ IsCode(to) /\ (to \in get_fixup_addresses \/ ~ IsVtable(to))
    BY CodeInserted
  <2> QED
    BY <2>1, <2>2 DEF VtableBytes, VtablesWhole
<1> QED
  BY <1>2, <1>3, <1>4 DEF VtableBytes

\* What the scan has found out: it began at the target of a relocation, and
\* went no further than the next one.
ScanInside ==
    pc \in {"scan", "insert_vtable"} =>
        /\ scan.address \in get_fixup_addresses
        /\ \A a \in get_fixup_addresses :
            ~ (scan.address < a /\ a < scan.address + scan.size)

\* A vtable that has been found is joined with those around it in step.
LEMMA VtableBytesVtable ==
    ASSUME Inv, VtableBytes, ScanInside, InsertVtable
    PROVE  VtableBytes'
<1> PICK from, to : from = scan.address /\ to = scan.address + WordSize * scan.count
  OBVIOUS
<1>1. /\ from \in Nat /\ to \in Nat /\ from < to /\ InStep(from, to)
      /\ to <= from + scan.size /\ scan.size \in Nat
      /\ \A a \in Int :
            /\ IsVtable(a)' <=> IsVtable(a) \/ (from <= a /\ a < to)
            /\ IsCode(a)' <=> IsCode(a)
            /\ from <= a /\ a < to => ~ IsVtable(a) /\ ~ IsCode(a)
  BY VtableInserted
<1>2. /\ get_fixup_addresses' = get_fixup_addresses
      /\ get_fixup_addresses \subseteq Int
  <2>1. get_fixup_addresses' = get_fixup_addresses
    BY DEF InsertVtable, get_fixup_addresses, FixupSites, FixupAddress, Objects
  <2> QED
    BY <2>1, FixupTargets, AddrSpaceAssumption DEF Inv, Address
<1>3. /\ from \in get_fixup_addresses
      /\ \A a \in get_fixup_addresses : ~ (from < a /\ a < to)
  BY <1>1, <1>2 DEF ScanInside, InsertVtable
<1>4. VtablesJoined'
  <2> SUFFICES ASSUME NEW x, TouchAt(regions', x), IsVtable(x)' PROVE FALSE
    BY DEF VtablesJoined
  <2>1. /\ FitsIn(regions, scan.reg, ScannedRegion) /\ WellFormed(regions)
        /\ regions' = insert_region(regions, scan.reg, ScannedRegion)
        /\ ScannedRegion.address = from
        /\ from + ScannedRegion.size = to
    BY ScannedFits DEF InsertVtable, Inv, RegionsPartition
  <2>2. TouchAt(regions, x) /\ x # from
    BY <2>1, InsertTouches
  <2>3. x \in Int /\ ~ IsVtable(x)
    BY <2>1, <2>2, EndAddress DEF TouchAt, VtableBytes, VtablesJoined
  <2>4. from < x /\ x < to
    BY <1>1, <2>2, <2>3
  <2>5. PICK k \in DOMAIN regions' : k <= from /\ to <= k + regions'[k].size
    BY <2>1, InsertHoldsNew DEF Holds
  <2>6. WellFormed(regions') /\ x \in DOMAIN regions'
    BY <2>1, InsertCorrect DEF TouchAt
  <2>7. k \in Nat /\ regions'[k].size \in Nat
    BY <2>5, <2>6, EndAddress
  <2>8. k < x => k + regions'[k].size <= x
    BY <2>5, <2>6 DEF WellFormed
  <2> QED
    BY <1>1, <2>3, <2>4, <2>5, <2>7, <2>8
<1>5. VtablesBegin'
  <2> SUFFICES ASSUME NEW a \in Int, IsVtable(a)', a \notin get_fixup_addresses
               PROVE  IsVtable(a - 1)' \/ IsCode(a - 1)'
    BY <1>2 DEF VtablesBegin
  <2>1. a - 1 \in Int
    OBVIOUS
  <2>2. CASE IsVtable(a)
    BY <1>1, <2>1, <2>2 DEF VtableBytes, VtablesBegin
  <2>3. CASE from <= a /\ a < to
    <3>1. from <= a - 1 /\ a - 1 < to
      BY <1>1, <1>3, <2>3
    <3> QED
      BY <1>1, <2>1, <3>1
  <2> QED
    BY <1>1, <2>2, <2>3
<1>6. VtablesWhole'
  <2> SUFFICES ASSUME NEW low \in get_fixup_addresses, NEW high \in Int,
                      low < high, VtableFrom(low, high)', ~ IsCode(high)',
                      high \in get_fixup_addresses \/ ~ IsVtable(high)'
               PROVE  InStep(low, high)
    BY <1>2 DEF VtablesWhole, InStep
  <2>1. /\ low \in Int /\ ~ (from < low /\ low < to)
        /\ ~ IsCode(high)
        /\ high \in get_fixup_addresses \/ ~ IsVtable(high)
    BY <1>1, <1>2, <1>3
  <2>2. ASSUME NEW l \in get_fixup_addresses, NEW h \in Int, l < h,
               VtableFrom(l, h)', h <= from \/ to <= l, ~ IsCode(h),
               h \in get_fixup_addresses \/ ~ IsVtable(h)
        PROVE  InStep(l, h)
    <3>1. l \in Int
      BY <1>2
    <3>2. VtableFrom(l, h)
      BY <1>1, <2>2, <3>1 DEF VtableFrom
    <3> QED
      BY <2>2, <3>2 DEF VtableBytes, VtablesWhole
  <2>3. CASE high <= from \/ to <= low
    BY <2>1, <2>2, <2>3
  <2>4. CASE from < high /\ low < to
    <3>1. low <= from /\ to <= high
      <4>1. ~ (from < high /\ high < to)
        BY <1>1, <1>3, <2>1
      <4> QED
        BY <1>1, <2>1, <2>4, <4>1
    <3>2. InStep(low, from)
      <4>1. CASE low = from
        BY <1>1, <4>1, NoStep
      <4>2. CASE low < from
        <5>1. VtableFrom(low, from)'
          BY <1>1, <3>1 DEF VtableFrom
        <5>2. ~ IsCode(from)
          BY <1>1
        <5> QED
          BY <1>1, <1>3, <4>2, <5>1, <5>2, <2>2
      <4> QED
        BY <1>1, <2>1, <3>1, <4>1, <4>2
    <3>3. InStep(to, high)
      <4>1. CASE to = high
        BY <1>1, <4>1, NoStep
      <4>2. CASE to < high
        <5>1. VtableFrom(to, high)'
          BY <1>1, <2>1, <3>1 DEF VtableFrom
        <5>2. IsVtable(to)
          BY <1>1, <4>2, <5>1 DEF VtableFrom
        <5>3. to - 1 \in Int /\ ~ IsVtable(to - 1) /\ ~ IsCode(to - 1)
          BY <1>1
        <5>4. to \in get_fixup_addresses
          BY <1>1, <5>2, <5>3 DEF VtableBytes, VtablesBegin
        <5> QED
          BY <1>1, <2>1, <2>2, <4>2, <5>1, <5>4
      <4> QED
        BY <1>1, <3>1, <4>1, <4>2
    <3> QED
      BY <1>1, <2>1, <3>2, <3>3, StepOn
  <2> QED
    BY <1>1, <2>1, <2>3, <2>4
<1> QED
  BY <1>4, <1>5, <1>6 DEF VtableBytes

\* A scan is only begun in front of the next target (analyser.cpp:319-323).
LEMMA ScanInsideStep == Inv /\ ScanInside /\ [Next]_vars => ScanInside'
<1> SUFFICES ASSUME Inv, ScanInside, [Next]_vars PROVE ScanInside'
  OBVIOUS
<1>1. get_fixup_addresses' = get_fixup_addresses
  BY WhatChanges DEF get_fixup_addresses, FixupSites, FixupAddress, Objects
<1>2. CASE StartScan
  <2> PICK address, size :
        /\ address = FixupAddress(CurrentSite)
        /\ size = VtableRoom(FixupRegion, FixupAddress(CurrentSite))
    OBVIOUS
  <2>1. /\ sites # {} /\ pc' = "scan"
        /\ scan'.address = address /\ scan'.size = size
    BY <1>2 DEF StartScan
  <2>2. address \in get_fixup_addresses
    BY <2>1, CurrentSiteFound DEF get_fixup_addresses, Inv
  <2>3. get_fixup_addresses \in SUBSET Nat
    BY FixupTargets, AddrSpaceAssumption DEF Inv, Address
  <2> PICK room, aptr :
        /\ room = (get_end_address(regions[FixupRegion]) - address) % AddrSpace
        /\ aptr = get_next_value(get_fixup_addresses, address)
    OBVIOUS
  <2>4. size = IF aptr # NULL /\ aptr - address < room THEN aptr - address ELSE room
    BY DEF VtableRoom
  <2>5. address \in Nat
    BY <2>2, <2>3
  <2>6. room \in Nat
    <3>1. /\ FixupRegion # NULL /\ FixupRegion \in DOMAIN regions
      BY <1>2, <2>1, CurrentSiteFound, LookupRegion
         DEF StartScan, MaybeVtable, FixupRegion, Inv
    <3>2. get_end_address(regions[FixupRegion]) \in Address
      BY <3>1, EndAddress DEF Inv, RegionsPartition
    <3> QED
      BY <2>5, <3>2, AddrSpaceAssumption DEF Address
  <2>7. ASSUME NEW a \in get_fixup_addresses
        PROVE  ~ (address < a /\ a < address + size)
    <3>1. a \in Nat
      BY <2>3
    <3>2. \/ aptr = NULL /\ ~ (address < a)
          \/ aptr \in Nat /\ aptr # NULL /\ (address < a => aptr <= a)
      BY <2>3, NextValue
    <3> QED
      BY <2>4, <2>5, <2>6, <3>1, <3>2
  <2> QED
    BY <1>1, <2>1, <2>2, <2>7 DEF ScanInside
<1>3. CASE pc \in {"scan", "insert_vtable"} /\ (ScanEntry \/ VtableFound \/ UNCHANGED vars)
  <2>1. scan'.address = scan.address /\ scan'.size = scan.size
    BY <1>3 DEF ScanEntry, VtableFound, vars, Inv, TypeOK
  <2> QED
    BY <1>1, <1>3, <2>1 DEF ScanInside
<1>4. \/ pc' \notin {"scan", "insert_vtable"} \/ StartScan
      \/ pc \in {"scan", "insert_vtable"} /\ (ScanEntry \/ VtableFound \/ UNCHANGED vars)
  BY DEF Next, vars, add_eip_to_trace_queue, trace_code, trace_code_at_address,
     trace_vtables, trace_remaining_relocs, SkipQueued, StartTrace, EntryTraced,
     FixupTraced, DecodeInstruction, RegionExhausted, InsertCode, SkipVtable,
     StartScan, ScanEntry, NoVtable, VtableFound, InsertVtable, VtablesDone,
     SkipReloc, TraceReloc, LabelData, RelocsDone
<1> QED
  BY <1>2, <1>3, <1>4 DEF ScanInside

\* A label is of code, at the target of a relocation, in the data, or in code
\* that was traced over it.
LabelsPlaced ==
    \A a \in DOMAIN labels :
        \/ IsCodeLabel(a) \/ a \in get_fixup_addresses
        \/ HasKind(regions, a, "DATA") \/ IsCode(a)

LEMMA LabelsPlacedInit == Init => LabelsPlaced
<1> SUFFICES ASSUME Init, NEW a \in DOMAIN labels
             PROVE  HasKind(regions, a, "DATA")
  BY DEF LabelsPlaced
<1>1. IsExecutable(exe) /\ regions = InitialRegions(exe) /\ labels = InitialLabels(exe)
  BY ExecutablesAssumption DEF Init
<1>2. a \in DOMAIN regions /\ ~ ObjectAt(exe, a).exec
  BY <1>1 DEF InitialLabels, InitialRegions
<1>3. regions[a] = Region(a, ObjectAt(exe, a).size, "DATA")
  BY <1>1, <1>2 DEF InitialRegions, InitialType
<1>4. regions[a].type = "DATA"
  BY <1>3 DEF Region
<1>5. InRegion(regions, a, a)
  BY <1>1, <1>2, InitialPartition, EndAddress DEF Init, InRegion, RegionsPartition
<1> QED
  BY <1>2, <1>4, <1>5 DEF HasKind

LEMMA LabelsPlacedStep ==
    Inv /\ ScanInside /\ LabelsPlaced /\ [Next]_vars => LabelsPlaced'
<1> SUFFICES ASSUME Inv, ScanInside, LabelsPlaced, [Next]_vars,
                    NEW a \in DOMAIN labels', ~ IsCodeLabel(a)',
                    a \notin get_fixup_addresses
             PROVE  HasKind(regions', a, "DATA") \/ IsCode(a)'
  BY WhatChanges DEF LabelsPlaced, get_fixup_addresses, FixupSites, FixupAddress,
     Objects
<1>1. a \in DOMAIN labels
  <2>1. ASSUME NEW b \in Address, NEW label \in CodeLabels,
               labels' = set_label(labels, b, label)
        PROVE  a \in DOMAIN labels
    <3>1. a # b
      BY <2>1, SetCodeLabel DEF Inv, CodeLabels
    <3> QED
      BY <2>1, <3>1 DEF set_label
  <2>2. CASE InsertVtable
    <3>1. a # scan.address
      BY <2>2 DEF ScanInside, InsertVtable
    <3> QED
      BY <2>2, <3>1 DEF InsertVtable, set_label
  <2>3. CASE LabelData
    <3>1. a # FixupAddress(CurrentSite)
      BY <2>3, CurrentSiteFound DEF LabelData, get_fixup_addresses, Inv
    <3> QED
      BY <2>3, <3>1 DEF LabelData, set_label
  <2> QED
    BY <2>1, <2>2, <2>3, LabelStep
<1>2. ~ IsCodeLabel(a)
  BY CodeLabelsStep DEF vars, IsCodeLabel
<1>3. HasKind(regions, a, "DATA") \/ IsCode(a)
  BY <1>1, <1>2 DEF LabelsPlaced
<1>4. a \in Int
  BY <1>1, AddrSpaceAssumption DEF Inv, TypeOK, Address
<1>5. CASE InsertCode
  BY <1>3, <1>4, <1>5, CodeInserted
<1>6. CASE InsertVtable
  BY <1>3, <1>4, <1>6, VtableInserted
<1>7. CASE regions' = regions
  BY <1>3, <1>7 DEF IsCode
<1> QED
  BY <1>5, <1>6, <1>7, WhatChanges

\* Where vtables begin they have labels to be printed with.
VtablesLabelled ==
    \A b \in get_fixup_addresses : IsVtable(b) => b \in DOMAIN labels

\* The word at the address is one the printer can print in a vtable.
IsEntry(a) == read_le(a) = 0 \/ read_le(a) \in DOMAIN labels

\* The words the scan has gone over are entries.
ScanEntries ==
    pc \in {"scan", "insert_vtable"} =>
        \A j \in Nat : j < scan.count => IsEntry(scan.address + WordSize * j)

\* Counted from any target of a relocation, every word of a vtable is one.
EntriesLabelled ==
    \A from \in get_fixup_addresses, a \in Int :
        from <= a /\ InStep(from, a) /\ VtableFrom(from, a + 1) => IsEntry(a)

VtableInv ==
    VtableBytes /\ ScanInside /\ ScanEntries /\ LabelsPlaced
    /\ VtablesLabelled /\ EntriesLabelled

LEMMA EntriesStay ==
    ASSUME [Next]_vars, NEW a, IsEntry(a)
    PROVE  IsEntry(a)'
<1>1. read_le(a)' = read_le(a) /\ DOMAIN labels \subseteq DOMAIN labels'
  BY WhatChanges, LabelsGrow DEF vars, read_le
<1> QED
  BY <1>1 DEF IsEntry

LEMMA ScanEntriesStep == Inv /\ ScanEntries /\ [Next]_vars => ScanEntries'
<1> SUFFICES ASSUME Inv, ScanEntries, [Next]_vars PROVE ScanEntries'
  OBVIOUS
<1>1. CASE StartScan
  BY <1>1 DEF StartScan, ScanEntries
<1>2. CASE ScanEntry
  <2> PICK at : at = scan.address + WordSize * scan.count
    OBVIOUS
  <2>1. /\ pc = "scan" /\ scan'.address = scan.address
        /\ scan'.count = scan.count + 1 /\ scan.count \in Nat
    BY <1>2 DEF ScanEntry, Inv, TypeOK
  <2>2. IsEntry(at)'
    <3>1. read_le(at)' = read_le(at) /\ ScanAddress = at
      BY <1>2 DEF ScanEntry, read_le, ScanAddress
    <3>2. read_le(at) # 0 => read_le(at) \in DOMAIN labels'
      BY <1>2, <3>1 DEF ScanEntry, set_label
    <3> QED
      BY <3>1, <3>2 DEF IsEntry
  <2>3. ASSUME NEW j \in Nat, j < scan.count + 1
        PROVE  IsEntry(scan.address + WordSize * j)'
    <3>1. CASE j < scan.count
      BY <2>1, <3>1, EntriesStay DEF ScanEntries
    <3>2. CASE j = scan.count
      <4>1. scan.address + WordSize * j = at
        BY <3>2
      <4> QED
        BY <2>1, <2>2, <4>1 DEF IsEntry, read_le
    <3> QED
      BY <2>1, <2>3, <3>1, <3>2
  <2> QED
    BY <2>1, <2>3 DEF ScanEntries, IsEntry, read_le
<1>3. CASE pc \in {"scan", "insert_vtable"} /\ (VtableFound \/ UNCHANGED vars)
  <2>1. scan' = scan
    BY <1>3 DEF VtableFound, vars
  <2>2. ASSUME NEW j \in Nat, j < scan.count
        PROVE  IsEntry(scan.address + WordSize * j)'
    <3>1. PICK at : at = scan.address + WordSize * j
      OBVIOUS
    <3>2. IsEntry(at)'
      BY <1>3, <2>2, <3>1, EntriesStay DEF ScanEntries
    <3> QED
      BY <2>1, <3>1, <3>2 DEF IsEntry, read_le
  <2> QED
    BY <2>1, <2>2 DEF ScanEntries, IsEntry, read_le
<1>4. \/ pc' \notin {"scan", "insert_vtable"} \/ StartScan \/ ScanEntry
      \/ pc \in {"scan", "insert_vtable"} /\ (VtableFound \/ UNCHANGED vars)
  BY DEF Next, vars, add_eip_to_trace_queue, trace_code, trace_code_at_address,
     trace_vtables, trace_remaining_relocs, SkipQueued, StartTrace, EntryTraced,
     FixupTraced, DecodeInstruction, RegionExhausted, InsertCode, SkipVtable,
     StartScan, ScanEntry, NoVtable, VtableFound, InsertVtable, VtablesDone,
     SkipReloc, TraceReloc, LabelData, RelocsDone
<1> QED
  BY <1>1, <1>2, <1>3, <1>4 DEF ScanEntries

\* The words of a vtable that has been found, and of those it is joined with,
\* are counted in step.
LEMMA EntriesVtable ==
    ASSUME Inv, VtableInv, InsertVtable
    PROVE  EntriesLabelled'
<1> PICK from, to : from = scan.address /\ to = scan.address + WordSize * scan.count
  OBVIOUS
<1>1. /\ from \in Nat /\ to \in Nat /\ from < to /\ InStep(from, to)
      /\ to <= from + scan.size /\ scan.size \in Nat
      /\ \A a \in Int :
            /\ IsVtable(a)' <=> IsVtable(a) \/ (from <= a /\ a < to)
            /\ IsCode(a)' <=> IsCode(a)
            /\ from <= a /\ a < to => ~ IsVtable(a) /\ ~ IsCode(a)
  BY VtableInserted
<1>2. /\ get_fixup_addresses' = get_fixup_addresses
      /\ get_fixup_addresses \subseteq Int
  <2>1. get_fixup_addresses' = get_fixup_addresses
    BY DEF InsertVtable, get_fixup_addresses, FixupSites, FixupAddress, Objects
  <2> QED
    BY <2>1, FixupTargets, AddrSpaceAssumption DEF Inv, Address
<1>3. /\ from \in get_fixup_addresses
      /\ \A a \in get_fixup_addresses : ~ (from < a /\ a < to)
  BY <1>1, <1>2 DEF VtableInv, ScanInside, InsertVtable
<1>4. [Next]_vars
  BY DEF Next, trace_vtables
<1> SUFFICES ASSUME NEW low \in get_fixup_addresses, NEW a \in Int,
                    low <= a, InStep(low, a), VtableFrom(low, a + 1)'
             PROVE  IsEntry(a)
  BY <1>2, <1>4, EntriesStay DEF EntriesLabelled, InStep
<1>5. low \in Int /\ ~ (from < low /\ low < to)
  BY <1>2, <1>3
<1>6. CASE a < from \/ to <= low
  <2>1. VtableFrom(low, a + 1)
    BY <1>1, <1>5, <1>6 DEF VtableFrom
  <2> QED
    BY <2>1 DEF VtableInv, EntriesLabelled
<1>7. CASE from <= a /\ low < to
  <2>1. low <= from
    BY <1>1, <1>5, <1>7
  <2>2. InStep(low, from)
    <3>1. CASE low = from
      BY <1>1, <3>1, NoStep
    <3>2. CASE low < from
      <4>1. VtableFrom(low, from)' /\ ~ IsCode(from)'
        BY <1>1, <1>5, <1>7, <3>2 DEF VtableFrom
      <4>2. VtablesWhole'
        BY VtableBytesVtable DEF VtableInv, VtableBytes
      <4> QED
        BY <1>1, <1>2, <1>3, <3>2, <4>1, <4>2 DEF VtablesWhole, InStep
    <3> QED
      BY <1>1, <1>5, <2>1, <3>1, <3>2
  <2>3. CASE a < to
    <3>1. InStep(from, a)
      BY <1>5, <1>7, <2>2, StepBetween
    <3>2. PICK m \in Nat : a = from + WordSize * m
      BY <3>1 DEF InStep
    <3>3. m < scan.count
      <4>1. scan.count \in Nat /\ WordSize * m < WordSize * scan.count
        <5>1. scan.count \in Nat
          BY DEF Inv, TypeOK
        <5>2. WordSize * m \in Nat /\ WordSize * scan.count \in Nat
          BY <5>1, WordSizeAssumption
        <5> QED
          BY <1>1, <2>3, <3>2, <5>1, <5>2
      <4>2. ASSUME scan.count <= m PROVE FALSE
        <5>1. PICK d \in Nat : m = scan.count + d
          <6>1. m - scan.count \in Nat /\ m = scan.count + (m - scan.count)
            BY <4>1, <4>2
          <6> QED
            BY <6>1
        <5>2. WordSize * m = WordSize * scan.count + WordSize * d
          BY <4>1, <5>1, WordSizeAssumption
        <5>3. WordSize * d \in Nat /\ WordSize * scan.count \in Nat
          BY <4>1, WordSizeAssumption
        <5> QED
          BY <4>1, <5>2, <5>3
      <4> QED
        BY <4>1, <4>2
    <3> QED
      BY <3>2, <3>3 DEF VtableInv, ScanEntries, InsertVtable
  <2>4. CASE to <= a
    <3>1. InStep(to, a)
      <4>1. InStep(low, to)
        BY <1>1, <1>5, <2>2, StepOn
      <4> QED
        BY <1>5, <2>4, <4>1, StepBetween
    <3>2. VtableFrom(to, a + 1)
      BY <1>1, <1>5, <1>7 DEF VtableFrom
    <3>3. to \in get_fixup_addresses
      <4>1. IsVtable(to)
        BY <1>1, <2>4, <3>2 DEF VtableFrom
      <4>2. to - 1 \in Int /\ ~ IsVtable(to - 1) /\ ~ IsCode(to - 1)
        BY <1>1
      <4> QED
        BY <1>1, <4>1, <4>2 DEF VtableInv, VtableBytes, VtablesBegin
    <3> QED
      BY <2>4, <3>1, <3>2, <3>3 DEF VtableInv, EntriesLabelled
  <2> QED
    BY <1>1, <2>3, <2>4
<1> QED
  BY <1>1, <1>5, <1>6, <1>7

LEMMA VtableInvStep == Inv /\ VtableInv /\ [Next]_vars => VtableInv'
<1> SUFFICES ASSUME Inv, VtableInv, [Next]_vars PROVE VtableInv'
  OBVIOUS
<1>1. /\ get_fixup_addresses' = get_fixup_addresses
      /\ get_fixup_addresses \subseteq Int
      /\ DOMAIN labels \subseteq DOMAIN labels'
  <2>1. get_fixup_addresses' = get_fixup_addresses
    BY WhatChanges DEF get_fixup_addresses, FixupSites, FixupAddress, Objects
  <2>2. DOMAIN labels \subseteq DOMAIN labels'
    BY LabelsGrow DEF vars
  <2> QED
    BY <2>1, <2>2, FixupTargets, AddrSpaceAssumption DEF Inv, Address
<1>2. VtableBytes' /\ VtablesLabelled' /\ EntriesLabelled'
  <2>1. CASE InsertCode
    <3>1. ASSUME NEW b \in get_fixup_addresses, IsVtable(b)' PROVE b \in DOMAIN labels'
      BY <1>1, <2>1, <3>1, CodeInserted DEF VtableInv, VtablesLabelled
    <3>2. ASSUME NEW from \in get_fixup_addresses, NEW a \in Int, from <= a,
                 InStep(from, a), VtableFrom(from, a + 1)'
          PROVE  IsEntry(a)'
      <4>1. VtableFrom(from, a + 1)
        BY <2>1, <3>2, CodeInserted DEF VtableFrom
      <4> QED
        BY <3>2, <4>1, EntriesStay DEF VtableInv, EntriesLabelled
    <3>3. VtableBytes'
      BY <2>1, VtableBytesCode DEF VtableInv
    <3> QED
      BY <1>1, <3>1, <3>2, <3>3 DEF VtablesLabelled, EntriesLabelled, InStep
  <2>2. CASE InsertVtable
    <3>1. ASSUME NEW b \in get_fixup_addresses, IsVtable(b)' PROVE b \in DOMAIN labels'
      <4> PICK from, to : /\ from = scan.address
                          /\ to = scan.address + WordSize * scan.count
        OBVIOUS
      <4>1. /\ from \in Nat /\ to \in Nat /\ to <= from + scan.size /\ scan.size \in Nat
            /\ IsVtable(b) \/ (from <= b /\ b < to)
        BY <1>1, <2>2, <3>1, VtableInserted
      <4>2. IsVtable(b) \/ b = from
        BY <1>1, <2>2, <4>1 DEF VtableInv, ScanInside, InsertVtable
      <4> QED
        BY <1>1, <2>2, <4>2 DEF VtableInv, VtablesLabelled, InsertVtable, set_label
    <3>2. VtableBytes' /\ EntriesLabelled'
      BY <2>2, VtableBytesVtable, EntriesVtable DEF VtableInv
    <3> QED
      BY <1>1, <3>1, <3>2 DEF VtablesLabelled
  <2>3. CASE regions' = regions
    <3>1. /\ \A a : IsVtable(a)' <=> IsVtable(a)
          /\ \A a : IsCode(a)' <=> IsCode(a)
          /\ \A a : TouchAt(regions', a) <=> TouchAt(regions, a)
          /\ \A lo, hi : VtableFrom(lo, hi)' <=> VtableFrom(lo, hi)
          /\ \A a : IsEntry(a) => IsEntry(a)'
      BY <2>3, EntriesStay DEF IsVtable, IsCode, VtableFrom
    <3>2. VtableBytes'
      BY <1>1, <3>1 DEF VtableInv, VtableBytes, VtablesJoined, VtablesBegin,
         VtablesWhole, InStep
    <3>3. VtablesLabelled'
      BY <1>1, <3>1 DEF VtableInv, VtablesLabelled
    <3>4. EntriesLabelled'
      BY <1>1, <3>1 DEF VtableInv, EntriesLabelled, InStep
    <3> QED
      BY <3>2, <3>3, <3>4
  <2> QED
    BY <2>1, <2>2, <2>3, WhatChanges
<1>3. ScanInside' /\ ScanEntries' /\ LabelsPlaced'
  BY ScanInsideStep, ScanEntriesStep, LabelsPlacedStep DEF VtableInv
<1> QED
  BY <1>2, <1>3 DEF VtableInv

\* Before the run there is no vtable.
LEMMA VtableInvStart ==
    ASSUME TypeOK, \A k \in DOMAIN regions : regions[k].type # "VTABLE",
           LabelsPlaced, pc = "run"
    PROVE  VtableInv
<1>1. \A a : ~ IsVtable(a)
  BY DEF IsVtable, HasKind
<1>2. VtableBytes
  BY VtableBytesInit
<1>3. ScanInside /\ ScanEntries
  BY DEF ScanInside, ScanEntries
<1>4. VtablesLabelled
  BY <1>1 DEF VtablesLabelled
<1>5. get_fixup_addresses \subseteq Int
  BY FixupTargets, AddrSpaceAssumption DEF Address
<1>6. ASSUME NEW from \in Int, NEW a \in Int, from <= a PROVE ~ VtableFrom(from, a + 1)
  <2>1. from <= from /\ from < a + 1
    BY <1>6
  <2> QED
    BY <1>1, <2>1 DEF VtableFrom
<1>7. EntriesLabelled
  BY <1>5, <1>6 DEF EntriesLabelled
<1> QED
  BY <1>2, <1>3, <1>4, <1>7 DEF VtableInv

\* Vtables are made of whole words from the targets of relocations on, each
\* of them nothing or the address of a label, although they are joined with
\* others and cut by code (trace_vtables, insert_region).
THEOREM VtablesInStep == Spec => []VtableInv
<1>1. Init => Inv /\ VtableInv
  <2> SUFFICES ASSUME Init PROVE Inv /\ VtableInv
    OBVIOUS
  <2>1. Inv /\ TypeOK /\ pc = "run"
    BY InitInv DEF Inv, Init
  <2>2. IsExecutable(exe) /\ regions = InitialRegions(exe)
    BY ExecutablesAssumption DEF Init
  <2>3. \A k \in DOMAIN regions : regions[k].type # "VTABLE"
    BY <2>2, InitialPartition
  <2> QED
    BY <2>1, <2>3, LabelsPlacedInit, VtableInvStart
<1> QED
  BY <1>1, InvHolds, VtableInvStep, PTL DEF Spec

=============================================================================
