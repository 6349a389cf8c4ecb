--------------------------- MODULE Printer_proofs ---------------------------
(***************************************************************************)
(* The listing: print_code comes to the regions in order, and print_region *)
(* to the addresses of each, so that what has been written is known from   *)
(* how far they have come.                                                 *)
(***************************************************************************)
EXTENDS Printer, KnownFile_proofs

-----------------------------------------------------------------------------
(* What is written into a listing.                                         *)

Listings == Seq([address : Nat, size : Nat, refs : SUBSET Address])

Covers(list, a) ==
    \E i \in DOMAIN list :
        list[i].address <= a /\ a < list[i].address + list[i].size

HasLabel(list, a) == \E i \in DOMAIN list : list[i].size = 0 /\ list[i].address = a

HasLine(list, a) == \E i \in DOMAIN list : list[i].size > 0 /\ list[i].address = a

InOrder(list) ==
    \A i, j \in DOMAIN list : i < j => list[i].address + list[i].size <= list[j].address

EndsBy(list, a) == \A i \in DOMAIN list : list[i].address + list[i].size <= a

LabelsOnce(list) ==
    \A i, j \in DOMAIN list :
        list[i].size = 0 /\ list[j].size = 0 /\ list[i].address = list[j].address
            => i = j

\* The new list has a label at the address in front of `size' bytes, or no
\* label, or no bytes.
Written(list, new, a, size, labelled) ==
    /\ new \in Listings
    /\ \A b \in Int : Covers(new, b) <=> Covers(list, b) \/ (a <= b /\ b < a + size)
    /\ \A b : HasLabel(new, b) <=> HasLabel(list, b) \/ (labelled /\ b = a)
    /\ \A b : HasLine(new, b) <=> HasLine(list, b) \/ (size > 0 /\ b = a)
    /\ InOrder(list) /\ EndsBy(list, a) => InOrder(new) /\ EndsBy(new, a + size)
    /\ LabelsOnce(list) /\ (labelled => ~ HasLabel(list, a)) => LabelsOnce(new)

LEMMA ListingItems ==
    ASSUME NEW list \in Listings
    PROVE  \A i \in DOMAIN list :
                i \in Nat /\ list[i].address \in Nat /\ list[i].size \in Nat
<1> DEFINE Item == [address : Nat, size : Nat, refs : SUBSET Address]
<1>1. \A x \in Item : x.address \in Nat /\ x.size \in Nat
  OBVIOUS
<1>2. list \in Seq(Item)
  BY DEF Listings
<1> HIDE DEF Item
<1> QED
  BY <1>1, <1>2, SeqElements

\* No line is added, or one is, at the address, and no label is lost.
SameLines(list, new) ==
    \A b : /\ HasLine(new, b) <=> HasLine(list, b)
           /\ HasLabel(list, b) => HasLabel(new, b)

LineAt(list, new, a) ==
    \A b : /\ HasLine(new, b) <=> HasLine(list, b) \/ b = a
           /\ HasLabel(list, b) => HasLabel(new, b)

LEMMA PrintedAddress ==
    ASSUME NEW list \in Listings, NEW a, HasLabel(list, a) \/ HasLine(list, a)
    PROVE  a \in Nat
BY ListingItems DEF HasLabel, HasLine

LEMMA LineWritten ==
    ASSUME NEW list \in Listings, NEW a \in Nat, NEW size \in Nat,
           NEW refs \in SUBSET Address, NEW new, new = list \o print_line(a, size, refs)
    PROVE  Written(list, new, a, size, size = 0)
<1> PICK n : n = Len(list) + 1
  OBVIOUS
<1>1. /\ new \in Listings
      /\ DOMAIN list = 1 .. n - 1 /\ n \in Nat \ {0}
      /\ DOMAIN new = 1 .. n
      /\ \A i \in DOMAIN list : new[i] = list[i]
      /\ new[n].address = a
      /\ new[n].size = size
  <2> DEFINE Item == [address : Nat, size : Nat, refs : SUBSET Address]
             item == [address |-> a, size |-> size, refs |-> refs]
  <2>1. item \in Item
    OBVIOUS
  <2>2. item.address = a /\ item.size = size
    OBVIOUS
  <2>3. list \in Seq(Item) /\ new = list \o <<item>>
    BY DEF Listings, print_line
  <2>4. Listings = Seq(Item)
    BY DEF Listings
  <2> HIDE DEF Item, item
  <2>5. <<item>> \in Seq(Item) /\ Len(<<item>>) = 1 /\ <<item>>[1] = item
    BY <2>1
  <2>6. new \in Seq(Item) /\ Len(new) = Len(list) + 1
    BY <2>1, <2>3, <2>5
  <2>7. /\ DOMAIN list = 1 .. Len(list) /\ Len(list) \in Nat
        /\ DOMAIN new = 1 .. Len(new)
    BY <2>3, <2>6, SeqDomain
  <2>8. \A i \in 1 .. Len(list) : new[i] = list[i]
    BY <2>1, <2>3, <2>5
  <2>9. new[Len(list) + 1] = item
    BY <2>1, <2>3, <2>5
  <2>10. n \in Nat \ {0} /\ Len(list) = n - 1 /\ Len(new) = n
    BY <2>6, <2>7
  <2> QED
    BY <2>2, <2>4, <2>6, <2>7, <2>8, <2>9, <2>10
<1>2. \A i \in DOMAIN list :
        i \in Nat /\ i # n /\ list[i].address \in Nat /\ list[i].size \in Nat
  BY <1>1, ListingItems
<1>3. /\ n \in DOMAIN new
      /\ \A i \in DOMAIN list : i \in DOMAIN new
      /\ \A i \in DOMAIN new : i = n \/ i \in DOMAIN list
      /\ \A i \in DOMAIN list : i < n
  BY <1>1
<1>4. \A b \in Int : Covers(new, b) <=> Covers(list, b) \/ (a <= b /\ b < a + size)
  BY <1>1, <1>3 DEF Covers
<1>5. \A b : HasLabel(new, b) <=> HasLabel(list, b) \/ (size = 0 /\ b = a)
  BY <1>1, <1>3 DEF HasLabel
<1>6. \A b : HasLine(new, b) <=> HasLine(list, b) \/ (size > 0 /\ b = a)
  BY <1>1, <1>3 DEF HasLine
<1>7. ASSUME InOrder(list), EndsBy(list, a)
      PROVE  InOrder(new) /\ EndsBy(new, a + size)
  <2>1. \A i \in DOMAIN list : list[i].address + list[i].size <= a
    BY <1>7 DEF EndsBy
  <2>2. EndsBy(new, a + size)
    BY <1>1, <1>2, <1>3, <2>1 DEF EndsBy
  <2>3. ASSUME NEW i \in DOMAIN new, NEW j \in DOMAIN new, i < j
        PROVE  new[i].address + new[i].size <= new[j].address
    <3>1. i \in DOMAIN list
      BY <1>1, <2>3
    <3>2. CASE j = n
      BY <1>1, <2>1, <3>1, <3>2
    <3>3. CASE j # n
      BY <1>1, <1>3, <1>7, <2>3, <3>1, <3>3 DEF InOrder
    <3> QED
      BY <3>2, <3>3
  <2> QED
    BY <2>2, <2>3 DEF InOrder
<1>8. ASSUME LabelsOnce(list), size = 0 => ~ HasLabel(list, a) PROVE LabelsOnce(new)
  BY <1>1, <1>3, <1>8 DEF LabelsOnce, HasLabel
<1> QED
  BY <1>1, <1>4, <1>5, <1>6, <1>7, <1>8 DEF Written

LEMMA NothingWritten ==
    ASSUME NEW list \in Listings, NEW a \in Nat
    PROVE  Written(list, list, a, 0, FALSE)
<1>1. a + 0 = a /\ \A b \in Int : ~ (a <= b /\ b < a + 0)
  OBVIOUS
<1> QED
  BY <1>1 DEF Written

\* A label, if there is one, and the line behind it.
LEMMA LabelAndLine ==
    ASSUME NEW list \in Listings, NEW a \in Nat, NEW size \in Nat \ {0},
           NEW labelled \in BOOLEAN, NEW mid, NEW new,
           Written(list, mid, a, 0, labelled), Written(mid, new, a, size, FALSE)
    PROVE  Written(list, new, a, size, labelled)
<1>1. a + 0 = a /\ \A b \in Int : ~ (a <= b /\ b < a + 0)
  OBVIOUS
<1>2. new \in Listings /\ mid \in Listings
  BY DEF Written
<1>3. \A b \in Int : Covers(new, b) <=> Covers(list, b) \/ (a <= b /\ b < a + size)
  BY <1>1 DEF Written
<1>4. \A b : HasLabel(new, b) <=> HasLabel(list, b) \/ (labelled /\ b = a)
  BY DEF Written
<1>5. \A b : HasLine(new, b) <=> HasLine(list, b) \/ (size > 0 /\ b = a)
  BY DEF Written
<1>6. InOrder(list) /\ EndsBy(list, a) => InOrder(new) /\ EndsBy(new, a + size)
  BY <1>1 DEF Written
<1>7. LabelsOnce(list) /\ (labelled => ~ HasLabel(list, a)) => LabelsOnce(new)
  BY DEF Written
<1> QED
  BY <1>2, <1>3, <1>4, <1>5, <1>6, <1>7 DEF Written

LEMMA LabelWritten ==
    ASSUME NEW list \in Listings, NEW a \in Nat
    PROVE  /\ Written(list, list \o print_label(a), a, 0, TRUE)
           /\ Written(list, list \o print_label_at(a), a, 0, a \in DOMAIN labels)
<1>1. Written(list, list \o print_label(a), a, 0, TRUE)
  BY LineWritten, {} \in SUBSET Address DEF print_label
<1>2. CASE a \in DOMAIN labels
  BY <1>1, <1>2 DEF print_label_at
<1>3. CASE a \notin DOMAIN labels
  <2>1. list \o <<>> = list
    BY DEF Listings
  <2>2. list \o print_label_at(a) = list
    BY <1>3, <2>1 DEF print_label_at
  <2>3. (a \in DOMAIN labels) = FALSE
    BY <1>3
  <2>4. Written(list, list, a, 0, FALSE)
    BY NothingWritten
  <2> QED
    BY <1>1, <2>2, <2>3, <2>4
<1> QED
  BY <1>1, <1>2, <1>3

-----------------------------------------------------------------------------
(* Where the printer is, and what the listing then holds.                  *)

Running == loop \in {"region", "lines", "piece", "after", "end"}

\* What the regions before this address have to say has been printed.
Cursor ==
    IF loop = "region" THEN (IF reg = NULL THEN 0 ELSE reg)
    ELSE IF loop \in {"lines", "piece"} /\ addr < End THEN addr
    ELSE End

Place ==
    /\ loop \in {"region", "lines", "piece", "after", "end", "crashed", "aborted"}
    /\ listing \in Listings
    /\ stage # "print" => reg = NULL
    /\ reg = NULL => loop = "region" /\ listing = <<>>
    /\ reg # NULL => reg \in DOMAIN regions
    /\ loop \in {"lines", "piece"} =>
        /\ addr \in Nat /\ reg <= addr
        /\ Type # "UNKNOWN"
        /\ Type # "VTABLE" => addr <= End
    /\ loop = "piece" =>
        /\ Type = "DATA"
        /\ len \in Nat /\ addr + len <= End
        /\ \A a \in DOMAIN labels : ~ (addr < a /\ a < addr + len)
    /\ loop = "lines" /\ Type = "VTABLE" =>
        /\ \E m \in Nat : addr = reg + WordSize * m
        /\ next_label # NULL => next_label \in Nat /\ reg < next_label
    /\ loop = "end" => NextRegion = NULL

WholeVtables ==
    \A k \in DOMAIN regions :
        regions[k].type = "VTABLE" => regions[k].size % WordSize = 0

IsListed(a) == IsMapped(regions, a) /\ ~ HasKind(regions, a, "UNKNOWN")

\* Everything before the cursor is in the listing, and in order, as long as no
\* word of a vtable runs over its end.
PrintedSoFar ==
    WholeVtables =>
        /\ InOrder(listing)
        /\ loop \in {"lines", "piece"} => addr <= End
        /\ Running => EndsBy(listing, Cursor)
        /\ Running => \A a \in Int : Covers(listing, a) <=> a < Cursor /\ IsListed(a)

\* The addresses that may have been given their label.
MayBeLabelled(a) ==
    /\ loop = "region" => a < reg
    /\ loop = "lines" => a < End /\ (a < addr \/ (Type = "VTABLE" /\ a = reg))
    /\ loop = "piece" => a < addr \/ (a = addr /\ len > 0)
    /\ loop = "after" => a < End

LabelsSoFar ==
    /\ LabelsOnce(listing)
    /\ Running =>
        /\ \A a : HasLabel(listing, a) => MayBeLabelled(a)
        /\ \A a : HasLine(listing, a) => a < Cursor
        /\ \A a \in DOMAIN labels :
            a < Cursor /\ HasKind(regions, a, "DATA") => HasLine(listing, a)
        /\ \A a \in DOMAIN labels :
            HasLine(listing, a)
            /\ (HasKind(regions, a, "CODE") \/ HasKind(regions, a, "DATA"))
                => HasLabel(listing, a)
    /\ loop = "piece" /\ len > 0 /\ addr \in DOMAIN labels => HasLabel(listing, addr)

ListingInv == Place /\ PrintedSoFar /\ LabelsSoFar

LEMMA PrintFacts ==
    ASSUME KnownInv, stage = "print"
    PROVE  TypeOK /\ RegionsPartition /\ WellFormed(regions)
BY DEF KnownInv, RegionsPartition

\* The region in print.
LEMMA RegionInPrint ==
    ASSUME WellFormed(regions), reg \in DOMAIN regions
    PROVE  /\ reg \in Nat /\ reg # NULL /\ End \in Nat /\ reg < End /\ End < AddrSpace
           /\ End = reg + regions[reg].size
           /\ Type \in RegionType
           /\ \A a \in Int : reg <= a /\ a < End =>
                /\ IsMapped(regions, a)
                /\ \A t : HasKind(regions, a, t) <=> t = Type
<1>1. /\ reg \in Nat /\ regions[reg].address = reg
      /\ regions[reg].size \in Nat \ {0}
      /\ End = reg + regions[reg].size /\ End \in Address
  BY EndAddress DEF End
<1>2. reg < End /\ End < AddrSpace /\ End \in Nat /\ reg # NULL
  BY <1>1, AddrSpaceAssumption, NullAssumption DEF Address
<1>3. Type \in RegionType
  BY DEF WellFormed, RegionSet, Type
<1>4. ASSUME NEW a \in Int, reg <= a, a < End
      PROVE  IsMapped(regions, a) /\ \A t : HasKind(regions, a, t) <=> t = Type
  <2>1. InRegion(regions, reg, a)
    BY <1>1, <1>4 DEF InRegion
  <2>2. IsMapped(regions, a) /\ HasKind(regions, a, Type)
    BY <2>1 DEF IsMapped, HasKind, Type
  <2> QED
    BY <2>2, OneKind
<1> QED
  BY <1>1, <1>2, <1>3, <1>4

\* Nothing is mapped between two regions.
LEMMA BehindRegion ==
    ASSUME WellFormed(regions), reg \in DOMAIN regions
    PROVE  \/ /\ NextRegion = NULL
              /\ \A a \in Int : End <= a => ~ IsMapped(regions, a)
           \/ /\ NextRegion # NULL /\ NextRegion \in DOMAIN regions
              /\ NextRegion \in Nat /\ End <= NextRegion
              /\ \A a \in Int : End <= a /\ a < NextRegion => ~ IsMapped(regions, a)
<1>1. \A k \in DOMAIN regions :
        /\ k \in Nat /\ regions[k].address = k /\ regions[k].size \in Nat \ {0}
  BY EndAddress
<1>2. \/ NextRegion = NULL /\ \A k \in DOMAIN regions : ~ (reg < k)
      \/ /\ NextRegion \in DOMAIN regions /\ NextRegion # NULL /\ reg < NextRegion
         /\ \A k \in DOMAIN regions : reg < k => NextRegion <= k
  BY <1>1, NextValue DEF NextRegion
<1>3. \A k \in DOMAIN regions : k < reg => k + regions[k].size <= reg
  BY DEF WellFormed
<1>4. \A k \in DOMAIN regions : reg < k => End <= k
  BY RegionInPrint DEF WellFormed
<1>5. \A a, k \in Int :
        k \in DOMAIN regions /\ InRegion(regions, k, a) /\ End <= a => reg < k
  <2> SUFFICES ASSUME NEW a \in Int, NEW k \in DOMAIN regions,
                      InRegion(regions, k, a), End <= a
               PROVE  reg < k
    OBVIOUS
  <2>1. k <= a /\ a < k + regions[k].size
    BY <1>1 DEF InRegion
  <2>2. End = reg + regions[reg].size /\ reg < End /\ End \in Nat /\ reg \in Nat
    BY RegionInPrint
  <2> QED
    BY <1>1, <1>3, <2>1, <2>2
<1>6. \A a, k \in Int :
        k \in DOMAIN regions /\ InRegion(regions, k, a) => k <= a
  BY <1>1 DEF InRegion
<1> QED
  BY <1>1, <1>2, <1>4, <1>5, <1>6, RegionInPrint DEF IsMapped

-----------------------------------------------------------------------------
(* The steps of the printer.                                               *)

\* What print_code leaves alone.
LEMMA PrintFrame ==
    ASSUME UNCHANGED kvars
    PROVE  /\ stage' = stage /\ exe' = exe /\ regions' = regions /\ labels' = labels
           /\ traced' = traced
           /\ WholeVtables' = WholeVtables
           /\ \A a : IsListed(a)' <=> IsListed(a)
           /\ reg' = reg => Type' = Type /\ End' = End /\ NextRegion' = NextRegion
BY DEF kvars, vars, WholeVtables, IsListed, Type, End, NextRegion

\* A line that ends in its region, with the label in front of it.
LEMMA LinePrinted ==
    ASSUME KnownInv, ListingInv, stage = "print", reg # NULL, UNCHANGED kvars,
           loop \in {"lines", "piece"}, addr < End,
           reg' = reg, loop' = loop,
           NEW size \in Nat \ {0}, NEW labelled \in BOOLEAN,
           Written(listing, listing', addr, size, labelled),
           addr' = addr + size,
           Type # "VTABLE" => addr + size <= End,
           WholeVtables => addr + size <= End,
           labelled => ~ HasLabel(listing, addr),
           addr \in DOMAIN labels /\ Type # "VTABLE" =>
                labelled \/ HasLabel(listing, addr),
           Type = "DATA" => \A a \in DOMAIN labels : ~ (addr < a /\ a < addr + size),
           loop = "piece" => len' = len - size /\ size <= len
    PROVE  PrintedSoFar' /\ LabelsSoFar'
<1>1. /\ WellFormed(regions) /\ reg \in DOMAIN regions /\ TypeOK
      /\ addr \in Nat /\ reg <= addr /\ Type # "UNKNOWN"
      /\ loop = "piece" =>
            /\ Type = "DATA" /\ len \in Nat
            /\ \A a \in DOMAIN labels : ~ (addr < a /\ a < addr + len)
  BY PrintFacts DEF ListingInv, Place
<1>2. /\ regions' = regions /\ labels' = labels /\ WholeVtables' = WholeVtables
      /\ \A a : IsListed(a)' <=> IsListed(a)
      /\ Type' = Type /\ End' = End
  BY PrintFrame
<1>3. /\ reg \in Nat /\ End \in Nat /\ reg < End
      /\ \A a \in Int : reg <= a /\ a < End =>
            /\ IsMapped(regions, a)
            /\ \A t : HasKind(regions, a, t) <=> t = Type
  BY <1>1, RegionInPrint
<1>4. Cursor = addr /\ Cursor' = IF addr + size < End THEN addr + size ELSE End
  BY <1>2 DEF Cursor
<1>5. Running /\ Running'
  BY DEF Running
<1>6. DOMAIN labels \subseteq Nat
  BY <1>1 DEF TypeOK, Address
<1>7. PrintedSoFar'
  <2> SUFFICES ASSUME WholeVtables
               PROVE  /\ InOrder(listing')
                      /\ addr' <= End'
                      /\ EndsBy(listing', Cursor')
                      /\ \A a \in Int : Covers(listing', a) <=>
                            a < Cursor' /\ IsListed(a)'
    BY <1>2, <1>5 DEF PrintedSoFar
  <2>1. /\ InOrder(listing) /\ EndsBy(listing, addr)
        /\ \A a \in Int : Covers(listing, a) <=> a < addr /\ IsListed(a)
    BY <1>4, <1>5 DEF ListingInv, PrintedSoFar
  <2>2. addr + size <= End /\ Cursor' = addr + size
    BY <1>1, <1>3, <1>4
  <2>3. InOrder(listing') /\ EndsBy(listing', Cursor')
    BY <2>1, <2>2 DEF Written
  <2>4. \A a \in Int : addr <= a /\ a < addr + size => IsListed(a)
    BY <1>1, <1>3, <2>2 DEF IsListed
  <2>5. \A a \in Int : Covers(listing', a) <=>
            Covers(listing, a) \/ (addr <= a /\ a < addr + size)
    BY DEF Written
  <2> QED
    BY <1>1, <1>2, <2>1, <2>2, <2>3, <2>4, <2>5
<1>8. LabelsSoFar'
  <2>1. /\ LabelsOnce(listing)
        /\ \A a : HasLabel(listing, a) => MayBeLabelled(a)
        /\ \A a : HasLine(listing, a) => a < addr
        /\ \A a \in DOMAIN labels :
            a < addr /\ HasKind(regions, a, "DATA") => HasLine(listing, a)
        /\ \A a \in DOMAIN labels :
            HasLine(listing, a)
            /\ (HasKind(regions, a, "CODE") \/ HasKind(regions, a, "DATA"))
                => HasLabel(listing, a)
    BY <1>4, <1>5 DEF ListingInv, LabelsSoFar
  <2>2. /\ \A b : HasLabel(listing', b) <=> HasLabel(listing, b) \/ (labelled /\ b = addr)
        /\ \A b : HasLine(listing', b) <=> HasLine(listing, b) \/ b = addr
        /\ LabelsOnce(listing')
    BY <2>1 DEF Written
  <2>3. ASSUME NEW a, HasLabel(listing', a) PROVE MayBeLabelled(a)'
    <3>1. a = addr \/ HasLabel(listing, a)
      BY <2>2, <2>3
    <3>2. a \in Nat
      BY <1>1, <3>1, PrintedAddress DEF ListingInv, Place
    <3>3. a < End /\ a < addr + size
      <4>1. CASE a = addr
        BY <1>1, <1>3, <4>1
      <4>2. CASE HasLabel(listing, a)
        BY <1>1, <1>3, <2>1, <3>2, <4>2 DEF MayBeLabelled
      <4> QED
        BY <3>1, <4>1, <4>2
    <3> QED
      BY <1>2, <3>3 DEF MayBeLabelled
  <2>4. ASSUME NEW a, HasLine(listing', a) PROVE a < Cursor'
    <3>1. a = addr \/ HasLine(listing, a)
      BY <2>2, <2>4
    <3>2. a \in Nat
      BY <1>1, <3>1, PrintedAddress DEF ListingInv, Place
    <3>3. a <= addr
      BY <1>1, <2>1, <3>1, <3>2
    <3> QED
      BY <1>1, <1>3, <1>4, <3>2, <3>3
  <2>5. ASSUME NEW a \in DOMAIN labels, a < Cursor', HasKind(regions, a, "DATA")
        PROVE  HasLine(listing', a)
    <3>1. a < addr \/ (addr <= a /\ a < addr + size /\ a < End /\ reg <= a)
      BY <1>1, <1>3, <1>4, <1>6, <2>5
    <3>2. CASE addr <= a /\ a < addr + size /\ a < End /\ reg <= a
      <4>1. Type = "DATA"
        BY <1>3, <1>6, <2>5, <3>2
      <4> QED
        BY <1>1, <1>6, <2>2, <3>2, <4>1
    <3> QED
      BY <2>1, <2>2, <2>5, <3>1, <3>2
  <2>6. ASSUME NEW a \in DOMAIN labels, HasLine(listing', a),
               HasKind(regions, a, "CODE") \/ HasKind(regions, a, "DATA")
        PROVE  HasLabel(listing', a)
    <3>1. CASE a = addr
      <4>1. Type # "VTABLE"
        BY <1>1, <1>3, <2>6, <3>1
      <4> QED
        BY <2>2, <2>6, <3>1, <4>1
    <3> QED
      BY <2>1, <2>2, <2>6, <3>1
  <2>7. loop = "piece" /\ len' > 0 => addr' \notin DOMAIN labels
    BY <1>1
  <2> QED
    BY <1>2, <2>2, <2>3, <2>4, <2>5, <2>6, <2>7 DEF LabelsSoFar
<1> QED
  BY <1>7, <1>8

\* The object of the region in print, and its fixups.
LEMMA ObjectInPrint ==
    ASSUME TypeOK, RegionsPartition, reg \in DOMAIN regions
    PROVE  /\ ObjectIndex \in Objects
           /\ reg \in ObjectBytes(exe.objects[ObjectIndex])
           /\ DOMAIN ObjectFixups \subseteq Nat
           /\ \A a \in Int : Offset(a) \in Nat
<1>1. /\ reg \in Nat /\ reg < End /\ End < AddrSpace /\ End \in Nat
      /\ IsMapped(regions, reg)
  BY RegionInPrint DEF RegionsPartition
<1>2. ObjectIndex # NULL
  BY <1>1, AddrSpaceAssumption DEF RegionsPartition, ObjectIndex, Address
<1>3. ObjectIndex \in Objects /\ reg \in ObjectBytes(exe.objects[ObjectIndex])
  BY <1>2 DEF ObjectIndex, get_object_at_address
<1>4. DOMAIN ObjectFixups \subseteq Nat
  <2>1. IsExecutable(exe)
    BY ExecutableFacts
  <2> QED
    BY <1>3, <2>1, AddrSpaceAssumption DEF IsExecutable, ObjectFixups, Objects, Address
<1>5. \A a \in Int : Offset(a) \in Nat
  <2>1. exe.objects[ObjectIndex].base \in Int
    BY <1>3, ExecutableFacts, AddrSpaceAssumption DEF Address
  <2>2. \A x \in Int : x % AddrSpace \in Nat
    BY AddrSpaceAssumption
  <2> QED
    BY <2>1, <2>2 DEF Offset
<1> QED
  BY <1>3, <1>4, <1>5

\* A piece of data is not empty, stays in its region, and has no label and no
\* relocation inside it (le_disasm.cpp:354-367).
LEMMA PieceLength ==
    ASSUME TypeOK, RegionsPartition, reg \in DOMAIN regions,
           addr \in Nat, reg <= addr, addr < End,
           NEW n, n = Least({End - addr} \cup ToNextLabel \cup ToNextFixup)
    PROVE  /\ n \in Nat \ {0}
           /\ addr + n <= End
           /\ \A a \in DOMAIN labels : ~ (addr < a /\ a < addr + n)
           /\ \A o \in DOMAIN ObjectFixups :
                ~ (Offset(addr) < o /\ o < Offset(addr) + n)
<1> DEFINE T == {End - addr} \cup ToNextLabel \cup ToNextFixup
<1>1. reg \in Nat /\ End \in Nat
  BY RegionInPrint DEF RegionsPartition
<1>2. \/ ToNextLabel = {} /\ \A a \in DOMAIN labels : ~ (addr < a)
      \/ \E v \in DOMAIN labels :
            /\ ToNextLabel = {v - addr} /\ addr < v /\ v \in Nat
            /\ \A a \in DOMAIN labels : addr < a => v <= a
  <2>1. DOMAIN labels \subseteq Nat
    BY DEF TypeOK, Address
  <2>2. PICK v : v = get_next_value(DOMAIN labels, addr)
    OBVIOUS
  <2>3. \/ v = NULL /\ \A k \in DOMAIN labels : ~ (addr < k)
        \/ /\ v \in DOMAIN labels /\ v # NULL /\ addr < v
           /\ \A k \in DOMAIN labels : addr < k => v <= k
    BY <2>1, <2>2, NextValue
  <2> QED
    BY <2>1, <2>2, <2>3 DEF ToNextLabel
<1>3. \/ ToNextFixup = {} /\ \A o \in DOMAIN ObjectFixups : ~ (Offset(addr) < o)
      \/ \E v \in DOMAIN ObjectFixups :
            /\ ToNextFixup = {v - Offset(addr)} /\ Offset(addr) < v /\ v \in Nat
            /\ \A o \in DOMAIN ObjectFixups : Offset(addr) < o => v <= o
  <2>1. DOMAIN ObjectFixups \subseteq Nat
    BY ObjectInPrint
  <2>2. PICK v : v = get_next_value(DOMAIN ObjectFixups, Offset(addr))
    OBVIOUS
  <2>3. \/ v = NULL /\ \A k \in DOMAIN ObjectFixups : ~ (Offset(addr) < k)
        \/ /\ v \in DOMAIN ObjectFixups /\ v # NULL /\ Offset(addr) < v
           /\ \A k \in DOMAIN ObjectFixups : Offset(addr) < k => v <= k
    BY <2>1, <2>2, NextValue
  <2> QED
    BY <2>1, <2>2, <2>3 DEF ToNextFixup
<1>4. Offset(addr) \in Nat /\ DOMAIN ObjectFixups \subseteq Nat
  BY ObjectInPrint
<1>5. DOMAIN labels \subseteq Nat
  BY DEF TypeOK, Address
<1>6. T \subseteq Nat \ {0} /\ End - addr \in T
  BY <1>1, <1>2, <1>3, <1>4
<1>7. /\ \A a \in DOMAIN labels : addr < a => \E x \in T : x <= a - addr
      /\ \A o \in DOMAIN ObjectFixups :
            Offset(addr) < o => \E x \in T : x <= o - Offset(addr)
  BY <1>2, <1>3, <1>4, <1>5
<1> HIDE DEF T
<1>8. n \in T /\ \A y \in T : n <= y
  <2>1. \E x \in T : \A y \in T : x <= y
    BY <1>6, LeastNat
  <2>2. n = Least(T)
    BY DEF T
  <2> QED
    BY <2>1, <2>2 DEF Least
<1>9. n \in Nat \ {0} /\ n <= End - addr
  BY <1>6, <1>8
<1>10. ASSUME NEW a \in DOMAIN labels, addr < a, a < addr + n PROVE FALSE
  <2>1. PICK x \in T : x <= a - addr
    BY <1>7, <1>10
  <2> QED
    BY <1>5, <1>6, <1>8, <1>9, <1>10, <2>1
<1>11. ASSUME NEW o \in DOMAIN ObjectFixups, Offset(addr) < o, o < Offset(addr) + n
       PROVE FALSE
  <2>1. PICK x \in T : x <= o - Offset(addr)
    BY <1>7, <1>11
  <2> QED
    BY <1>4, <1>6, <1>8, <1>9, <1>11, <2>1
<1>12. addr + n <= End
  BY <1>1, <1>9
<1> QED
  BY <1>9, <1>10, <1>11, <1>12

\* An instruction is decoded inside its region (le_disasm.cpp:314-325).
LEMMA PrintInstructionStep ==
    ASSUME KnownInv, ListingInv, stage = "print", reg # NULL, UNCHANGED kvars,
           PrintInstruction
    PROVE  ListingInv' /\ LineAt(listing, listing', addr)
<1>1. /\ TypeOK /\ RegionsPartition /\ WellFormed(regions) /\ reg \in DOMAIN regions
      /\ listing \in Listings
      /\ loop = "lines" /\ Type = "CODE" /\ addr < End
      /\ addr \in Nat /\ reg <= addr
  BY PrintFacts DEF PrintInstruction, ListingInv, Place
<1>2. /\ reg \in Nat /\ reg < End /\ End < AddrSpace /\ End \in Nat
      /\ IsMapped(regions, addr)
  BY <1>1, RegionInPrint
<1>3. PICK inst \in disassemble(addr, End - addr) :
        /\ listing' = listing \o print_label_at(addr)
                       \o print_line(addr, inst.size, Operands(inst) \cap DOMAIN labels)
        /\ addr' = addr + inst.size
        /\ UNCHANGED <<loop, reg, len, next_label>>
  BY DEF PrintInstruction
<1>4. inst.size \in 1 .. End - addr
  <2>1. End - addr \in Nat \ {0}
    BY <1>1, <1>2
  <2>2. get_object_at_address(addr) # NULL
    BY <1>1, <1>2, AddrSpaceAssumption DEF RegionsPartition, Address
  <2> QED
    BY <1>1, <2>1, <2>2, DecodedInstruction
<1> PICK labelled \in BOOLEAN : labelled = (addr \in DOMAIN labels)
  <2>1. CASE addr \in DOMAIN labels
    BY <2>1, (addr \in DOMAIN labels) = TRUE
  <2>2. CASE addr \notin DOMAIN labels
    BY <2>2, (addr \in DOMAIN labels) = FALSE
  <2> QED
    BY <2>1, <2>2
<1>5. Written(listing, listing', addr, inst.size, labelled)
  <2> PICK mid : mid = listing \o print_label_at(addr)
    OBVIOUS
  <2> PICK refs : refs = Operands(inst) \cap DOMAIN labels
    OBVIOUS
  <2>1. Written(listing, mid, addr, 0, labelled)
    BY <1>1, LabelWritten
  <2>2. refs \in SUBSET Address
    BY <1>1 DEF TypeOK
  <2>3. mid \in Listings /\ inst.size \in Nat \ {0} /\ (inst.size = 0) = FALSE
    BY <1>4, <2>1 DEF Written
  <2>4. listing' = mid \o print_line(addr, inst.size, refs)
    BY <1>3
  <2>5. Written(mid, listing', addr, inst.size, FALSE)
    BY <1>1, <2>2, <2>3, <2>4, LineWritten
  <2> QED
    BY <1>1, <2>1, <2>3, <2>5, LabelAndLine
<1>6. addr + inst.size <= End /\ inst.size \in Nat \ {0}
  BY <1>1, <1>2, <1>4
<1>7. ~ HasLabel(listing, addr)
  <2>1. ~ MayBeLabelled(addr)
    BY <1>1 DEF MayBeLabelled
  <2> QED
    BY <1>1, <2>1 DEF ListingInv, LabelsSoFar, Running
<1>8. PrintedSoFar' /\ LabelsSoFar'
  <2>1. (addr \in DOMAIN labels => labelled) /\ reg' = reg /\ loop' = loop
    BY <1>3
  <2>2. Type # "DATA" /\ loop # "piece" /\ loop \in {"lines", "piece"}
    BY <1>1
  <2> QED
    BY <1>1, <1>3, <1>5, <1>6, <1>7, <2>1, <2>2, LinePrinted
<1>9. Place'
  <2>1. /\ regions' = regions /\ labels' = labels /\ stage' = stage
        /\ Type' = Type /\ End' = End /\ listing' \in Listings
        /\ loop' = "lines" /\ reg' = reg
    BY <1>1, <1>3, <1>5, PrintFrame DEF Written
  <2>2. addr' \in Nat /\ reg <= addr' /\ addr' <= End
    BY <1>1, <1>2, <1>3, <1>6
  <2> QED
    BY <1>1, <2>1, <2>2 DEF Place
<1>10. LineAt(listing, listing', addr)
  BY <1>5, <1>6 DEF Written, LineAt
<1> QED
  BY <1>8, <1>9, <1>10 DEF ListingInv

\* What is printed of a piece of data stays in the piece
\* (le_disasm.cpp:369-448).
LEMMA PieceStep ==
    ASSUME KnownInv, ListingInv, stage = "print", reg # NULL, UNCHANGED kvars,
           loop = "piece", len > 0,
           NEW size \in Nat \ {0}, size <= len, NEW refs \in SUBSET Address,
           listing' = listing \o print_line(addr, size, refs),
           addr' = addr + size, len' = len - size,
           UNCHANGED <<loop, reg, next_label>>
    PROVE  ListingInv' /\ LineAt(listing, listing', addr)
<1>1. /\ TypeOK /\ RegionsPartition /\ WellFormed(regions) /\ reg \in DOMAIN regions
      /\ listing \in Listings
      /\ Type = "DATA" /\ len \in Nat /\ addr + len <= End
      /\ addr \in Nat /\ reg <= addr
      /\ \A a \in DOMAIN labels : ~ (addr < a /\ a < addr + len)
  BY PrintFacts DEF ListingInv, Place
<1>2. reg \in Nat /\ reg < End /\ End \in Nat /\ DOMAIN labels \subseteq Nat
  BY <1>1, RegionInPrint DEF TypeOK, Address
<1>3. addr < End /\ addr + size <= End
  BY <1>1, <1>2
<1>4. Written(listing, listing', addr, size, FALSE)
  <2>1. (size = 0) = FALSE
    OBVIOUS
  <2> QED
    BY <1>1, <2>1, LineWritten
<1>5. addr \in DOMAIN labels => HasLabel(listing, addr)
  BY DEF ListingInv, LabelsSoFar
<1>6. \A a \in DOMAIN labels : ~ (addr < a /\ a < addr + size)
  BY <1>1, <1>2
<1>7. PrintedSoFar' /\ LabelsSoFar'
  BY <1>1, <1>3, <1>4, <1>5, <1>6, LinePrinted
<1>8. Place'
  <2>1. /\ regions' = regions /\ labels' = labels /\ stage' = stage
        /\ Type' = Type /\ End' = End /\ listing' \in Listings
    BY <1>4, PrintFrame DEF Written
  <2>2. addr' \in Nat /\ reg <= addr' /\ len' \in Nat /\ addr' + len' <= End /\ addr' <= End
    BY <1>1, <1>2, <1>3
  <2>3. \A a \in DOMAIN labels : ~ (addr' < a /\ a < addr' + len')
    BY <1>1, <1>2
  <2> QED
    BY <1>1, <2>1, <2>2, <2>3 DEF Place
<1>9. LineAt(listing, listing', addr)
  BY <1>4 DEF Written, LineAt
<1> QED
  BY <1>7, <1>8, <1>9 DEF ListingInv

LEMMA PrintAddressStep ==
    ASSUME KnownInv, ListingInv, stage = "print", reg # NULL, UNCHANGED kvars,
           PrintAddress \/ PrintData
    PROVE  ListingInv' /\ LineAt(listing, listing', addr)
<1>1. TypeOK /\ (loop = "piece" => len \in Nat)
  BY PrintFacts DEF ListingInv, Place
<1>2. CASE PrintAddress
  <2> PICK refs : refs = {read_le(addr)}
    OBVIOUS
  <2>1. /\ loop = "piece" /\ len > 0 /\ WordSize <= len /\ refs \in SUBSET Address
        /\ listing' = listing \o print_line(addr, WordSize, refs)
        /\ addr' = addr + WordSize /\ len' = len - WordSize
        /\ UNCHANGED <<loop, reg, next_label>>
    BY <1>1, <1>2, WordSizeAssumption DEF PrintAddress, data_is_address, TypeOK
  <2> QED
    BY <2>1, PieceStep, WordSizeAssumption
<1>3. CASE PrintData
  <2>1. loop = "piece" /\ len > 0 /\ UNCHANGED <<loop, reg, next_label>>
    BY <1>3 DEF PrintData
  <2>2. PICK size \in {1} \cup RunSizes :
            /\ listing' = listing \o print_line(addr, size, {})
            /\ addr' = addr + size
            /\ len' = len - size
    BY <1>3 DEF PrintData
  <2>3. size \in Nat \ {0} /\ size <= len
    BY <1>1, <2>1, <2>2, MinRunAssumption DEF RunSizes
  <2> QED
    BY <2>1, <2>2, <2>3, PieceStep, {} \in SUBSET Address
<1> QED
  BY <1>2, <1>3

\* A word of a vtable whose size is whole ends in it.
LEMMA WordInside ==
    ASSUME WellFormed(regions), reg \in DOMAIN regions, WholeVtables,
           Type = "VTABLE", NEW m \in Nat, addr = reg + WordSize * m, addr < End
    PROVE  addr + WordSize <= End
<1>1. /\ reg \in Nat /\ End = reg + regions[reg].size /\ regions[reg].size \in Nat
      /\ regions[reg].size % WordSize = 0
  BY RegionInPrint, EndAddress DEF WholeVtables, Type
<1>2. PICK q \in Nat : regions[reg].size = WordSize * q
  BY <1>1, WholeMultiple, WordSizeAssumption
<1>3. WordSize * m \in Nat /\ WordSize * q \in Nat /\ WordSize * m < WordSize * q
  BY <1>1, <1>2, WordSizeAssumption
<1>4. WordSize * m + WordSize <= WordSize * q
  BY <1>3, MultiplesApart, WordSizeAssumption
<1>5. PICK x \in Nat, y \in Nat : x = WordSize * m /\ y = WordSize * q
  BY <1>3
<1>6. addr = reg + x /\ End = reg + y /\ x + WordSize <= y
  BY <1>1, <1>2, <1>4, <1>5
<1> QED
  BY <1>1, <1>5, <1>6, WordSizeAssumption

LEMMA PrintVtableWordStep ==
    ASSUME KnownInv, ListingInv, stage = "print", reg # NULL, UNCHANGED kvars,
           PrintVtableWord
    PROVE  /\ ListingInv' /\ LineAt(listing, listing', addr)
           /\ AtNextLabel => HasLabel(listing', addr)
<1>1. /\ TypeOK /\ RegionsPartition /\ WellFormed(regions) /\ reg \in DOMAIN regions
      /\ listing \in Listings
      /\ loop = "lines" /\ Type = "VTABLE" /\ addr < End
      /\ addr \in Nat /\ reg <= addr
      /\ next_label # NULL => next_label \in Nat /\ reg < next_label
  BY PrintFacts DEF PrintVtableWord, ListingInv, Place
<1>2. PICK m \in Nat : addr = reg + WordSize * m
  BY <1>1 DEF ListingInv, Place
<1>3. reg \in Nat /\ reg < End /\ End \in Nat
  BY <1>1, RegionInPrint
<1>4. /\ listing' = listing \o (IF AtNextLabel THEN print_label(addr) ELSE <<>>)
                       \o print_line(addr, WordSize, {read_le(addr)} \ {0})
      /\ addr' = addr + WordSize
      /\ UNCHANGED <<loop, reg, len>>
      /\ read_le(addr) # 0 => read_le(addr) \in DOMAIN labels
  BY DEF PrintVtableWord
<1> PICK labelled \in BOOLEAN : labelled <=> AtNextLabel
  <2>1. CASE AtNextLabel
    BY <2>1, TRUE \in BOOLEAN
  <2>2. CASE ~ AtNextLabel
    BY <2>2, FALSE \in BOOLEAN
  <2> QED
    BY <2>1, <2>2
<1>5. Written(listing, listing', addr, WordSize, labelled)
  <2> PICK mid : mid = listing \o (IF AtNextLabel THEN print_label(addr) ELSE <<>>)
    OBVIOUS
  <2> PICK refs : refs = {read_le(addr)} \ {0}
    OBVIOUS
  <2>1. Written(listing, mid, addr, 0, labelled)
    <3>1. CASE AtNextLabel
      <4>1. labelled = TRUE /\ mid = listing \o print_label(addr)
        BY <3>1
      <4> QED
        BY <1>1, <4>1, LabelWritten
    <3>2. CASE ~ AtNextLabel
      <4>1. labelled = FALSE /\ mid = listing
        BY <1>1, <3>2 DEF Listings
      <4> QED
        BY <1>1, <4>1, NothingWritten
    <3> QED
      BY <3>1, <3>2
  <2>2. refs \in SUBSET Address
    BY <1>1, <1>4 DEF TypeOK
  <2>3. mid \in Listings /\ (WordSize = 0) = FALSE
    BY <2>1, WordSizeAssumption DEF Written
  <2>4. listing' = mid \o print_line(addr, WordSize, refs)
    BY <1>4
  <2>5. Written(mid, listing', addr, WordSize, FALSE)
    BY <1>1, <2>2, <2>3, <2>4, LineWritten, WordSizeAssumption
  <2> QED
    BY <1>1, <2>1, <2>5, LabelAndLine, WordSizeAssumption
<1>6. labelled => ~ HasLabel(listing, addr)
  <2> SUFFICES ASSUME AtNextLabel PROVE ~ HasLabel(listing, addr)
    OBVIOUS
  <2>1. addr # reg
    BY <1>1, <1>3 DEF AtNextLabel
  <2>2. ~ MayBeLabelled(addr)
    BY <1>1, <2>1 DEF MayBeLabelled
  <2> QED
    BY <1>1, <2>2 DEF ListingInv, LabelsSoFar, Running
<1>7. WholeVtables => addr + WordSize <= End
  BY <1>1, <1>2, WordInside
<1>8. PrintedSoFar' /\ LabelsSoFar'
  <2>1. reg' = reg /\ loop' = loop /\ loop \in {"lines", "piece"}
        /\ loop # "piece" /\ Type # "DATA"
    BY <1>1, <1>4
  <2> QED
    BY <1>1, <1>4, <1>5, <1>6, <1>7, <2>1, LinePrinted, WordSizeAssumption
<1>9. Place'
  <2>1. /\ regions' = regions /\ labels' = labels /\ stage' = stage
        /\ Type' = Type /\ End' = End /\ listing' \in Listings
        /\ loop' = "lines" /\ reg' = reg
    BY <1>1, <1>4, <1>5, PrintFrame DEF Written
  <2>2. addr' \in Nat /\ reg <= addr'
    BY <1>1, <1>3, <1>4, WordSizeAssumption
  <2>3. \E n \in Nat : addr' = reg + WordSize * n
    <3>1. WordSize * (m + 1) = WordSize * m + WordSize
      BY WordSizeAssumption
    <3>2. WordSize * m \in Nat
      BY WordSizeAssumption
    <3>3. addr' = reg + WordSize * (m + 1) /\ m + 1 \in Nat
      BY <1>2, <1>3, <1>4, <3>1, <3>2, WordSizeAssumption
    <3> QED
      BY <3>3
  <2>4. next_label' # NULL => next_label' \in Nat /\ reg < next_label'
    <3>1. CASE next_label' = next_label
      BY <1>1, <3>1
    <3>2. CASE next_label' = get_next_value(DOMAIN labels, addr)
      <4>1. DOMAIN labels \subseteq Nat
        BY <1>1 DEF TypeOK, Address
      <4>2. PICK v : v = get_next_value(DOMAIN labels, addr)
        OBVIOUS
      <4>3. v = NULL \/ (v \in DOMAIN labels /\ addr < v)
        BY <4>1, <4>2, NextValue
      <4> QED
        BY <1>1, <1>3, <3>2, <4>1, <4>2, <4>3
    <3> QED
      BY <3>1, <3>2 DEF PrintVtableWord
  <2> QED
    BY <1>1, <2>1, <2>2, <2>3, <2>4 DEF Place
<1>10. /\ LineAt(listing, listing', addr)
       /\ AtNextLabel => HasLabel(listing', addr)
  BY <1>5, WordSizeAssumption DEF Written, LineAt
<1> QED
  BY <1>8, <1>9, <1>10 DEF ListingInv

LEMMA StartPieceStep ==
    ASSUME KnownInv, ListingInv, stage = "print", reg # NULL, UNCHANGED kvars,
           StartPiece
    PROVE  ListingInv' /\ SameLines(listing, listing')
<1>1. /\ TypeOK /\ RegionsPartition /\ WellFormed(regions) /\ reg \in DOMAIN regions
      /\ listing \in Listings
      /\ loop = "lines" /\ Type = "DATA" /\ addr < End
      /\ addr \in Nat /\ reg <= addr
  BY PrintFacts DEF StartPiece, ListingInv, Place
<1>2. reg \in Nat /\ reg < End /\ End \in Nat
  BY <1>1, RegionInPrint
<1>3. /\ listing' = listing \o print_label_at(addr)
      /\ len' = Least({End - addr} \cup ToNextLabel \cup ToNextFixup)
      /\ loop' = "piece"
      /\ UNCHANGED <<reg, addr, next_label>>
  BY DEF StartPiece
<1>4. /\ len' \in Nat \ {0} /\ addr + len' <= End
      /\ \A a \in DOMAIN labels : ~ (addr < a /\ a < addr + len')
  <2> PICK n : n = len'
    OBVIOUS
  <2> QED
    BY <1>1, <1>3, PieceLength
<1>5. /\ regions' = regions /\ labels' = labels /\ stage' = stage
      /\ Type' = Type /\ End' = End /\ WholeVtables' = WholeVtables
      /\ \A a : IsListed(a)' <=> IsListed(a)
  BY <1>3, PrintFrame
<1>6. Written(listing, listing', addr, 0, addr \in DOMAIN labels)
  BY <1>1, <1>3, LabelWritten
<1>7. /\ listing' \in Listings
      /\ \A b \in Int : Covers(listing', b) <=> Covers(listing, b)
      /\ \A b : HasLabel(listing', b) <=>
                    HasLabel(listing, b) \/ (addr \in DOMAIN labels /\ b = addr)
      /\ \A b : HasLine(listing', b) <=> HasLine(listing, b)
      /\ InOrder(listing) /\ EndsBy(listing, addr) =>
            InOrder(listing') /\ EndsBy(listing', addr)
      /\ LabelsOnce(listing) /\ ~ HasLabel(listing, addr) => LabelsOnce(listing')
  <2>1. addr + 0 = addr /\ \A b \in Int : ~ (addr <= b /\ b < addr + 0)
    BY <1>1
  <2> QED
    BY <1>6, <2>1 DEF Written
<1>8. Cursor = addr /\ Cursor' = addr /\ Running /\ Running'
  BY <1>1, <1>3, <1>5 DEF Cursor, Running
<1>9. PrintedSoFar'
  <2>1. addr <= End
    BY <1>1, <1>2
  <2> QED
    BY <1>1, <1>3, <1>5, <1>7, <1>8, <2>1 DEF ListingInv, PrintedSoFar
<1>10. \A a : HasLabel(listing, a) => a \in Nat /\ a < addr
  <2>1. \A a : HasLabel(listing, a) => a \in Nat
    BY <1>1, PrintedAddress
  <2>2. \A a : HasLabel(listing, a) => MayBeLabelled(a)
    BY <1>8 DEF ListingInv, LabelsSoFar
  <2> QED
    BY <1>1, <2>1, <2>2 DEF MayBeLabelled
<1>11. LabelsSoFar'
  <2>1. LabelsOnce(listing')
    BY <1>1, <1>7, <1>10 DEF ListingInv, LabelsSoFar
  <2>2. \A a : HasLabel(listing', a) => MayBeLabelled(a)'
    BY <1>3, <1>4, <1>7, <1>10 DEF MayBeLabelled
  <2> QED
    BY <1>3, <1>5, <1>7, <1>8, <2>1, <2>2 DEF ListingInv, LabelsSoFar
<1>12. Place'
  <2>1. addr' \in Nat /\ reg' <= addr' /\ addr' <= End' /\ reg' = reg /\ addr' = addr
    BY <1>1, <1>2, <1>3, <1>5
  <2> QED
    BY <1>1, <1>3, <1>4, <1>5, <1>7, <2>1 DEF Place
<1> QED
  BY <1>7, <1>9, <1>11, <1>12 DEF ListingInv, SameLines

LEMMA PieceDoneStep ==
    ASSUME KnownInv, ListingInv, stage = "print", reg # NULL, UNCHANGED kvars,
           PieceDone
    PROVE  ListingInv'
<1>1. /\ TypeOK /\ RegionsPartition /\ WellFormed(regions) /\ reg \in DOMAIN regions
      /\ listing \in Listings
      /\ loop = "piece" /\ len = 0 /\ Type = "DATA" /\ loop' = "lines"
      /\ addr \in Nat /\ reg <= addr /\ addr <= End
      /\ UNCHANGED <<reg, addr, len, next_label, listing>>
  BY PrintFacts DEF PieceDone, ListingInv, Place
<1>2. reg \in Nat /\ reg < End /\ End \in Nat
  BY <1>1, RegionInPrint
<1>3. /\ regions' = regions /\ labels' = labels /\ stage' = stage
      /\ Type' = Type /\ End' = End /\ WholeVtables' = WholeVtables
      /\ \A a : IsListed(a)' <=> IsListed(a)
  BY <1>1, PrintFrame
<1>4. Cursor' = Cursor /\ Running /\ Running'
  BY <1>1, <1>3 DEF Cursor, Running
<1>5. PrintedSoFar'
  BY <1>1, <1>3, <1>4 DEF ListingInv, PrintedSoFar
<1>6. \A a : HasLabel(listing, a) => MayBeLabelled(a)'
  <2> SUFFICES ASSUME NEW a, HasLabel(listing, a) PROVE MayBeLabelled(a)'
    OBVIOUS
  <2>1. MayBeLabelled(a) /\ a \in Nat
    BY <1>1, <1>4, PrintedAddress DEF ListingInv, LabelsSoFar
  <2>2. a < addr
    BY <1>1, <2>1 DEF MayBeLabelled
  <2>3. a < End
    BY <1>1, <1>2, <2>1, <2>2
  <2> QED
    BY <1>1, <1>3, <2>2, <2>3 DEF MayBeLabelled
<1>7. LabelsSoFar'
  BY <1>1, <1>3, <1>4, <1>6 DEF ListingInv, LabelsSoFar
<1>8. Place'
  BY <1>1, <1>3 DEF ListingInv, Place
<1> QED
  BY <1>5, <1>7, <1>8 DEF ListingInv

LEMMA BeginRegionStep ==
    ASSUME KnownInv, ListingInv, stage = "print", reg # NULL, UNCHANGED kvars,
           BeginRegion
    PROVE  ListingInv'
<1>1. /\ TypeOK /\ RegionsPartition /\ WellFormed(regions) /\ reg \in DOMAIN regions
      /\ listing \in Listings
      /\ loop = "region" /\ Type \in {"CODE", "DATA"} /\ loop' = "lines" /\ addr' = reg
      /\ UNCHANGED <<reg, len, next_label, listing>>
  BY PrintFacts DEF BeginRegion, ListingInv, Place
<1>2. reg \in Nat /\ reg < End /\ End \in Nat
  BY <1>1, RegionInPrint
<1>3. /\ regions' = regions /\ labels' = labels /\ stage' = stage
      /\ Type' = Type /\ End' = End /\ WholeVtables' = WholeVtables
      /\ \A a : IsListed(a)' <=> IsListed(a)
  BY <1>1, PrintFrame
<1>4. Cursor = reg /\ Cursor' = reg /\ Running /\ Running'
  BY <1>1, <1>2, <1>3 DEF Cursor, Running
<1>5. PrintedSoFar'
  BY <1>1, <1>2, <1>3, <1>4 DEF ListingInv, PrintedSoFar
<1>6. \A a : HasLabel(listing, a) => MayBeLabelled(a)'
  <2> SUFFICES ASSUME NEW a, HasLabel(listing, a) PROVE MayBeLabelled(a)'
    OBVIOUS
  <2>1. MayBeLabelled(a) /\ a \in Nat
    BY <1>1, <1>4, PrintedAddress DEF ListingInv, LabelsSoFar
  <2>2. a < reg /\ a < End
    BY <1>1, <1>2, <2>1 DEF MayBeLabelled
  <2> QED
    BY <1>1, <1>3, <2>2 DEF MayBeLabelled
<1>7. LabelsSoFar'
  BY <1>1, <1>3, <1>4, <1>6 DEF ListingInv, LabelsSoFar
<1>8. Place'
  BY <1>1, <1>2, <1>3 DEF ListingInv, Place
<1> QED
  BY <1>5, <1>7, <1>8 DEF ListingInv

LEMMA BeginVtableStep ==
    ASSUME KnownInv, ListingInv, stage = "print", reg # NULL, UNCHANGED kvars,
           BeginVtable
    PROVE  ListingInv' /\ SameLines(listing, listing') /\ HasLabel(listing', reg)
<1>1. /\ TypeOK /\ RegionsPartition /\ WellFormed(regions) /\ reg \in DOMAIN regions
      /\ listing \in Listings
      /\ loop = "region" /\ Type = "VTABLE" /\ loop' = "lines" /\ addr' = reg
      /\ reg \in DOMAIN labels
      /\ listing' = listing \o print_label(reg)
      /\ next_label' = get_next_value(DOMAIN labels, reg)
      /\ UNCHANGED <<reg, len>>
  BY PrintFacts DEF BeginVtable, ListingInv, Place
<1>2. reg \in Nat /\ reg < End /\ End \in Nat
  BY <1>1, RegionInPrint
<1>3. /\ regions' = regions /\ labels' = labels /\ stage' = stage
      /\ Type' = Type /\ End' = End /\ WholeVtables' = WholeVtables
      /\ \A a : IsListed(a)' <=> IsListed(a)
  BY <1>1, PrintFrame
<1>4. Cursor = reg /\ Cursor' = reg /\ Running /\ Running'
  BY <1>1, <1>2, <1>3 DEF Cursor, Running
<1>5. Written(listing, listing', reg, 0, TRUE)
  BY <1>1, <1>2, LabelWritten
<1>6. /\ listing' \in Listings
      /\ \A b \in Int : Covers(listing', b) <=> Covers(listing, b)
      /\ \A b : HasLabel(listing', b) <=> HasLabel(listing, b) \/ b = reg
      /\ \A b : HasLine(listing', b) <=> HasLine(listing, b)
      /\ InOrder(listing) /\ EndsBy(listing, reg) =>
            InOrder(listing') /\ EndsBy(listing', reg)
      /\ LabelsOnce(listing) /\ ~ HasLabel(listing, reg) => LabelsOnce(listing')
  <2>1. reg + 0 = reg /\ \A b \in Int : ~ (reg <= b /\ b < reg + 0)
    BY <1>2
  <2> QED
    BY <1>5, <2>1 DEF Written
<1>7. PrintedSoFar'
  BY <1>1, <1>2, <1>3, <1>4, <1>6 DEF ListingInv, PrintedSoFar
<1>8. \A a : HasLabel(listing, a) => a \in Nat /\ a < reg
  <2>1. \A a : HasLabel(listing, a) => a \in Nat
    BY <1>1, PrintedAddress
  <2>2. \A a : HasLabel(listing, a) => MayBeLabelled(a)
    BY <1>4 DEF ListingInv, LabelsSoFar
  <2> QED
    BY <1>1, <2>1, <2>2 DEF MayBeLabelled
<1>9. LabelsSoFar'
  <2>1. LabelsOnce(listing')
    BY <1>2, <1>6, <1>8 DEF ListingInv, LabelsSoFar
  <2>2. \A a : HasLabel(listing', a) => a < End /\ (a < reg \/ a = reg)
    BY <1>2, <1>6, <1>8
  <2>3. \A a : HasLabel(listing', a) => MayBeLabelled(a)'
    BY <1>1, <1>3, <2>2 DEF MayBeLabelled
  <2> QED
    BY <1>1, <1>3, <1>4, <1>6, <2>1, <2>3 DEF ListingInv, LabelsSoFar
<1>10. Place'
  <2>1. addr' = reg + WordSize * 0
    BY <1>1, <1>2, WordSizeAssumption
  <2>2. next_label' # NULL => next_label' \in Nat /\ reg < next_label'
    <3>1. DOMAIN labels \subseteq Nat
      BY <1>1 DEF TypeOK, Address
    <3>2. PICK v : v = next_label'
      OBVIOUS
    <3>3. v = NULL \/ (v \in DOMAIN labels /\ reg < v)
      BY <1>1, <3>1, <3>2, NextValue
    <3> QED
      BY <3>1, <3>2, <3>3
  <2>3. addr' \in Nat /\ reg <= addr' /\ reg' = reg
    BY <1>1, <1>2
  <2> QED
    BY <1>1, <1>3, <1>6, <2>1, <2>2, <2>3 DEF Place
<1> QED
  BY <1>6, <1>7, <1>9, <1>10 DEF ListingInv, SameLines

LEMMA SkipUnknownStep ==
    ASSUME KnownInv, ListingInv, stage = "print", reg # NULL, UNCHANGED kvars,
           SkipUnknown
    PROVE  ListingInv'
<1>1. /\ TypeOK /\ RegionsPartition /\ WellFormed(regions) /\ reg \in DOMAIN regions
      /\ listing \in Listings
      /\ loop = "region" /\ Type = "UNKNOWN" /\ loop' = "after"
      /\ UNCHANGED <<reg, addr, len, next_label, listing>>
  BY PrintFacts DEF SkipUnknown, ListingInv, Place
<1>2. /\ reg \in Nat /\ reg < End /\ End \in Nat
      /\ \A a \in Int : reg <= a /\ a < End =>
            \A t : HasKind(regions, a, t) <=> t = Type
  BY <1>1, RegionInPrint
<1>3. /\ regions' = regions /\ labels' = labels /\ stage' = stage
      /\ Type' = Type /\ End' = End /\ WholeVtables' = WholeVtables
      /\ \A a : IsListed(a)' <=> IsListed(a)
  BY <1>1, PrintFrame
<1>4. Cursor = reg /\ Cursor' = End /\ Running /\ Running'
  BY <1>1, <1>2, <1>3 DEF Cursor, Running
<1>5. PrintedSoFar'
  <2> SUFFICES ASSUME WholeVtables
               PROVE  /\ InOrder(listing) /\ EndsBy(listing, End)
                      /\ \A a \in Int : Covers(listing, a) <=> a < End /\ IsListed(a)
    BY <1>1, <1>3, <1>4 DEF PrintedSoFar
  <2>1. /\ InOrder(listing) /\ EndsBy(listing, reg)
        /\ \A a \in Int : Covers(listing, a) <=> a < reg /\ IsListed(a)
    BY <1>1, <1>4 DEF ListingInv, PrintedSoFar
  <2>2. EndsBy(listing, End)
    BY <1>1, <1>2, <2>1, ListingItems DEF EndsBy
  <2>3. \A a \in Int : reg <= a /\ a < End => ~ IsListed(a)
    BY <1>1, <1>2 DEF IsListed
  <2> QED
    BY <1>2, <2>1, <2>2, <2>3
<1>6. \A a : HasLabel(listing, a) => a \in Nat /\ a < reg
  <2>1. \A a : HasLabel(listing, a) => a \in Nat
    BY <1>1, PrintedAddress
  <2>2. \A a : HasLabel(listing, a) => MayBeLabelled(a)
    BY <1>4 DEF ListingInv, LabelsSoFar
  <2> QED
    BY <1>1, <2>1, <2>2 DEF MayBeLabelled
<1>7. LabelsSoFar'
  <2>1. \A a : HasLabel(listing, a) => MayBeLabelled(a)'
    BY <1>1, <1>2, <1>3, <1>6 DEF MayBeLabelled
  <2>2. \A a : HasLine(listing, a) => a < End
    BY <1>1, <1>2, <1>4, PrintedAddress DEF ListingInv, LabelsSoFar
  <2>3. \A a \in DOMAIN labels :
            a < End /\ HasKind(regions, a, "DATA") => HasLine(listing, a)
    <3>1. DOMAIN labels \subseteq Nat
      BY <1>1 DEF TypeOK, Address
    <3>2. \A a \in DOMAIN labels :
            a < reg /\ HasKind(regions, a, "DATA") => HasLine(listing, a)
      BY <1>4 DEF ListingInv, LabelsSoFar
    <3> QED
      BY <1>1, <1>2, <3>1, <3>2
  <2> QED
    BY <1>1, <1>3, <1>4, <2>1, <2>2, <2>3 DEF ListingInv, LabelsSoFar
<1>8. Place'
  BY <1>1, <1>3 DEF ListingInv, Place
<1> QED
  BY <1>5, <1>7, <1>8 DEF ListingInv

LEMMA RegionDoneStep ==
    ASSUME KnownInv, ListingInv, stage = "print", reg # NULL, UNCHANGED kvars,
           RegionDone
    PROVE  ListingInv'
<1>1. /\ TypeOK /\ RegionsPartition /\ WellFormed(regions) /\ reg \in DOMAIN regions
      /\ listing \in Listings
      /\ loop = "lines" /\ loop' = "after" /\ addr >= End /\ addr \in Nat
      /\ UNCHANGED <<reg, addr, len, next_label, listing>>
  BY PrintFacts DEF RegionDone, ListingInv, Place
<1>2. reg \in Nat /\ reg < End /\ End \in Nat
  BY <1>1, RegionInPrint
<1>3. /\ regions' = regions /\ labels' = labels /\ stage' = stage
      /\ Type' = Type /\ End' = End /\ WholeVtables' = WholeVtables
      /\ \A a : IsListed(a)' <=> IsListed(a)
  BY <1>1, PrintFrame
<1>4. Cursor = End /\ Cursor' = End /\ Running /\ Running'
  <2>1. ~ (addr < End)
    BY <1>1, <1>2
  <2> QED
    BY <1>1, <1>3, <2>1 DEF Cursor, Running
<1>5. PrintedSoFar'
  BY <1>1, <1>3, <1>4 DEF ListingInv, PrintedSoFar
<1>6. \A a : HasLabel(listing, a) => MayBeLabelled(a)'
  <2>1. \A a : HasLabel(listing, a) => a < End
    BY <1>1, <1>4 DEF ListingInv, LabelsSoFar, MayBeLabelled
  <2> QED
    BY <1>1, <1>3, <2>1 DEF MayBeLabelled
<1>7. LabelsSoFar'
  BY <1>1, <1>3, <1>4, <1>6 DEF ListingInv, LabelsSoFar
<1>8. Place'
  BY <1>1, <1>3 DEF ListingInv, Place
<1> QED
  BY <1>5, <1>7, <1>8 DEF ListingInv

\* The assertion of print_code holds (le_disasm.cpp:540).
LEMMA NoOverlap ==
    ASSUME WellFormed(regions), reg \in DOMAIN regions
    PROVE  ~ Overlaps
<1> SUFFICES ASSUME NEW p, p = PreviousRegion, p # NULL
             PROVE  get_end_address(regions[p]) <= reg
  <2>1. PICK p : p = PreviousRegion
    OBVIOUS
  <2>2. reg \in Nat /\ (p \in DOMAIN regions => get_end_address(regions[p]) \in Int)
    BY RegionInPrint, EndAddress, AddrSpaceAssumption DEF Address
  <2>3. p # NULL => p \in DOMAIN regions
    BY <2>1 DEF PreviousRegion, get_previous_value
  <2> QED
    BY <2>1, <2>2, <2>3 DEF Overlaps
<1>1. p \in DOMAIN regions /\ p < reg
  BY DEF PreviousRegion, get_previous_value, IsPrevious
<1>2. get_end_address(regions[p]) = p + regions[p].size
  BY <1>1, EndAddress
<1> QED
  BY <1>1, <1>2 DEF WellFormed

LEMMA AdvanceRegionStep ==
    ASSUME KnownInv, ListingInv, stage = "print", reg # NULL, UNCHANGED kvars,
           AdvanceRegion
    PROVE  /\ ListingInv' /\ SameLines(listing, listing')
           /\ \A a \in Int : IsMapped(regions, a) /\ a < Cursor' => a < Cursor
<1>1. /\ TypeOK /\ RegionsPartition /\ WellFormed(regions) /\ reg \in DOMAIN regions
      /\ listing \in Listings
      /\ loop = "after" /\ ~ Overlaps
      /\ UNCHANGED <<addr, len, next_label>>
  BY PrintFacts, NoOverlap DEF AdvanceRegion, ListingInv, Place
<1>2. reg \in Nat /\ reg < End /\ End \in Nat /\ DOMAIN labels \subseteq Nat
  BY <1>1, RegionInPrint DEF TypeOK, Address
<1>3. /\ regions' = regions /\ labels' = labels /\ stage' = stage
      /\ WholeVtables' = WholeVtables
      /\ \A a : IsListed(a)' <=> IsListed(a)
      /\ reg' = reg => End' = End /\ NextRegion' = NextRegion
  BY PrintFrame
<1>4. Cursor = End /\ Running
  BY <1>1 DEF Cursor, Running
<1>5. /\ loop' = IF NextRegion = NULL THEN "end" ELSE "region"
      /\ reg' = IF NextRegion = NULL THEN reg ELSE NextRegion
      /\ listing' = IF LabelBehind THEN listing \o print_label_at(End) ELSE listing
  BY <1>1 DEF AdvanceRegion
<1>6. \/ /\ NextRegion = NULL
         /\ \A a \in Int : End <= a => ~ IsMapped(regions, a)
      \/ /\ NextRegion # NULL /\ NextRegion \in DOMAIN regions
         /\ NextRegion \in Nat /\ End <= NextRegion
         /\ \A a \in Int : End <= a /\ a < NextRegion => ~ IsMapped(regions, a)
  BY <1>1, BehindRegion
<1> PICK c : c = Cursor'
  OBVIOUS
<1>7. /\ Running'
      /\ c \in Nat /\ End <= c
      /\ \A a \in Int : End <= a /\ a < c => ~ IsMapped(regions, a)
      /\ NextRegion = NULL => c = End
      /\ NextRegion # NULL => c = NextRegion
  <2>1. CASE NextRegion = NULL
    <3>1. c = End
      BY <1>3, <1>5, <2>1 DEF Cursor
    <3> QED
      BY <1>2, <1>5, <2>1, <3>1 DEF Running
  <2>2. CASE NextRegion # NULL
    <3>1. c = NextRegion
      BY <1>3, <1>5, <2>2 DEF Cursor
    <3> QED
      BY <1>5, <1>6, <2>2, <3>1 DEF Running
  <2> QED
    BY <2>1, <2>2
<1> PICK labelled \in BOOLEAN : labelled <=> LabelBehind /\ End \in DOMAIN labels
  <2>1. CASE LabelBehind /\ End \in DOMAIN labels
    BY <2>1, TRUE \in BOOLEAN
  <2>2. CASE ~ (LabelBehind /\ End \in DOMAIN labels)
    BY <2>2, FALSE \in BOOLEAN
  <2> QED
    BY <2>1, <2>2
<1>8. Written(listing, listing', End, 0, labelled)
  <2>1. CASE LabelBehind /\ End \in DOMAIN labels
    <3>1. labelled = TRUE /\ listing' = listing \o print_label(End)
      BY <1>5, <2>1 DEF print_label_at
    <3> QED
      BY <1>1, <1>2, <3>1, LabelWritten
  <2>2. CASE ~ (LabelBehind /\ End \in DOMAIN labels)
    <3>1. labelled = FALSE /\ listing' = listing
      BY <1>1, <1>5, <2>2 DEF print_label_at, Listings
    <3> QED
      BY <1>1, <1>2, <3>1, NothingWritten
  <2> QED
    BY <2>1, <2>2
<1>9. /\ listing' \in Listings
      /\ \A b \in Int : Covers(listing', b) <=> Covers(listing, b)
      /\ \A b : HasLabel(listing', b) <=> HasLabel(listing, b) \/ (labelled /\ b = End)
      /\ \A b : HasLine(listing', b) <=> HasLine(listing, b)
      /\ InOrder(listing) /\ EndsBy(listing, End) =>
            InOrder(listing') /\ EndsBy(listing', End)
      /\ LabelsOnce(listing) /\ ~ HasLabel(listing, End) => LabelsOnce(listing')
  <2>1. End + 0 = End /\ \A b \in Int : ~ (End <= b /\ b < End + 0)
    BY <1>2
  <2> QED
    BY <1>8, <2>1 DEF Written
<1>10. PrintedSoFar'
  <2> SUFFICES ASSUME WholeVtables
               PROVE  /\ InOrder(listing') /\ EndsBy(listing', c)
                      /\ \A a \in Int : Covers(listing', a) <=> a < c /\ IsListed(a)
    BY <1>3, <1>5 DEF PrintedSoFar
  <2>1. /\ InOrder(listing) /\ EndsBy(listing, End)
        /\ \A a \in Int : Covers(listing, a) <=> a < End /\ IsListed(a)
    BY <1>4 DEF ListingInv, PrintedSoFar
  <2>2. EndsBy(listing', c)
    BY <1>2, <1>7, <1>9, <2>1, ListingItems DEF EndsBy
  <2> QED
    BY <1>2, <1>7, <1>9, <2>1, <2>2 DEF IsListed
<1>11. \A a : HasLabel(listing, a) => a \in Nat /\ a < End
  <2>1. \A a : HasLabel(listing, a) => a \in Nat
    BY <1>1, PrintedAddress
  <2>2. \A a : HasLabel(listing, a) => MayBeLabelled(a)
    BY <1>4 DEF ListingInv, LabelsSoFar
  <2> QED
    BY <1>1, <2>1, <2>2 DEF MayBeLabelled
<1>12. LabelsSoFar'
  <2>1. LabelsOnce(listing')
    BY <1>2, <1>9, <1>11 DEF ListingInv, LabelsSoFar
  <2>2. ASSUME NEW a, HasLabel(listing', a) PROVE MayBeLabelled(a)'
    <3>1. CASE NextRegion = NULL
      BY <1>5, <3>1 DEF MayBeLabelled
    <3>2. CASE NextRegion # NULL
      <4>1. a < NextRegion
        <5>1. CASE HasLabel(listing, a)
          BY <1>2, <1>6, <1>11, <3>2, <5>1
        <5>2. CASE labelled /\ a = End
          BY <1>2, <1>6, <3>2, <5>2 DEF LabelBehind
        <5> QED
          BY <1>9, <2>2, <5>1, <5>2
      <4> QED
        BY <1>5, <3>2, <4>1 DEF MayBeLabelled
    <3> QED
      BY <3>1, <3>2
  <2>3. ASSUME NEW a, HasLine(listing', a) PROVE a < c
    <3>1. HasLine(listing, a) /\ a \in Nat
      BY <1>1, <1>9, <2>3, PrintedAddress
    <3>2. a < End
      BY <1>4, <3>1 DEF ListingInv, LabelsSoFar
    <3> QED
      BY <1>2, <1>7, <3>1, <3>2
  <2>4. ASSUME NEW a \in DOMAIN labels, a < c, HasKind(regions, a, "DATA")
        PROVE  HasLine(listing', a)
    <3>1. IsMapped(regions, a) /\ a \in Int
      BY <1>2, <2>4 DEF IsMapped, HasKind
    <3>2. a < End
      BY <1>2, <1>7, <2>4, <3>1
    <3> QED
      BY <1>4, <1>9, <2>4, <3>2 DEF ListingInv, LabelsSoFar
  <2>5. \A a \in DOMAIN labels :
            HasLine(listing', a)
            /\ (HasKind(regions, a, "CODE") \/ HasKind(regions, a, "DATA"))
                => HasLabel(listing', a)
    BY <1>4, <1>9 DEF ListingInv, LabelsSoFar
  <2>6. loop' # "piece"
    BY <1>5
  <2> QED
    BY <1>3, <2>1, <2>2, <2>3, <2>4, <2>5, <2>6 DEF LabelsSoFar
<1>13. Place'
  <2>1. reg' \in DOMAIN regions' /\ reg' # NULL /\ stage' = "print"
    BY <1>1, <1>3, <1>5, <1>6
  <2>2. loop' = "end" => NextRegion' = NULL
    BY <1>3, <1>5
  <2>3. loop' \in {"end", "region"}
    BY <1>5
  <2> QED
    BY <1>9, <2>1, <2>2, <2>3 DEF Place
<1>14. \A a \in Int : IsMapped(regions, a) /\ a < Cursor' => a < Cursor
  BY <1>2, <1>4, <1>7
<1> QED
  BY <1>9, <1>10, <1>12, <1>13, <1>14 DEF ListingInv, SameLines

\* An assertion or a null pointer leaves the listing as it is.
LEMMA StopStep ==
    ASSUME KnownInv, ListingInv, stage = "print", reg # NULL, UNCHANGED kvars,
           VtableWithoutLabel \/ AddressWithoutLabel \/ EntryWithoutLabel
    PROVE  ListingInv'
<1>1. /\ loop' \in {"crashed", "aborted"}
      /\ UNCHANGED <<reg, addr, len, next_label, listing>>
  BY DEF VtableWithoutLabel, AddressWithoutLabel, EntryWithoutLabel
<1>2. ~ Running' /\ WholeVtables' = WholeVtables /\ regions' = regions
      /\ stage' = stage
  BY <1>1, PrintFrame DEF Running
<1>3. Place' /\ PrintedSoFar' /\ LabelsSoFar'
  BY <1>1, <1>2 DEF ListingInv, Place, PrintedSoFar, LabelsSoFar
<1> QED
  BY <1>3 DEF ListingInv

\* Nothing has been printed.
NotBegun ==
    TypeOK /\ WellFormed(regions) /\ reg = NULL /\ loop = "region" /\ listing = <<>>

LEMMA EmptyListing == NotBegun => ListingInv
<1> SUFFICES ASSUME NotBegun PROVE ListingInv
  OBVIOUS
<1>1. /\ reg = NULL /\ loop = "region" /\ listing = <<>> /\ DOMAIN labels \subseteq Nat
      /\ WellFormed(regions)
  BY DEF NotBegun, TypeOK, Address
<1>2. listing \in Listings /\ DOMAIN listing = {}
  BY <1>1 DEF Listings
<1>3. /\ \A a : ~ HasLabel(listing, a) /\ ~ HasLine(listing, a) /\ ~ Covers(listing, a)
      /\ InOrder(listing) /\ EndsBy(listing, 0) /\ LabelsOnce(listing)
  BY <1>2 DEF HasLabel, HasLine, Covers, InOrder, EndsBy, LabelsOnce
<1>4. Cursor = 0
  BY <1>1 DEF Cursor
<1>5. \A a \in Int : a < 0 => ~ IsListed(a)
  BY <1>1, EndAddress DEF IsListed, IsMapped, InRegion
<1>6. \A a \in DOMAIN labels : ~ (a < 0)
  BY <1>1
<1> QED
  BY <1>1, <1>2, <1>3, <1>4, <1>5, <1>6
     DEF ListingInv, Place, PrintedSoFar, LabelsSoFar

LEMMA StartPrintingStep ==
    ASSUME KnownInv, ListingInv, stage = "print", UNCHANGED kvars, StartPrinting
    PROVE  /\ ListingInv' /\ reg' # NULL
           /\ \A a \in Int : IsMapped(regions, a) => ~ (a < Cursor')
<1>1. /\ TypeOK /\ RegionsPartition /\ WellFormed(regions)
      /\ reg = NULL /\ loop = "region" /\ listing = <<>> /\ listing \in Listings
      /\ reg' = FirstRegion
      /\ UNCHANGED <<loop, addr, len, next_label, listing>>
  BY PrintFacts DEF StartPrinting, ListingInv, Place
<1>2. \A k \in DOMAIN regions :
        /\ k \in Nat /\ regions[k].address = k /\ regions[k].size \in Nat \ {0}
  BY <1>1, EndAddress
<1>3. DOMAIN regions # {}
  <2>1. exe.eip_object \in Objects
    BY <1>1, ExecutableFacts DEF IsExecutable, Objects
  <2>2. PICK a : a = exe.objects[exe.eip_object].base
    OBVIOUS
  <2>3. a \in Address /\ a \in ObjectBytes(exe.objects[exe.eip_object])
    BY <1>1, <2>1, <2>2, ExecutableFacts, AddrSpaceAssumption DEF ObjectBytes, Address
  <2>4. IsMapped(regions, a)
    BY <1>1, <2>1, <2>3, ObjectFound DEF RegionsPartition
  <2> QED
    BY <2>4 DEF IsMapped
<1>4. reg' \in DOMAIN regions /\ \A k \in DOMAIN regions : reg' <= k
  <2>1. \E k \in DOMAIN regions : \A j \in DOMAIN regions : k <= j
    BY <1>2, <1>3, LeastNat
  <2> QED
    BY <1>1, <2>1 DEF FirstRegion
<1>5. reg' \in Nat /\ reg' # NULL
  BY <1>2, <1>4, NullAssumption
<1>6. /\ regions' = regions /\ labels' = labels /\ stage' = stage
      /\ WholeVtables' = WholeVtables
      /\ \A a : IsListed(a)' <=> IsListed(a)
  BY PrintFrame
<1>7. \A a \in Int : a < reg' => ~ IsMapped(regions, a)
  BY <1>2, <1>4, <1>5 DEF IsMapped, InRegion
<1>8. DOMAIN listing = {}
  BY <1>1
<1>9. /\ \A a : ~ HasLabel(listing, a) /\ ~ HasLine(listing, a) /\ ~ Covers(listing, a)
      /\ \A a : InOrder(listing) /\ EndsBy(listing, a) /\ LabelsOnce(listing)
  BY <1>8 DEF HasLabel, HasLine, Covers, InOrder, EndsBy, LabelsOnce
<1>10. Cursor' = reg' /\ Running'
  BY <1>1, <1>5 DEF Cursor, Running
<1>11. PrintedSoFar'
  BY <1>1, <1>6, <1>7, <1>9, <1>10 DEF PrintedSoFar, IsListed
<1>12. LabelsSoFar'
  <2>1. DOMAIN labels \subseteq Nat
    BY <1>1 DEF TypeOK, Address
  <2>2. \A a \in DOMAIN labels : a < reg' => ~ HasKind(regions, a, "DATA")
    BY <1>7, <2>1 DEF IsMapped, HasKind
  <2> QED
    BY <1>1, <1>6, <1>9, <1>10, <2>2 DEF LabelsSoFar
<1>13. Place'
  BY <1>1, <1>4, <1>5, <1>6 DEF Place
<1> QED
  BY <1>5, <1>7, <1>10, <1>11, <1>12, <1>13 DEF ListingInv

LEMMA ListingInit == PrinterInit => KnownInv /\ ListingInv
<1> SUFFICES ASSUME PrinterInit PROVE KnownInv /\ ListingInv
  OBVIOUS
<1>1. KnownInv /\ Inv
  BY KnownInitInv, InitInv DEF PrinterInit, KnownInit
<1>2. NotBegun
  BY <1>1 DEF Inv, RegionsPartition, NotBegun, PrinterInit
<1> QED
  BY <1>1, <1>2, EmptyListing

LEMMA ListingStep == KnownInv /\ ListingInv /\ [PrinterNext]_pvars => KnownInv' /\ ListingInv'
<1> SUFFICES ASSUME KnownInv, ListingInv, [PrinterNext]_pvars
             PROVE  KnownInv' /\ ListingInv'
  OBVIOUS
<1>1. KnownInv'
  BY KnownStepInv DEF PrinterNext, analyse, print_code, pvars
<1>2. CASE UNCHANGED pvars
  <2>1. /\ UNCHANGED kvars
        /\ UNCHANGED <<loop, reg, addr, len, next_label, listing>>
    BY <1>2 DEF pvars
  <2>2. /\ stage' = stage /\ regions' = regions /\ labels' = labels
        /\ WholeVtables' = WholeVtables
        /\ \A a : IsListed(a)' <=> IsListed(a)
        /\ Type' = Type /\ End' = End /\ NextRegion' = NextRegion
    BY <2>1, PrintFrame
  <2>3. Cursor' = Cursor /\ Running' = Running
        /\ \A a : MayBeLabelled(a)' <=> MayBeLabelled(a)
    BY <2>1, <2>2 DEF Cursor, Running, MayBeLabelled
  <2>4. Place'
    BY <2>1, <2>2 DEF ListingInv, Place
  <2>5. PrintedSoFar'
    BY <2>1, <2>2, <2>3 DEF ListingInv, PrintedSoFar
  <2>6. LabelsSoFar'
    BY <2>1, <2>2, <2>3 DEF ListingInv, LabelsSoFar
  <2> QED
    BY <1>1, <2>4, <2>5, <2>6 DEF ListingInv
<1>3. CASE analyse
  <2>1. stage # "print"
    BY <1>3 DEF analyse, KnownNext, insert_known_region, known_regions_done,
         set_known_label, known_labels_done, add_labels_to_trace_queue,
         labels_queued, run, post_anal_fixups_apply
  <2>2. reg = NULL /\ loop = "region" /\ listing = <<>>
    BY <2>1 DEF ListingInv, Place
  <2>3. TypeOK' /\ WellFormed(regions)'
    BY <1>1 DEF KnownInv, Preparing, Prepared, Inv, RegionsPartition
  <2>4. NotBegun'
    BY <1>3, <2>2, <2>3 DEF analyse, NotBegun
  <2>5. NotBegun' => ListingInv'
    BY EmptyListing, PTL
  <2> QED
    BY <1>1, <2>4, <2>5
<1>4. CASE print_code
  <2>1. stage = "print" /\ UNCHANGED kvars
    BY <1>4 DEF print_code
  <2>2. CASE StartPrinting
    BY <1>1, <2>1, <2>2, StartPrintingStep
  <2>3. CASE reg # NULL
    BY <1>1, <1>4, <2>1, <2>2, <2>3, BeginRegionStep, SkipUnknownStep, BeginVtableStep,
       StopStep, PrintInstructionStep, StartPieceStep, PrintAddressStep,
       PieceDoneStep, PrintVtableWordStep, RegionDoneStep, AdvanceRegionStep
       DEF print_code, print_region
  <2>4. CASE reg = NULL
    <3>1. loop = "region"
      BY <2>4 DEF ListingInv, Place
    <3> QED
      BY <1>1, <1>4, <2>2, <2>4, <3>1 DEF print_code, print_region, BeginRegion,
         SkipUnknown, BeginVtable, VtableWithoutLabel, PrintInstruction, StartPiece,
         PrintAddress, AddressWithoutLabel, PrintData, PieceDone, PrintVtableWord,
         EntryWithoutLabel, RegionDone, AdvanceRegion
  <2> QED
    BY <2>3, <2>4
<1> QED
  BY <1>2, <1>3, <1>4 DEF PrinterNext

LEMMA ListingHolds == PrinterSpec => [](KnownInv /\ ListingInv)
<1> QED
  BY ListingInit, ListingStep, PTL DEF PrinterSpec

LEMMA ListingWords ==
    ASSUME ListingInv
    PROVE  /\ DOMAIN listing = 1 .. Len(listing) /\ Len(listing) \in Nat
           /\ \A a : a \in PrintedBytes <=> a \in Int /\ Covers(listing, a)
           /\ \A a : a \in Labels <=> HasLabel(listing, a)
           /\ \A a : a \in Lines <=> HasLine(listing, a)
<1>1. listing \in Listings
  BY DEF ListingInv, Place
<1>2. DOMAIN listing = 1 .. Len(listing) /\ Len(listing) \in Nat
  BY <1>1, SeqDomain DEF Listings
<1>3. \A i \in DOMAIN listing : listing[i].address \in Nat /\ listing[i].size \in Nat
  BY <1>1, ListingItems
<1>4. \A a : a \in PrintedBytes <=> a \in Int /\ Covers(listing, a)
  BY <1>3 DEF PrintedBytes, Covers
<1>5. \A a : a \in Labels <=> HasLabel(listing, a)
  BY DEF Labels, HasLabel
<1>6. \A a : a \in Lines <=> HasLine(listing, a)
  BY DEF Lines, HasLine
<1> QED
  BY <1>2, <1>4, <1>5, <1>6

\* At the end the cursor is behind every byte.
LEMMA AtTheEnd ==
    ASSUME KnownInv, ListingInv, loop = "end"
    PROVE  /\ WellFormed(regions) /\ Running
           /\ \A a : IsMapped(regions, a) /\ a \in Int => a < Cursor /\ a \in Address
<1>1. reg # NULL /\ reg \in DOMAIN regions /\ stage = "print" /\ NextRegion = NULL
  BY DEF ListingInv, Place
<1>2. WellFormed(regions)
  BY <1>1, PrintFacts
<1>3. Cursor = End /\ Running /\ End \in Nat
  BY <1>1, <1>2, RegionInPrint DEF Cursor, Running
<1>4. \A a \in Int : IsMapped(regions, a) => a < End
  BY <1>1, <1>2, <1>3, BehindRegion
<1>5. \A a \in Int : IsMapped(regions, a) => a \in Address
  <2> SUFFICES ASSUME NEW a \in Int, NEW k \in DOMAIN regions, InRegion(regions, k, a)
               PROVE  a \in Address
    BY DEF IsMapped
  <2>1. k \in Nat /\ regions[k].address = k /\ regions[k].size \in Nat
        /\ k + regions[k].size < AddrSpace
    BY <1>2, EndAddress DEF WellFormed
  <2> QED
    BY <2>1, AddrSpaceAssumption DEF InRegion, Address
<1> QED
  BY <1>2, <1>3, <1>4, <1>5

\* The listing is in order and complete: print_code and print_region, between
\* them, write every byte that is not unknown once (le_disasm.cpp:515-553).
THEOREM PrintsOnce == PrinterSpec => []PrintedOnce
<1>1. KnownInv /\ ListingInv => PrintedOnce
  <2> SUFFICES ASSUME KnownInv, ListingInv, WholeVtables
               PROVE  /\ \A i \in 1 .. Len(listing) - 1 :
                            listing[i].address + listing[i].size
                                <= listing[i + 1].address
                      /\ loop = "end" =>
                            PrintedBytes = {a \in Address : IsListed(a)}
    BY DEF PrintedOnce, WholeVtables, IsListed
  <2>1. DOMAIN listing = 1 .. Len(listing) /\ Len(listing) \in Nat
    BY ListingWords
  <2>2. InOrder(listing)
    BY DEF ListingInv, PrintedSoFar
  <2>3. ASSUME NEW i \in 1 .. Len(listing) - 1
        PROVE  listing[i].address + listing[i].size <= listing[i + 1].address
    <3>1. PICK j : j = i + 1
      OBVIOUS
    <3>2. i \in DOMAIN listing /\ j \in DOMAIN listing /\ i < j
      BY <2>1, <3>1
    <3> QED
      BY <2>2, <3>1, <3>2 DEF InOrder
  <2>4. ASSUME loop = "end", NEW a
        PROVE  a \in PrintedBytes <=> a \in Address /\ IsListed(a)
    <3>1. Running /\ \A b \in Int : IsMapped(regions, b) => b < Cursor /\ b \in Address
      BY <2>4, AtTheEnd
    <3>2. \A b \in Int : Covers(listing, b) <=> b < Cursor /\ IsListed(b)
      BY <3>1 DEF ListingInv, PrintedSoFar
    <3>3. a \in PrintedBytes <=> a \in Int /\ Covers(listing, a)
      BY ListingWords
    <3>4. Address \subseteq Int
      BY DEF Address
    <3> QED
      BY <3>1, <3>2, <3>3, <3>4 DEF IsListed
  <2> QED
    BY <2>3, <2>4
<1> QED
  BY <1>1, ListingHolds, PTL

\* print_code and print_region share the labels between them: none is defined
\* twice, although both print those at the ends of regions (le_disasm.cpp:542-550).
THEOREM PrintsLabels == PrinterSpec => []LabelsPrinted
<1>1. KnownInv /\ ListingInv => LabelsPrinted
  <2> SUFFICES ASSUME KnownInv, ListingInv PROVE LabelsPrinted
    OBVIOUS
  <2>1. LabelsOnce(listing)
    BY DEF ListingInv, LabelsSoFar
  <2>2. ASSUME loop = "end", NEW a \in DOMAIN labels
        PROVE  /\ HasKind(regions, a, "DATA") => a \in Lines
               /\ a \in Lines /\ (HasKind(regions, a, "CODE") \/ HasKind(regions, a, "DATA"))
                    => a \in Labels
    <3>1. Running /\ \A b \in Int : IsMapped(regions, b) => b < Cursor
      BY <2>2, AtTheEnd
    <3>2. a \in Int
      <4>1. TypeOK
        BY <2>2, PrintFacts DEF ListingInv, Place
      <4> QED
        BY <4>1 DEF TypeOK, Address
    <3>3. HasKind(regions, a, "DATA") => a < Cursor
      BY <3>1, <3>2 DEF HasKind, IsMapped
    <3>4. /\ HasKind(regions, a, "DATA") => HasLine(listing, a)
          /\ HasLine(listing, a)
             /\ (HasKind(regions, a, "CODE") \/ HasKind(regions, a, "DATA"))
                => HasLabel(listing, a)
      BY <3>1, <3>3 DEF ListingInv, LabelsSoFar
    <3> QED
      BY <3>4, ListingWords
  <2> QED
    BY <2>1, <2>2 DEF LabelsPrinted, LabelsOnce
<1> QED
  BY <1>1, ListingHolds, PTL

-----------------------------------------------------------------------------
(* Code is printed as it was traced. *)

\* No instruction in the region was cut when it was traced.
AsTraced(k) == \A a \in RegionBytes(k) \cap DOMAIN traced : traced[a] \in exe.text[a]

\* The lines so far begin at the traced instructions, and the next one does.
LinesTraced ==
    \A k \in DOMAIN regions :
        regions[k].type = "CODE" /\ AsTraced(k) =>
            \A a \in RegionBytes(k) :
                a < Cursor => (HasLine(listing, a) <=> a \in DOMAIN traced)

NextIsTraced ==
    loop = "lines" /\ Type = "CODE" /\ addr < End /\ AsTraced(reg)
        => addr \in DOMAIN traced

TracePrinted == Running => LinesTraced /\ NextIsTraced

\* The instructions of a region of code follow one another from its start to
\* its end.
LEMMA InstructionsFollow ==
    ASSUME KnownInv, KnownCode, stage = "print",
           NEW k \in DOMAIN regions, regions[k].type = "CODE",
           NEW end, end = k + regions[k].size
    PROVE  /\ k \in DOMAIN traced
           /\ \A a \in DOMAIN traced :
                k <= a /\ a < end =>
                    /\ traced[a].size \in Nat \ {0}
                    /\ a + traced[a].size <= end
                    /\ a + traced[a].size < end => a + traced[a].size \in DOMAIN traced
                    /\ \A b \in DOMAIN traced : ~ (a < b /\ b < a + traced[a].size)
<1>1. /\ TypeOK /\ WellFormed(regions) /\ CodeInv /\ TracedInOneRegion
      /\ phase = "done"
  BY PrintFacts DEF KnownCode, KnownInv
<1>2. ~ IsTracing
  BY <1>1 DEF TypeOK, IsTracing
<1>3. /\ k \in Nat /\ regions[k].address = k /\ regions[k].size \in Nat \ {0}
      /\ end \in Nat /\ k < end /\ end < AddrSpace
  BY <1>1, EndAddress, AddrSpaceAssumption DEF Address
<1>4. \A a \in DOMAIN traced : a \in Nat /\ traced[a].size \in Nat \ {0}
  BY <1>1, AddrSpaceAssumption DEF TypeOK, InstructionSet, Address
<1>5. ASSUME NEW a \in DOMAIN traced, NEW b \in Nat, k <= b, b < end,
             a <= b, b < a + traced[a].size
      PROVE  k <= a /\ a + traced[a].size <= end
  <2>1. PICK j \in DOMAIN regions :
          /\ regions[j].type = "CODE" /\ j <= a
          /\ a + traced[a].size <= j + regions[j].size
    BY <1>1, <1>2 DEF TracedInOneRegion, HeldAsCode
  <2>2. j \in Nat /\ regions[j].size \in Nat
    BY <1>1, <2>1, EndAddress
  <2>3. /\ j < k => j + regions[j].size <= k
        /\ k < j => end <= j
    BY <1>1, <2>1 DEF WellFormed
  <2>4. j = k
    BY <1>3, <1>4, <1>5, <2>1, <2>2, <2>3
  <2> QED
    BY <2>1, <2>4
<1>6. ASSUME NEW b \in Nat, k <= b, b < end
      PROVE  \E a \in DOMAIN traced : k <= a /\ a <= b /\ b < a + traced[a].size
  <2>1. b \in Address
    BY <1>3, <1>6, AddrSpaceAssumption DEF Address
  <2>2. HasKind(regions, b, "CODE")
    BY <1>3, <1>6 DEF HasKind, InRegion
  <2>3. IsDecoded(b)
    BY <1>1, <2>1, <2>2 DEF CodeInv, TracedIsCode
  <2> QED
    BY <1>5, <1>6, <2>3 DEF IsDecoded
<1>7. k \in DOMAIN traced
  <2>1. PICK a \in DOMAIN traced : k <= a /\ a <= k
    BY <1>3, <1>6
  <2> QED
    BY <1>3, <1>4, <2>1
<1>8. \A a, b \in DOMAIN traced : ~ (a < b /\ b < a + traced[a].size)
  BY <1>1, <1>4 DEF CodeInv, TracedApart
<1>9. ASSUME NEW a \in DOMAIN traced, k <= a, a < end
      PROVE  /\ a + traced[a].size <= end
             /\ a + traced[a].size < end => a + traced[a].size \in DOMAIN traced
  <2>1. a + traced[a].size <= end
    BY <1>4, <1>5, <1>9
  <2>2. PICK b \in Nat : b = a + traced[a].size
    BY <1>4
  <2>3. ASSUME b < end PROVE b \in DOMAIN traced
    <3>1. k <= b
      BY <1>3, <1>4, <1>9, <2>2
    <3>2. PICK i \in DOMAIN traced : i <= b /\ b < i + traced[i].size
      BY <1>6, <2>3, <3>1
    <3>3. i < a => i + traced[i].size <= a
      BY <1>1 DEF CodeInv, TracedApart
    <3>4. a < i => b <= i
      BY <1>1, <2>2 DEF CodeInv, TracedApart
    <3> QED
      BY <1>3, <1>4, <1>9, <2>2, <3>2, <3>3, <3>4
  <2> QED
    BY <2>1, <2>2, <2>3
<1> QED
  BY <1>4, <1>7, <1>8, <1>9

\* A step that writes no code and passes over none.
LEMMA NoCodePassed ==
    ASSUME KnownInv, stage = "print", UNCHANGED kvars, LinesTraced,
           \A a \in Int : a < Cursor => (HasLine(listing', a) <=> HasLine(listing, a)),
           \A a \in Int : a < Cursor' /\ HasKind(regions, a, "CODE") => a < Cursor
    PROVE  LinesTraced'
<1> SUFFICES ASSUME NEW k \in DOMAIN regions, regions[k].type = "CODE", AsTraced(k),
                    NEW a \in RegionBytes(k), a < Cursor'
             PROVE  HasLine(listing', a) <=> a \in DOMAIN traced
  BY PrintFrame DEF LinesTraced, RegionBytes, AsTraced
<1>1. k \in Nat /\ regions[k].address = k /\ regions[k].size \in Nat
  BY PrintFacts, EndAddress
<1>2. a \in Int /\ HasKind(regions, a, "CODE")
  BY <1>1 DEF RegionBytes, HasKind, InRegion
<1> QED
  BY <1>2 DEF LinesTraced

\* An instruction is printed as it was traced: no other one can be decoded at
\* its address, and it ends in the region.
LEMMA TracedInstructionPrinted ==
    ASSUME KnownInv, KnownCode, ListingInv, TracePrinted, stage = "print",
           reg # NULL, UNCHANGED kvars, PrintInstruction
    PROVE  TracePrinted'
<1>1. /\ TypeOK /\ RegionsPartition /\ WellFormed(regions) /\ reg \in DOMAIN regions
      /\ loop = "lines" /\ Type = "CODE" /\ addr < End
      /\ addr \in Nat /\ reg <= addr
  BY PrintFacts DEF PrintInstruction, ListingInv, Place
<1>2. /\ reg \in Nat /\ End \in Nat /\ reg < End /\ End = reg + regions[reg].size
      /\ \A a \in Int : reg <= a /\ a < End => IsMapped(regions, a)
  BY <1>1, RegionInPrint
<1>3. PICK inst \in disassemble(addr, End - addr) :
        addr' = addr + inst.size /\ UNCHANGED <<loop, reg, len, next_label>>
  BY DEF PrintInstruction
<1>4. LinesTraced /\ NextIsTraced /\ Running /\ Cursor = addr
  BY <1>1 DEF TracePrinted, Running, Cursor
<1>5. LineAt(listing, listing', addr)
  BY PrintInstructionStep
<1>6. \A a : HasLine(listing, a) => a < addr
  BY <1>4 DEF ListingInv, LabelsSoFar
<1>7. /\ regions' = regions /\ traced' = traced /\ exe' = exe
      /\ Type' = Type /\ End' = End
  BY <1>3, PrintFrame
<1>8. get_object_at_address(addr) # NULL
  BY <1>1, <1>2, EndAddress, AddrSpaceAssumption DEF RegionsPartition, Address, WellFormed
<1>9. inst.size \in 1 .. End - addr
  <2>1. End - addr \in Nat \ {0}
    BY <1>1, <1>2
  <2> QED
    BY <1>1, <1>8, <2>1, DecodedInstruction
<1>10. ASSUME AsTraced(reg)
       PROVE  /\ addr \in DOMAIN traced /\ inst = traced[addr]
              /\ addr + inst.size < End => addr + inst.size \in DOMAIN traced
              /\ \A b \in DOMAIN traced : ~ (addr < b /\ b < addr + inst.size)
  <2>1. addr \in DOMAIN traced
    BY <1>1, <1>4, <1>10 DEF NextIsTraced
  <2>2. traced[addr] \in exe.text[addr]
    <3>1. addr \in RegionBytes(reg)
      BY <1>1, <1>2, EndAddress DEF RegionBytes
    <3> QED
      BY <1>10, <2>1, <3>1 DEF AsTraced
  <2>3. PICK n \in Objects : addr \in ObjectBytes(exe.objects[n])
    BY <1>1, <1>8, ObjectFound
  <2>4. exe.text[addr] = {traced[addr]}
    BY <1>1, <2>2, <2>3, OneMeaning DEF TypeOK, Objects
  <2>5. /\ traced[addr].size \in Nat
        /\ addr + traced[addr].size <= End
        /\ addr + traced[addr].size < End => addr + traced[addr].size \in DOMAIN traced
        /\ \A b \in DOMAIN traced : ~ (addr < b /\ b < addr + traced[addr].size)
    BY <1>1, <1>2, <2>1, InstructionsFollow DEF Type
  <2>6. traced[addr].size <= End - addr
    BY <1>1, <1>2, <2>5
  <2>7. inst = traced[addr]
    BY <2>4, <2>6 DEF disassemble
  <2> QED
    BY <2>1, <2>5, <2>7
<1>11. NextIsTraced'
  <2>1. AsTraced(reg)' <=> AsTraced(reg)
    BY <1>3, <1>7 DEF AsTraced, RegionBytes
  <2> QED
    BY <1>3, <1>7, <1>10, <2>1 DEF NextIsTraced
<1>12. LinesTraced'
  <2> SUFFICES ASSUME NEW k \in DOMAIN regions, regions[k].type = "CODE", AsTraced(k),
                      NEW a \in RegionBytes(k), a < Cursor'
               PROVE  HasLine(listing', a) <=> a \in DOMAIN traced
    BY <1>7 DEF LinesTraced, RegionBytes, AsTraced
  <2>1. /\ k \in Nat /\ regions[k].size \in Nat /\ a \in Nat
        /\ k <= a /\ a < k + regions[k].size
    BY <1>1, EndAddress DEF RegionBytes
  <2>2. CASE a < addr
    BY <1>4, <1>5, <2>1, <2>2, <1>1 DEF LinesTraced, LineAt
  <2>3. CASE addr <= a
    <3>1. a < addr + inst.size /\ a < End
      BY <1>1, <1>2, <1>3, <1>7, <1>9, <2>1 DEF Cursor
    <3>2. k = reg
      <4>1. /\ k < reg => k + regions[k].size <= reg
            /\ reg < k => End <= k
        BY <1>1, <1>2 DEF WellFormed
      <4> QED
        BY <1>1, <1>2, <2>1, <2>3, <3>1, <4>1
    <3>3. HasLine(listing', a) <=> a = addr
      BY <1>1, <1>5, <1>6, <2>1, <2>3 DEF LineAt
    <3>4. a \in DOMAIN traced <=> a = addr
      BY <1>1, <1>10, <2>1, <2>3, <3>1, <3>2
    <3> QED
      BY <3>3, <3>4
  <2> QED
    BY <1>1, <2>1, <2>2, <2>3
<1> QED
  BY <1>11, <1>12 DEF TracePrinted

\* The other steps inside a region: what they write and pass over is not code.
LEMMA NoCodeHere ==
    ASSUME KnownInv, ListingInv, TracePrinted, stage = "print", reg # NULL,
           UNCHANGED kvars, Running, reg' = reg, loop' # "region",
           Type # "CODE" \/ Cursor = End,
           \/ SameLines(listing, listing')
           \/ LineAt(listing, listing', addr) /\ Cursor = addr
    PROVE  LinesTraced'
<1>1. WellFormed(regions) /\ reg \in DOMAIN regions /\ LinesTraced
  BY PrintFacts DEF ListingInv, Place, TracePrinted
<1>2. /\ reg \in Nat /\ End \in Nat /\ reg < End
      /\ \A a \in Int : reg <= a /\ a < End =>
            \A t : HasKind(regions, a, t) <=> t = Type
  BY <1>1, RegionInPrint
<1>3. PICK c \in Nat : c = Cursor /\ reg <= c
  BY <1>2 DEF Cursor, ListingInv, Place
<1>4. PICK d : d = Cursor'
  OBVIOUS
<1>5. \A a \in Int : a < d => a < End
  BY <1>2, <1>4, PrintFrame DEF Cursor
<1>6. \A a \in Int : a < d /\ HasKind(regions, a, "CODE") => a < c
  BY <1>2, <1>3, <1>5
<1>7. \A a \in Int : a < c => (HasLine(listing', a) <=> HasLine(listing, a))
  BY <1>3 DEF SameLines, LineAt
<1> QED
  BY <1>1, <1>3, <1>4, <1>6, <1>7, NoCodePassed

LEMMA TracePrintedStep ==
    ASSUME KnownInv, KnownCode, ListingInv, TracePrinted, stage = "print",
           UNCHANGED kvars, print_code
    PROVE  TracePrinted'
<1>1. /\ regions' = regions /\ traced' = traced /\ exe' = exe
      /\ reg' = reg => Type' = Type /\ End' = End
  BY PrintFrame
<1>2. CASE StartPrinting
  <2>1. /\ ListingInv' /\ loop' = "region"
        /\ \A a \in Int : IsMapped(regions, a) => ~ (a < Cursor')
    BY <1>2, StartPrintingStep DEF StartPrinting
  <2>2. WellFormed(regions)
    BY PrintFacts
  <2>3. \A k \in DOMAIN regions : \A a \in RegionBytes(k) : ~ (a < Cursor')
    <3> SUFFICES ASSUME NEW k \in DOMAIN regions, NEW a \in RegionBytes(k)
                 PROVE  ~ (a < Cursor')
      OBVIOUS
    <3>1. k \in Nat /\ regions[k].address = k /\ regions[k].size \in Nat
      BY <2>2, EndAddress
    <3>2. a \in Int /\ IsMapped(regions, a)
      BY <3>1 DEF RegionBytes, IsMapped, InRegion
    <3> QED
      BY <2>1, <3>2
  <2> QED
    BY <1>1, <2>1, <2>3 DEF TracePrinted, LinesTraced, NextIsTraced, RegionBytes
<1>3. CASE reg = NULL /\ ~ StartPrinting
  <2>1. loop = "region"
    BY <1>3 DEF ListingInv, Place
  <2> QED
    BY <1>3, <2>1 DEF print_code, print_region, BeginRegion, SkipUnknown,
       BeginVtable, VtableWithoutLabel, PrintInstruction, StartPiece, PrintAddress,
       AddressWithoutLabel, PrintData, PieceDone, PrintVtableWord,
       EntryWithoutLabel, RegionDone, AdvanceRegion
<1>4. ASSUME reg # NULL
      PROVE  /\ WellFormed(regions) /\ reg \in DOMAIN regions
             /\ reg \in Nat /\ End \in Nat /\ reg < End
             /\ loop \in {"lines", "piece"} => addr \in Nat /\ reg <= addr
             /\ loop = "piece" => Type = "DATA" /\ len \in Nat /\ addr + len <= End
  BY <1>4, PrintFacts, RegionInPrint DEF ListingInv, Place
<1>5. CASE reg # NULL /\ PrintInstruction
  BY <1>5, TracedInstructionPrinted
<1>6. CASE reg # NULL /\ BeginRegion
  <2>1. /\ loop = "region" /\ loop' = "lines" /\ reg' = reg /\ addr' = reg
        /\ listing' = listing
    BY <1>6 DEF BeginRegion
  <2>2. Running /\ Cursor' = Cursor
    BY <1>1, <1>4, <1>6, <2>1 DEF Running, Cursor
  <2>3. LinesTraced'
    BY <1>1, <2>1, <2>2 DEF TracePrinted, LinesTraced, RegionBytes, AsTraced
  <2>4. NextIsTraced'
    <3>1. Type = "CODE" => reg \in DOMAIN traced
      BY <1>4, <1>6, InstructionsFollow DEF Type
    <3> QED
      BY <1>1, <2>1, <3>1 DEF NextIsTraced
  <2> QED
    BY <2>3, <2>4 DEF TracePrinted
<1>7. CASE reg # NULL /\ (SkipUnknown \/ BeginVtable \/ StartPiece)
  <2>1. /\ reg' = reg /\ loop' # "region" /\ Type # "CODE" /\ Running
    BY <1>7 DEF SkipUnknown, BeginVtable, StartPiece, Running
  <2>2. SameLines(listing, listing')
    BY <1>7, BeginVtableStep, StartPieceStep DEF SkipUnknown, SameLines
  <2>3. LinesTraced'
    BY <1>7, <2>1, <2>2, NoCodeHere
  <2> QED
    BY <1>1, <2>1, <2>3 DEF TracePrinted, NextIsTraced
<1>8. CASE reg # NULL /\ (PrintAddress \/ PrintData \/ PrintVtableWord)
  <2>1. /\ reg' = reg /\ loop' # "region" /\ Type # "CODE" /\ Running
        /\ Cursor = addr
    BY <1>4, <1>8 DEF PrintAddress, PrintData, PrintVtableWord, Running, Cursor
  <2>2. LineAt(listing, listing', addr)
    BY <1>8, PrintAddressStep, PrintVtableWordStep
  <2>3. LinesTraced'
    BY <1>8, <2>1, <2>2, NoCodeHere
  <2> QED
    BY <1>1, <2>1, <2>3 DEF TracePrinted, NextIsTraced
<1>9. CASE reg # NULL /\ (PieceDone \/ RegionDone)
  <2>1. /\ reg' = reg /\ loop' # "region" /\ listing' = listing /\ Running
    BY <1>9 DEF PieceDone, RegionDone, Running
  <2>2. Type # "CODE" \/ Cursor = End
    BY <1>4, <1>9 DEF PieceDone, RegionDone, Cursor
  <2>3. LinesTraced'
    BY <1>9, <2>1, <2>2, NoCodeHere DEF SameLines
  <2>4. loop' = "lines" => Type # "CODE"
    BY <1>4, <1>9 DEF PieceDone, RegionDone
  <2> QED
    BY <1>1, <2>1, <2>3, <2>4 DEF TracePrinted, NextIsTraced
<1>10. CASE reg # NULL /\ AdvanceRegion
  <2>1. /\ SameLines(listing, listing')
        /\ \A a \in Int : IsMapped(regions, a) /\ a < Cursor' => a < Cursor
        /\ loop = "after" /\ loop' \in {"region", "end", "aborted"}
    BY <1>10, AdvanceRegionStep DEF AdvanceRegion
  <2>2. Running /\ LinesTraced
    BY <2>1 DEF Running, TracePrinted
  <2>3. \A a \in Int : a < Cursor' /\ HasKind(regions, a, "CODE") => a < Cursor
    BY <2>1 DEF HasKind, IsMapped
  <2>4. LinesTraced'
    BY <2>1, <2>2, <2>3, NoCodePassed DEF SameLines
  <2> QED
    BY <2>1, <2>4 DEF TracePrinted, NextIsTraced
<1>11. CASE reg # NULL /\ (VtableWithoutLabel \/ AddressWithoutLabel \/ EntryWithoutLabel)
  BY <1>11 DEF VtableWithoutLabel, AddressWithoutLabel, EntryWithoutLabel,
     TracePrinted, Running
<1> QED
  BY <1>2, <1>3, <1>5, <1>6, <1>7, <1>8, <1>9, <1>10, <1>11
     DEF print_code, print_region

\* The instructions traced, up to their printing.
TraceInv == KnownCode /\ TracePrinted

LEMMA NothingPrinted ==
    ASSUME WellFormed(regions), reg = NULL, loop = "region"
    PROVE  TracePrinted
<1> SUFFICES ASSUME NEW k \in DOMAIN regions, NEW a \in RegionBytes(k)
             PROVE  ~ (a < Cursor)
  BY DEF TracePrinted, LinesTraced, NextIsTraced
<1>1. k \in Nat /\ a \in Nat
  BY EndAddress DEF RegionBytes
<1> QED
  BY <1>1 DEF Cursor

LEMMA TraceInit == PrinterInit => TraceInv
<1> SUFFICES ASSUME PrinterInit PROVE TraceInv
  OBVIOUS
<1>1. KnownCode /\ WellFormed(regions)
  BY KnownCodeInit, InitInv DEF PrinterInit, KnownInit, Inv, RegionsPartition
<1> QED
  BY <1>1, NothingPrinted DEF PrinterInit, TraceInv

LEMMA TraceStep ==
    KnownInv /\ ListingInv /\ TraceInv /\ [PrinterNext]_pvars => TraceInv'
<1> SUFFICES ASSUME KnownInv, ListingInv, TraceInv, [PrinterNext]_pvars
             PROVE  TraceInv'
  OBVIOUS
<1>1. KnownInv' /\ ListingInv'
  BY ListingStep
<1>2. KnownCode'
  BY KnownCodeStep DEF TraceInv, PrinterNext, analyse, print_code, pvars
<1>3. CASE UNCHANGED pvars
  <2>1. /\ UNCHANGED kvars
        /\ UNCHANGED <<loop, reg, addr, len, next_label, listing>>
    BY <1>3 DEF pvars
  <2>2. /\ regions' = regions /\ traced' = traced /\ exe' = exe
        /\ Type' = Type /\ End' = End
    BY <2>1, PrintFrame
  <2>3. Cursor' = Cursor /\ Running' = Running
    BY <2>1, <2>2 DEF Cursor, Running
  <2> QED
    BY <1>2, <2>1, <2>2, <2>3
       DEF TraceInv, TracePrinted, LinesTraced, NextIsTraced, RegionBytes, AsTraced
<1>4. CASE analyse
  <2>1. stage # "print" /\ UNCHANGED <<reg, loop>>
    BY <1>4 DEF analyse, KnownNext, insert_known_region, known_regions_done,
         set_known_label, known_labels_done, add_labels_to_trace_queue,
         labels_queued, run, post_anal_fixups_apply
  <2>2. reg' = NULL /\ loop' = "region"
    BY <2>1 DEF ListingInv, Place
  <2>3. WellFormed(regions)'
    BY <1>1 DEF KnownInv, Preparing, Prepared, Inv, RegionsPartition
  <2>4. (WellFormed(regions) /\ reg = NULL /\ loop = "region" => TracePrinted)'
    BY NothingPrinted, PTL
  <2> QED
    BY <1>2, <2>2, <2>3, <2>4 DEF TraceInv
<1>5. CASE print_code
  BY <1>2, <1>5, TracePrintedStep DEF TraceInv, print_code
<1> QED
  BY <1>3, <1>4, <1>5 DEF PrinterNext

\* A region of code is printed as the instructions traced in it, although
\* print_region decodes it again from its start (le_disasm.cpp:314-325),
\* unless one of them was cut by the end of a region.
THEOREM PrintsTraces == PrinterSpec => []PrintedAsTraced
<1>1. KnownInv /\ ListingInv /\ TraceInv => PrintedAsTraced
  <2> SUFFICES ASSUME KnownInv, ListingInv, TraceInv, loop = "end",
                      NEW k \in DOMAIN regions, regions[k].type = "CODE",
                      NEW found, found = DOMAIN traced \cap RegionBytes(k),
                      \A a \in found : traced[a] \in exe.text[a]
               PROVE  Lines \cap RegionBytes(k) = found
    BY DEF PrintedAsTraced
  <2>1. /\ WellFormed(regions) /\ Running
        /\ \A a \in Int : IsMapped(regions, a) => a < Cursor
    BY AtTheEnd
  <2>2. AsTraced(k) /\ LinesTraced
    BY <2>1 DEF AsTraced, TraceInv, TracePrinted
  <2>3. ASSUME NEW a \in RegionBytes(k)
        PROVE  a \in Lines <=> a \in DOMAIN traced
    <3>1. k \in Nat /\ regions[k].address = k /\ regions[k].size \in Nat
      BY <2>1, EndAddress
    <3>2. a \in Int /\ IsMapped(regions, a)
      BY <3>1 DEF RegionBytes, IsMapped, InRegion
    <3>3. HasLine(listing, a) <=> a \in DOMAIN traced
      BY <2>1, <2>2, <3>2 DEF LinesTraced
    <3> QED
      BY <3>3, ListingWords
  <2> QED
    BY <2>3
<1> QED
  BY <1>1, ListingHolds, TraceInit, TraceStep, PTL DEF PrinterSpec

-----------------------------------------------------------------------------
(* The labels of vtables, which are met word by word.                      *)

\* The label of the vtable is written, and the next one is not passed over.
NextLabelAhead ==
    /\ reg \in DOMAIN labels /\ HasLabel(listing, reg)
    /\ next_label # NULL => next_label \in DOMAIN labels
    /\ next_label # NULL /\ next_label < End => addr <= next_label
    /\ \A a \in DOMAIN labels :
        reg < a => a < addr \/ (next_label # NULL /\ next_label <= a)

VtablesSoFar ==
    Running =>
        /\ \A a \in DOMAIN labels :
            IsVtable(a) /\ a < Cursor => HasLabel(listing, a)
        /\ loop = "lines" /\ Type = "VTABLE" => NextLabelAhead

\* A label in the vtable in print is at one of its words.
LEMMA LabelAtWord ==
    ASSUME KnownInv, KnownVtables, stage = "print", reg \in DOMAIN regions,
           Type = "VTABLE", reg \in DOMAIN labels,
           NEW m \in Nat, addr = reg + WordSize * m,
           NEW a \in DOMAIN labels, a < End, reg < a, addr <= a, a # addr
    PROVE  addr + WordSize <= a
<1>1. /\ VtablesLeft /\ WellFormed(regions) /\ a \in Int
  BY PrintFacts, AddrSpaceAssumption DEF KnownVtables, TypeOK, Address
<1>2. /\ reg \in Nat /\ End \in Nat /\ reg < End
      /\ \A b \in Int : reg <= b /\ b < End =>
            \A t : HasKind(regions, b, t) <=> t = Type
  BY <1>1, RegionInPrint
<1>3. \A b \in Int : reg <= b /\ b < End => IsVtable(b) /\ ~ IsCode(b)
  BY <1>2 DEF IsVtable, IsCode
<1>4. reg \in get_fixup_addresses /\ a \in get_fixup_addresses
  BY <1>1, <1>2, <1>3 DEF VtablesLeft
<1>5. InStep(reg, a)
  <2>1. VtableFrom(reg, a) /\ ~ IsCode(a)
    BY <1>1, <1>2, <1>3 DEF VtableFrom
  <2> QED
    BY <1>1, <1>4, <2>1 DEF VtablesLeft, VtableBytes, VtablesWhole
<1>6. PICK n \in Nat : a = reg + WordSize * n
  BY <1>5 DEF InStep
<1>7. PICK x \in Nat, y \in Nat : x = WordSize * m /\ y = WordSize * n
  <2>1. WordSize * m \in Nat /\ WordSize * n \in Nat
    BY WordSizeAssumption
  <2> QED
    BY <2>1
<1>8. x < y
  BY <1>2, <1>6, <1>7
<1>9. x + WordSize <= y
  BY <1>7, <1>8, MultiplesApart, WordSizeAssumption
<1> QED
  BY <1>2, <1>6, <1>7, <1>9, WordSizeAssumption

LEMMA BeginVtableLabels ==
    ASSUME KnownInv, ListingInv, VtablesSoFar, stage = "print", reg # NULL,
           UNCHANGED kvars, BeginVtable
    PROVE  VtablesSoFar'
<1>1. /\ TypeOK /\ WellFormed(regions) /\ reg \in DOMAIN regions
      /\ loop = "region" /\ Type = "VTABLE" /\ loop' = "lines" /\ addr' = reg
      /\ reg \in DOMAIN labels /\ reg' = reg
      /\ next_label' = get_next_value(DOMAIN labels, reg)
  BY PrintFacts DEF BeginVtable, ListingInv, Place
<1>2. reg \in Nat /\ reg < End /\ End \in Nat
  BY <1>1, RegionInPrint
<1>3. regions' = regions /\ labels' = labels /\ Type' = Type /\ End' = End
  BY <1>1, PrintFrame
<1>4. Cursor = reg /\ Cursor' = reg /\ Running
  BY <1>1, <1>2, <1>3 DEF Cursor, Running
<1>5. HasLabel(listing', reg) /\ SameLines(listing, listing')
  BY BeginVtableStep
<1>6. NextLabelAhead'
  <2>1. DOMAIN labels \subseteq Nat
    BY <1>1 DEF TypeOK, Address
  <2>2. PICK v : v = next_label'
    OBVIOUS
  <2>3. \/ v = NULL /\ \A a \in DOMAIN labels : ~ (reg < a)
        \/ /\ v \in DOMAIN labels /\ v # NULL /\ reg < v
           /\ \A a \in DOMAIN labels : reg < a => v <= a
    BY <1>1, <2>1, <2>2, NextValue
  <2>4. v # NULL /\ v < End => reg <= v
    BY <1>2, <2>1, <2>3
  <2> QED
    BY <1>1, <1>3, <1>5, <2>2, <2>3, <2>4 DEF NextLabelAhead
<1> QED
  BY <1>3, <1>4, <1>5, <1>6 DEF VtablesSoFar, SameLines, IsVtable

LEMMA VtableWordLabels ==
    ASSUME KnownInv, KnownVtables, ListingInv, VtablesSoFar, stage = "print",
           reg # NULL, UNCHANGED kvars, PrintVtableWord
    PROVE  VtablesSoFar'
<1>1. /\ TypeOK /\ WellFormed(regions) /\ reg \in DOMAIN regions
      /\ loop = "lines" /\ loop' = "lines" /\ Type = "VTABLE" /\ addr < End
      /\ addr \in Nat /\ reg <= addr /\ addr' = addr + WordSize /\ reg' = reg
      /\ next_label # NULL => next_label \in Nat /\ reg < next_label
      /\ next_label' = IF AtNextLabel THEN get_next_value(DOMAIN labels, addr)
                       ELSE next_label
  BY PrintFacts DEF PrintVtableWord, ListingInv, Place
<1>2. PICK m \in Nat : addr = reg + WordSize * m
  BY <1>1 DEF ListingInv, Place
<1>3. reg \in Nat /\ reg < End /\ End \in Nat
  BY <1>1, RegionInPrint
<1>4. regions' = regions /\ labels' = labels /\ Type' = Type /\ End' = End
  BY <1>1, PrintFrame
<1>5. /\ \A b : HasLabel(listing, b) => HasLabel(listing', b)
      /\ AtNextLabel => HasLabel(listing', addr)
  BY PrintVtableWordStep DEF LineAt
<1>6. /\ Running /\ Cursor = addr
      /\ \A a \in DOMAIN labels : IsVtable(a) /\ a < addr => HasLabel(listing, a)
      /\ NextLabelAhead
  BY <1>1 DEF Cursor, Running, VtablesSoFar
<1>7. /\ reg \in DOMAIN labels /\ HasLabel(listing, reg)
      /\ next_label # NULL => next_label \in DOMAIN labels
      /\ next_label # NULL /\ next_label < End => addr <= next_label
      /\ \A a \in DOMAIN labels :
            reg < a => a < addr \/ (next_label # NULL /\ next_label <= a)
      /\ DOMAIN labels \subseteq Nat
  BY <1>1, <1>6 DEF NextLabelAhead, TypeOK, Address
<1>8. \A a \in DOMAIN labels :
        a < End /\ reg < a /\ addr <= a /\ a # addr => addr + WordSize <= a
  BY <1>1, <1>2, <1>7, LabelAtWord
<1>9. ASSUME NEW a \in DOMAIN labels, IsVtable(a), a < addr + WordSize, a < End
      PROVE  HasLabel(listing', a)
  <2>1. a \in Nat
    BY <1>7
  <2>2. CASE a < addr
    BY <1>5, <1>6, <1>9, <2>2
  <2>3. CASE addr <= a /\ a = reg
    BY <1>5, <1>7, <2>3
  <2>4. CASE addr <= a /\ a # reg
    <3>1. reg < a
      BY <1>1, <1>3, <2>1, <2>4
    <3>2. a = addr
      BY <1>1, <1>8, <1>9, <2>1, <2>4, <3>1, WordSizeAssumption
    <3>3. next_label # NULL /\ next_label <= a
      BY <1>1, <1>7, <3>1, <3>2
    <3>4. addr <= next_label
      BY <1>1, <1>3, <1>7, <1>9, <2>1, <3>3
    <3>5. AtNextLabel
      BY <1>1, <3>2, <3>3, <3>4 DEF AtNextLabel
    <3> QED
      BY <1>5, <3>2, <3>5
  <2> QED
    BY <1>1, <2>1, <2>2, <2>3, <2>4
<1>10. NextLabelAhead'
  <2>1. PICK v : v = next_label'
    OBVIOUS
  <2>2. CASE AtNextLabel
    <3>1. \/ v = NULL /\ \A a \in DOMAIN labels : ~ (addr < a)
          \/ /\ v \in DOMAIN labels /\ v # NULL /\ addr < v
             /\ \A a \in DOMAIN labels : addr < a => v <= a
      BY <1>1, <1>7, <2>1, <2>2, NextValue
    <3>2. v # NULL /\ v < End => addr + WordSize <= v
      <4> SUFFICES ASSUME v # NULL, v < End PROVE addr + WordSize <= v
        OBVIOUS
      <4>1. v \in DOMAIN labels /\ addr < v /\ v \in Nat
        BY <1>7, <3>1
      <4>2. reg < v /\ addr <= v /\ v # addr
        BY <1>1, <1>3, <4>1
      <4> QED
        BY <1>8, <4>1, <4>2
    <3>3. \A a \in DOMAIN labels :
            reg < a => a < addr + WordSize \/ (v # NULL /\ v <= a)
      BY <1>1, <1>7, <3>1, WordSizeAssumption
    <3> QED
      BY <1>1, <1>4, <1>5, <1>7, <2>1, <3>1, <3>2, <3>3 DEF NextLabelAhead
  <2>3. CASE ~ AtNextLabel
    <3>1. v = next_label
      BY <1>1, <2>1, <2>3
    <3>2. v # NULL /\ v < End => addr + WordSize <= v
      <4> SUFFICES ASSUME v # NULL, v < End PROVE addr + WordSize <= v
        OBVIOUS
      <4>1. v \in DOMAIN labels /\ addr <= v /\ reg < v /\ v # addr
        BY <1>1, <1>7, <2>3, <3>1 DEF AtNextLabel
      <4> QED
        BY <1>8, <4>1
    <3>3. \A a \in DOMAIN labels :
            reg < a => a < addr + WordSize \/ (v # NULL /\ v <= a)
      BY <1>1, <1>7, <3>1, WordSizeAssumption
    <3> QED
      BY <1>1, <1>4, <1>5, <1>7, <2>1, <3>1, <3>2, <3>3 DEF NextLabelAhead
  <2> QED
    BY <2>2, <2>3
<1>11. \A a \in Nat : a < Cursor' => a < addr + WordSize /\ a < End
  <2>1. CASE addr' < End
    <3>1. Cursor' = addr + WordSize
      BY <1>1, <1>4, <2>1 DEF Cursor
    <3> QED
      BY <1>1, <1>3, <2>1, <3>1, WordSizeAssumption
  <2>2. CASE ~ (addr' < End)
    <3>1. Cursor' = End
      BY <1>1, <1>4, <2>2 DEF Cursor
    <3> QED
      BY <1>1, <1>3, <2>2, <3>1, WordSizeAssumption
  <2> QED
    BY <2>1, <2>2
<1> QED
  BY <1>4, <1>7, <1>9, <1>10, <1>11 DEF VtablesSoFar, IsVtable

\* The other steps: no byte of a vtable is passed over.
LEMMA NoVtablePassed ==
    ASSUME KnownInv, stage = "print", UNCHANGED kvars, VtablesSoFar, Running,
           ~ (loop' = "lines" /\ Type' = "VTABLE"),
           \A b : HasLabel(listing, b) => HasLabel(listing', b),
           \A a \in Int : a < Cursor' /\ IsVtable(a) => a < Cursor
    PROVE  VtablesSoFar'
<1>1. regions' = regions /\ labels' = labels /\ DOMAIN labels \subseteq Int
  BY PrintFacts, PrintFrame DEF TypeOK, Address
<1> QED
  BY <1>1 DEF VtablesSoFar, IsVtable

LEMMA VtablesSoFarStep ==
    ASSUME KnownInv, KnownVtables, ListingInv, VtablesSoFar, stage = "print",
           UNCHANGED kvars, print_code
    PROVE  VtablesSoFar'
<1>1. /\ regions' = regions /\ labels' = labels
      /\ reg' = reg => Type' = Type /\ End' = End
  BY PrintFrame
<1>2. \A a : IsVtable(a) => IsMapped(regions, a)
  BY DEF IsVtable, HasKind, IsMapped
<1>3. CASE StartPrinting
  <2>1. /\ loop = "region" /\ loop' = "region" /\ listing' = listing /\ Running
        /\ \A a \in Int : IsMapped(regions, a) => ~ (a < Cursor')
    BY <1>3, StartPrintingStep DEF StartPrinting, Running
  <2> QED
    BY <1>2, <2>1, NoVtablePassed
<1>4. CASE reg = NULL /\ ~ StartPrinting
  <2>1. loop = "region"
    BY <1>4 DEF ListingInv, Place
  <2> QED
    BY <1>4, <2>1 DEF print_code, print_region, BeginRegion, SkipUnknown,
       BeginVtable, VtableWithoutLabel, PrintInstruction, StartPiece, PrintAddress,
       AddressWithoutLabel, PrintData, PieceDone, PrintVtableWord,
       EntryWithoutLabel, RegionDone, AdvanceRegion
<1>5. ASSUME reg # NULL
      PROVE  /\ WellFormed(regions) /\ reg \in DOMAIN regions
             /\ reg \in Nat /\ End \in Nat /\ reg < End
             /\ \A a \in Int : reg <= a /\ a < End /\ Type # "VTABLE" => ~ IsVtable(a)
             /\ loop \in {"lines", "piece"} => addr \in Nat /\ reg <= addr
             /\ loop = "piece" => Type = "DATA" /\ len \in Nat /\ addr + len <= End
  <2>1. WellFormed(regions) /\ reg \in DOMAIN regions
    BY <1>5, PrintFacts DEF ListingInv, Place
  <2>2. \A a \in Int : reg <= a /\ a < End /\ Type # "VTABLE" => ~ IsVtable(a)
    BY <2>1, RegionInPrint DEF IsVtable
  <2> QED
    BY <1>5, <2>1, <2>2, RegionInPrint DEF ListingInv, Place
<1>6. ASSUME reg # NULL, Type # "VTABLE", reg' = reg, loop' # "region", Running
      PROVE  \A a \in Int : a < Cursor' /\ IsVtable(a) => a < Cursor
  <2>1. PICK c \in Nat : c = Cursor /\ reg <= c
    BY <1>5, <1>6 DEF Cursor, ListingInv, Place
  <2>2. PICK d : d = Cursor'
    OBVIOUS
  <2>3. \A a \in Int : a < d => a < End
    BY <1>1, <1>5, <1>6, <2>2 DEF Cursor
  <2>4. \A a \in Int : a < d /\ IsVtable(a) => a < c
    BY <1>5, <1>6, <2>1, <2>3
  <2> QED
    BY <2>1, <2>2, <2>4
<1>7. CASE reg # NULL /\ (BeginVtable \/ PrintVtableWord)
  BY <1>7, BeginVtableLabels, VtableWordLabels
<1>8. CASE reg # NULL /\ (BeginRegion \/ SkipUnknown \/ PrintInstruction \/ StartPiece
                          \/ PrintAddress \/ PrintData \/ PieceDone)
  <2>1. /\ reg' = reg /\ loop' # "region" /\ Type # "VTABLE" /\ Running
    BY <1>5, <1>8 DEF BeginRegion, SkipUnknown, PrintInstruction, StartPiece,
       PrintAddress, PrintData, PieceDone, Running
  <2>2. \A b : HasLabel(listing, b) => HasLabel(listing', b)
    BY <1>8, PrintInstructionStep, StartPieceStep, PrintAddressStep
       DEF BeginRegion, SkipUnknown, PieceDone, SameLines, LineAt
  <2> QED
    BY <1>1, <1>6, <1>8, <2>1, <2>2, NoVtablePassed
<1>9. CASE reg # NULL /\ RegionDone
  <2>1. /\ reg' = reg /\ loop' = "after" /\ listing' = listing /\ Running
        /\ Cursor = End /\ Cursor' = End
    BY <1>1, <1>5, <1>9 DEF RegionDone, Running, Cursor
  <2> QED
    BY <2>1, NoVtablePassed
<1>10. CASE reg # NULL /\ AdvanceRegion
  <2>1. /\ SameLines(listing, listing')
        /\ \A a \in Int : IsMapped(regions, a) /\ a < Cursor' => a < Cursor
        /\ loop = "after" /\ loop' \in {"region", "end", "aborted"}
    BY <1>10, AdvanceRegionStep DEF AdvanceRegion
  <2> QED
    BY <1>2, <2>1, NoVtablePassed DEF SameLines, Running
<1>11. CASE reg # NULL /\ (VtableWithoutLabel \/ AddressWithoutLabel \/ EntryWithoutLabel)
  BY <1>11 DEF VtableWithoutLabel, AddressWithoutLabel, EntryWithoutLabel,
     VtablesSoFar, Running
<1> QED
  BY <1>3, <1>4, <1>7, <1>8, <1>9, <1>10, <1>11 DEF print_code, print_region

\* The vtables found, up to their printing.
VtablePrintInv == NothingWaits /\ KnownVtables /\ VtablesSoFar

LEMMA NoVtablePrinted ==
    ASSUME TypeOK, WellFormed(regions), reg = NULL, loop = "region"
    PROVE  VtablesSoFar
<1>1. Cursor = 0 /\ \A a \in DOMAIN labels : ~ (a < 0)
  BY AddrSpaceAssumption DEF Cursor, TypeOK, Address
<1> QED
  BY <1>1 DEF VtablesSoFar

LEMMA VtablePrintInit == PrinterInit => VtablePrintInv
<1> SUFFICES ASSUME PrinterInit PROVE VtablePrintInv
  OBVIOUS
<1>1. KnownInit /\ Inv
  BY InitInv DEF PrinterInit, KnownInit
<1>2. KnownVtables /\ NothingWaits
  BY <1>1, KnownVtablesInit DEF KnownInit, Init, NothingWaits
<1>3. VtablesSoFar
  BY <1>1, NoVtablePrinted DEF PrinterInit, Inv, RegionsPartition
<1> QED
  BY <1>2, <1>3 DEF VtablePrintInv

LEMMA VtablePrintStep ==
    KnownInv /\ ListingInv /\ VtablePrintInv /\ [PrinterNext]_pvars => VtablePrintInv'
<1> SUFFICES ASSUME KnownInv, ListingInv, VtablePrintInv, [PrinterNext]_pvars
             PROVE  VtablePrintInv'
  OBVIOUS
<1>1. KnownInv' /\ ListingInv'
  BY ListingStep
<1>2. KnownVtables' /\ NothingWaits'
  <2>1. [KnownNext]_kvars
    BY DEF PrinterNext, analyse, print_code, pvars
  <2> QED
    BY <2>1, KnownVtablesStep, NothingWaitsStep DEF VtablePrintInv
<1>3. CASE UNCHANGED pvars
  <2>1. /\ UNCHANGED kvars
        /\ UNCHANGED <<loop, reg, addr, len, next_label, listing>>
    BY <1>3 DEF pvars
  <2>2. regions' = regions /\ labels' = labels /\ Type' = Type /\ End' = End
    BY <2>1, PrintFrame
  <2>3. Cursor' = Cursor /\ Running' = Running
    BY <2>1, <2>2 DEF Cursor, Running
  <2>4. VtablesSoFar'
    BY <2>1, <2>2, <2>3 DEF VtablePrintInv, VtablesSoFar, NextLabelAhead, IsVtable
  <2> QED
    BY <1>2, <2>4 DEF VtablePrintInv
<1>4. CASE analyse
  <2>1. stage # "print" /\ UNCHANGED <<reg, loop>>
    BY <1>4 DEF analyse, KnownNext, insert_known_region, known_regions_done,
         set_known_label, known_labels_done, add_labels_to_trace_queue,
         labels_queued, run, post_anal_fixups_apply
  <2>2. reg' = NULL /\ loop' = "region"
    BY <2>1 DEF ListingInv, Place
  <2>3. TypeOK' /\ WellFormed(regions)'
    BY <1>1 DEF KnownInv, Preparing, Prepared, Inv, RegionsPartition
  <2>4. (TypeOK /\ WellFormed(regions) /\ reg = NULL /\ loop = "region"
            => VtablesSoFar)'
    BY NoVtablePrinted, PTL
  <2> QED
    BY <1>2, <2>2, <2>3, <2>4 DEF VtablePrintInv
<1>5. CASE print_code
  <2>1. VtablesSoFar'
    BY <1>5, VtablesSoFarStep DEF VtablePrintInv, print_code
  <2> QED
    BY <1>2, <2>1 DEF VtablePrintInv
<1> QED
  BY <1>3, <1>4, <1>5 DEF PrinterNext

\* Every label in a vtable is defined: none lies between two of its words,
\* wherever the vtables joined in it began (le_disasm.cpp:462-486).
THEOREM PrintsVtableLabels == PrinterSpec => []VtableLabelsPrinted
<1>1. KnownInv /\ ListingInv /\ VtablePrintInv => VtableLabelsPrinted
  <2> SUFFICES ASSUME KnownInv, ListingInv, VtablePrintInv, loop = "end",
                      NEW k \in DOMAIN regions, regions[k].type = "VTABLE",
                      NEW a \in DOMAIN labels, a \in RegionBytes(k)
               PROVE  a \in Labels
    BY DEF VtableLabelsPrinted
  <2>1. /\ WellFormed(regions) /\ Running
        /\ \A b \in Int : IsMapped(regions, b) => b < Cursor
    BY AtTheEnd
  <2>2. k \in Nat /\ regions[k].address = k /\ regions[k].size \in Nat
    BY <2>1, EndAddress
  <2>3. a \in Int /\ IsVtable(a) /\ IsMapped(regions, a)
    BY <2>2 DEF RegionBytes, IsVtable, HasKind, IsMapped, InRegion
  <2>4. HasLabel(listing, a)
    BY <2>1, <2>3 DEF VtablePrintInv, VtablesSoFar
  <2> QED
    BY <2>4, ListingWords
<1> QED
  BY <1>1, ListingHolds, VtablePrintInit, VtablePrintStep, PTL DEF PrinterSpec

-----------------------------------------------------------------------------
(* What the printer stops at.                                              *)

\* A piece of data has no relocation inside it.
FixupsAhead ==
    loop = "piece" =>
        \A o \in DOMAIN ObjectFixups : ~ (Offset(addr) < o /\ o < Offset(addr) + len)

\* Behind the start of a region offsets count the bytes of its object.
LEMMA OffsetInPrint ==
    ASSUME TypeOK, RegionsPartition, reg \in DOMAIN regions,
           NEW a \in Nat, reg <= a, a <= End
    PROVE  Offset(a) = a - exe.objects[ObjectIndex].base
<1>1. ObjectIndex \in Objects /\ reg \in ObjectBytes(exe.objects[ObjectIndex])
  BY ObjectInPrint
<1>2. PICK base \in Nat : base = exe.objects[ObjectIndex].base /\ base <= reg
  BY <1>1, ExecutableFacts, AddrSpaceAssumption DEF ObjectBytes, Address
<1>3. reg \in Nat /\ End \in Nat /\ End < AddrSpace
  BY RegionInPrint DEF RegionsPartition
<1>4. a - base \in 0 .. AddrSpace - 1
  BY <1>2, <1>3, AddrSpaceAssumption
<1>5. (a - base) % AddrSpace = a - base
  BY <1>4, AddrSpaceAssumption
<1> QED
  BY <1>2, <1>5 DEF Offset

\* The word printed as an address is the target of the relocation there.
LEMMA WordRelocated ==
    ASSUME KnownInv, ListingInv, FixupsAhead, stage = "print", reg # NULL,
           loop = "piece", data_is_address
    PROVE  read_le(addr) \in get_fixup_addresses
<1>1. /\ TypeOK /\ RegionsPartition /\ reg \in DOMAIN regions
      /\ addr \in Nat /\ reg <= addr /\ len \in Nat /\ addr + len <= End
  BY PrintFacts DEF ListingInv, Place
<1>2. reg \in Nat /\ End \in Nat
  BY <1>1, RegionInPrint DEF RegionsPartition
<1>3. ObjectIndex \in Objects /\ exe \in Executables
  BY <1>1, ObjectInPrint DEF TypeOK
<1>4. PICK n, off, base :
        /\ n = ObjectIndex /\ off = Offset(addr) /\ base = exe.objects[n].base
  OBVIOUS
<1>5. off \in DOMAIN exe.fixups[n] /\ WordSize <= len
  BY <1>4 DEF data_is_address, ObjectFixups
<1>6. base \in Int /\ off = addr - base /\ base + off = addr
  <2>1. base \in Int
    BY <1>1, <1>3, <1>4, ExecutableFacts, AddrSpaceAssumption DEF Address
  <2>2. off = addr - base
    BY <1>1, <1>2, <1>4, OffsetInPrint
  <2> QED
    BY <1>1, <2>1, <2>2
<1>7. ~ \E o \in DOMAIN exe.fixups[n] : off < o /\ o < off + WordSize
  <2>1. DOMAIN exe.fixups[n] \subseteq Nat
    BY <1>1, <1>4, ObjectInPrint DEF ObjectFixups
  <2>2. \A o \in DOMAIN exe.fixups[n] : ~ (off < o /\ o < off + len)
    BY <1>4 DEF FixupsAhead, ObjectFixups
  <2> QED
    BY <1>1, <1>5, <1>6, <2>1, <2>2, WordSizeAssumption
<1>8. exe.words[base + off] = exe.fixups[n][off]
  BY <1>3, <1>4, <1>5, <1>7, ImageRelocated DEF Objects
<1>9. <<n, off>> \in FixupSites /\ FixupAddress(<<n, off>>) = exe.fixups[n][off]
  BY <1>3, <1>4, <1>5 DEF FixupSites, FixupAddress
<1> QED
  BY <1>6, <1>8, <1>9 DEF get_fixup_addresses, read_le

\* assert (dlabel != NULL), for a relocated word (le_disasm.cpp:384).
LEMMA DataStop ==
    ASSUME KnownInv, KnownVtables, ListingInv, FixupsAhead, stage = "print",
           reg # NULL, AddressWithoutLabel
    PROVE  \/ read_le(addr) \in exe.removed
           \/ get_object_at_address(read_le(addr)) = NULL
           \/ HasKind(regions, read_le(addr), "CODE")
<1>1. PICK t : t = read_le(addr)
  OBVIOUS
<1>2. /\ TypeOK /\ RegionsPartition /\ VtablesLeft /\ RelocsLeft
      /\ t \notin DOMAIN labels /\ t \in get_fixup_addresses
  BY <1>1, PrintFacts, WordRelocated DEF KnownVtables, AddressWithoutLabel
<1>3. t \in Address
  BY <1>2, FixupTargets
<1>4. /\ ~ HasKind(regions, t, "UNKNOWN")
      /\ HasKind(regions, t, "DATA") => t \in exe.removed
      /\ HasKind(regions, t, "VTABLE") => t \in exe.removed
  BY <1>2 DEF VtablesLeft, RelocsLeft, IsVtable
<1>5. IsMapped(regions, t) =>
        \E type \in RegionType : HasKind(regions, t, type)
  BY <1>2 DEF IsMapped, HasKind, RegionsPartition, WellFormed, RegionSet
<1> QED
  BY <1>1, <1>2, <1>3, <1>4, <1>5 DEF RegionsPartition, RegionType

\* assert (label != NULL), for a word of a vtable (le_disasm.cpp:478).
LEMMA EntryStop ==
    ASSUME KnownInv, KnownVtables, VtablesSoFar, ListingInv, stage = "print",
           reg # NULL, EntryWithoutLabel
    PROVE  read_le(addr) \in exe.removed
<1>1. /\ WellFormed(regions) /\ reg \in DOMAIN regions
      /\ addr \in Nat /\ reg <= addr /\ addr < End /\ Type = "VTABLE"
      /\ VtablesLeft /\ reg \in DOMAIN labels
      /\ ~ IsEntry(addr)
  BY PrintFacts DEF EntryWithoutLabel, ListingInv, Place, KnownVtables, IsEntry,
     VtablesSoFar, NextLabelAhead, Running
<1>2. InStep(reg, addr)
  BY DEF EntryWithoutLabel, ListingInv, Place, InStep
<1>3. /\ reg \in Nat /\ End \in Nat /\ reg < End
      /\ \A a \in Int : reg <= a /\ a < End => IsVtable(a)
  BY <1>1, RegionInPrint DEF IsVtable
<1>4. reg \in get_fixup_addresses
  BY <1>1, <1>3 DEF VtablesLeft
<1>5. VtableFrom(reg, addr + 1)
  BY <1>1, <1>3 DEF VtableFrom
<1> QED
  BY <1>1, <1>2, <1>4, <1>5 DEF VtablesLeft

\* The label of a vtable that is not there (le_disasm.cpp:462).
LEMMA VtableStop ==
    ASSUME KnownInv, KnownVtables, ListingInv, stage = "print", reg # NULL,
           VtableWithoutLabel
    PROVE  VtableIsCut(reg) \/ reg \in exe.removed
<1>1. /\ WellFormed(regions) /\ reg \in DOMAIN regions /\ VtablesLeft
      /\ Type = "VTABLE" /\ reg \notin DOMAIN labels
  BY PrintFacts DEF VtableWithoutLabel, ListingInv, Place, KnownVtables
<1>2. reg \in Nat /\ reg < End /\ End \in Nat /\ IsVtable(reg)
  BY <1>1, RegionInPrint DEF IsVtable
<1>3. CASE reg \in get_fixup_addresses
  BY <1>1, <1>2, <1>3 DEF VtablesLeft
<1>4. CASE reg \notin get_fixup_addresses
  <2>1. PICK t \in {"VTABLE", "CODE"} : HasKind(regions, reg - 1, t)
    BY <1>1, <1>2, <1>4 DEF VtablesLeft, VtableBytes, VtablesBegin, IsVtable, IsCode
  <2>2. PICK j \in DOMAIN regions :
            InRegion(regions, j, reg - 1) /\ regions[j].type = t
    BY <2>1 DEF HasKind
  <2>3. /\ j \in Nat /\ j + regions[j].size = get_end_address(regions[j])
        /\ get_end_address(regions[j]) \in Nat
        /\ j <= reg - 1 /\ reg - 1 < get_end_address(regions[j])
    BY <1>1, <2>2, EndAddress DEF InRegion
  <2>4. get_end_address(regions[j]) = reg
    <3>1. j < reg
      BY <1>2, <2>3
    <3>2. j + regions[j].size <= reg
      BY <1>1, <3>1 DEF WellFormed
    <3> QED
      BY <1>2, <2>3, <3>2
  <2>5. CASE t = "CODE"
    BY <2>2, <2>4, <2>5 DEF VtableIsCut
  <2>6. CASE t = "VTABLE"
    <3>1. TouchAt(regions, reg)
      BY <1>1, <2>2, <2>4, <2>6 DEF TouchAt, joinable, Type
    <3> QED
      BY <1>1, <1>2, <3>1 DEF VtablesLeft, VtableBytes, VtablesJoined
  <2> QED
    BY <2>5, <2>6
<1> QED
  BY <1>3, <1>4

\* A piece is begun and printed without passing over a relocation.
LEMMA FixupsAheadStep ==
    ASSUME KnownInv, ListingInv, FixupsAhead, stage = "print", reg # NULL,
           UNCHANGED kvars, StartPiece \/ PrintAddress \/ PrintData
    PROVE  FixupsAhead'
<1>1. /\ TypeOK /\ RegionsPartition /\ reg \in DOMAIN regions
      /\ loop \in {"lines", "piece"} /\ addr \in Nat /\ reg <= addr /\ addr <= End
      /\ loop = "piece" => len \in Nat /\ addr + len <= End
  <2>1. Type # "VTABLE"
    BY DEF StartPiece, PrintAddress, PrintData, ListingInv, Place
  <2> QED
    BY <2>1, PrintFacts DEF StartPiece, PrintAddress, PrintData, ListingInv, Place
<1>2. /\ reg' = reg /\ exe' = exe /\ regions' = regions
      /\ ObjectIndex' = ObjectIndex /\ ObjectFixups' = ObjectFixups
  <2>1. reg' = reg /\ exe' = exe /\ regions' = regions
    BY PrintFrame DEF StartPiece, PrintAddress, PrintData
  <2> QED
    BY <2>1 DEF ObjectIndex, ObjectFixups, get_object_at_address, Objects
<1>3. DOMAIN ObjectFixups \subseteq Nat /\ End \in Nat /\ Offset(addr) \in Nat
  BY <1>1, ObjectInPrint, RegionInPrint DEF RegionsPartition
<1>4. CASE StartPiece
  <2>1. PICK n : n = len'
    OBVIOUS
  <2>2. addr < End /\ n = Least({End - addr} \cup ToNextLabel \cup ToNextFixup)
    BY <1>4, <2>1 DEF StartPiece
  <2>3. \A o \in DOMAIN ObjectFixups :
            ~ (Offset(addr) < o /\ o < Offset(addr) + n)
    BY <1>1, <2>2, PieceLength
  <2>4. Offset(addr)' = Offset(addr)
    BY <1>2, <1>4 DEF StartPiece, Offset
  <2> QED
    BY <1>2, <2>1, <2>3, <2>4 DEF FixupsAhead
<1>5. CASE PrintAddress \/ PrintData
  <2>1. PICK size \in Nat \ {0} :
            /\ size <= len /\ addr' = addr + size /\ len' = len - size
    BY <1>1, <1>5, WordSizeAssumption, MinRunAssumption
    DEF PrintAddress, PrintData, data_is_address, RunSizes
  <2>2. PICK base : base = exe.objects[ObjectIndex].base
    OBVIOUS
  <2>3. base \in Int
    BY <1>1, <2>2, ObjectInPrint, ExecutableFacts, AddrSpaceAssumption DEF Address
  <2>4. /\ loop = "piece" /\ len \in Nat /\ addr + len <= End
    BY <1>1, <1>5 DEF PrintAddress, PrintData
  <2>5. addr + size \in Nat /\ reg <= addr + size /\ addr + size <= End
    <3>1. reg \in Nat
      BY <1>1, RegionInPrint DEF RegionsPartition
    <3> QED
      BY <1>1, <1>3, <2>1, <2>4, <3>1
  <2>6. Offset(addr) = addr - base
    BY <1>1, <2>2, OffsetInPrint
  <2>7. PICK a : a = addr + size
    OBVIOUS
  <2>8. Offset(a) = a - base
    BY <1>1, <2>2, <2>5, <2>7, OffsetInPrint
  <2>9. Offset(addr)' = Offset(a)
    BY <1>2, <2>1, <2>7 DEF Offset
  <2>10. Offset(addr)' = Offset(addr) + size
    BY <1>1, <2>1, <2>3, <2>6, <2>7, <2>8, <2>9
  <2>11. \A o \in DOMAIN ObjectFixups :
            ~ (Offset(addr) < o /\ o < Offset(addr) + len)
    BY <2>4 DEF FixupsAhead
  <2>12. \A o \in DOMAIN ObjectFixups :
            ~ (Offset(addr) + size < o /\ o < Offset(addr) + size + len')
    BY <1>3, <2>1, <2>4, <2>11
  <2> QED
    BY <1>2, <2>10, <2>12 DEF FixupsAhead
<1> QED
  BY <1>4, <1>5

StopInv == FixupsAhead /\ PrinterStops

\* The printer goes on and is not within a piece.
LEMMA GoesOn == loop \in {"region", "lines", "after", "end"} => StopInv
BY DEF StopInv, FixupsAhead, PrinterStops

LEMMA StopInvStep ==
    ASSUME KnownInv, KnownVtables, VtablesSoFar, ListingInv, StopInv,
           stage = "print", UNCHANGED kvars, print_code
    PROVE  StopInv'
<1>1. (loop \in {"region", "lines", "after", "end"} => StopInv)'
  BY GoesOn, PTL
<1>2. CASE StartPrinting \/ BeginRegion \/ SkipUnknown \/ BeginVtable
           \/ PrintInstruction \/ PieceDone \/ PrintVtableWord \/ RegionDone
  <2>1. loop' \in {"region", "lines", "after", "end"}
    BY <1>2 DEF StartPrinting, BeginRegion, SkipUnknown, BeginVtable,
       PrintInstruction, PieceDone, PrintVtableWord, RegionDone
  <2> QED
    BY <1>1, <2>1
<1>3. reg = NULL => loop = "region"
  BY DEF ListingInv, Place
<1>4. /\ regions' = regions /\ labels' = labels /\ exe' = exe
      /\ \A a : get_object_at_address(a)' = get_object_at_address(a)
  BY PrintFrame DEF get_object_at_address, Objects
<1>5. CASE StartPiece \/ PrintAddress \/ PrintData
  <2>1. reg # NULL /\ loop' = "piece"
    BY <1>3, <1>5 DEF StartPiece, PrintAddress, PrintData
  <2>2. FixupsAhead'
    BY <1>5, <2>1, FixupsAheadStep DEF StopInv
  <2> QED
    BY <2>1, <2>2 DEF StopInv, PrinterStops
<1>6. CASE AddressWithoutLabel
  <2>1. /\ reg # NULL /\ loop = "piece" /\ loop' = "aborted"
        /\ reg' = reg /\ addr' = addr
    BY <1>3, <1>6 DEF AddressWithoutLabel
  <2>2. /\ Type = "DATA" /\ Type' = Type
        /\ WellFormed(regions) /\ reg \in DOMAIN regions
    <3>1. Type = "DATA" /\ WellFormed(regions) /\ reg \in DOMAIN regions
      BY <2>1, PrintFacts DEF ListingInv, Place
    <3> QED
      BY <1>4, <2>1, <3>1 DEF Type
  <2>3. ~ Overlaps'
    BY <1>4, <2>1, <2>2, NoOverlap DEF Overlaps, PreviousRegion
  <2>4. \/ read_le(addr) \in exe.removed
        \/ get_object_at_address(read_le(addr)) = NULL
        \/ HasKind(regions, read_le(addr), "CODE")
    BY <1>6, <2>1, DataStop DEF StopInv
  <2>5. read_le(addr)' = read_le(addr)
    BY <1>4, <2>1 DEF read_le
  <2>6. \/ read_le(addr)' \in exe'.removed
        \/ get_object_at_address(read_le(addr))' = NULL
        \/ HasKind(regions', read_le(addr)', "CODE")
    BY <1>4, <2>4, <2>5 DEF get_object_at_address, Objects
  <2> QED
    BY <2>1, <2>2, <2>3, <2>6 DEF StopInv, FixupsAhead, PrinterStops
<1>7. CASE EntryWithoutLabel
  <2>1. /\ reg # NULL /\ loop = "lines" /\ loop' = "aborted"
        /\ reg' = reg /\ addr' = addr
    BY <1>3, <1>7 DEF EntryWithoutLabel
  <2>2. /\ Type = "VTABLE" /\ Type' = Type
        /\ WellFormed(regions) /\ reg \in DOMAIN regions
    <3>1. Type = "VTABLE" /\ WellFormed(regions) /\ reg \in DOMAIN regions
      BY <1>7, <2>1, PrintFacts DEF EntryWithoutLabel, ListingInv, Place
    <3> QED
      BY <1>4, <2>1, <3>1 DEF Type
  <2>3. ~ Overlaps'
    BY <1>4, <2>1, <2>2, NoOverlap DEF Overlaps, PreviousRegion
  <2>4. read_le(addr)' \in exe'.removed
    BY <1>4, <1>7, <2>1, EntryStop DEF read_le
  <2> QED
    BY <2>1, <2>2, <2>3, <2>4 DEF StopInv, FixupsAhead, PrinterStops
<1>8. CASE VtableWithoutLabel
  <2>1. reg # NULL /\ loop' = "crashed" /\ reg' = reg
    BY <1>8 DEF VtableWithoutLabel
  <2>2. VtableIsCut(reg) \/ reg \in exe.removed
    BY <1>8, <2>1, VtableStop
  <2> QED
    BY <1>4, <2>1, <2>2 DEF StopInv, FixupsAhead, PrinterStops, VtableIsCut
<1>9. CASE AdvanceRegion
  <2>1. reg # NULL
    BY <1>3, <1>9 DEF AdvanceRegion
  <2>2. ~ Overlaps
    BY <2>1, PrintFacts, NoOverlap DEF ListingInv, Place
  <2>3. loop' \in {"region", "end"}
    BY <1>9, <2>2 DEF AdvanceRegion
  <2> QED
    BY <1>1, <2>3
<1> QED
  BY <1>2, <1>5, <1>6, <1>7, <1>8, <1>9 DEF print_code, print_region

LEMMA StopsHold ==
    KnownInv /\ ListingInv /\ VtablePrintInv /\ StopInv /\ [PrinterNext]_pvars
        => StopInv'
<1> SUFFICES ASSUME KnownInv, ListingInv, VtablePrintInv, StopInv,
                    [PrinterNext]_pvars
             PROVE  StopInv'
  OBVIOUS
<1>1. CASE UNCHANGED pvars
  <2>1. /\ UNCHANGED kvars /\ UNCHANGED <<loop, reg, addr, len>>
    BY <1>1 DEF pvars
  <2>2. regions' = regions /\ exe' = exe /\ UNCHANGED <<loop, reg, addr, len>>
    BY <2>1, PrintFrame
  <2> QED
    BY <2>2 DEF StopInv, FixupsAhead, PrinterStops, VtableIsCut, Overlaps,
       PreviousRegion, Type, read_le, get_object_at_address, Objects, ObjectFixups,
       ObjectIndex, Offset
<1>2. CASE analyse
  <2>1. stage # "print" /\ loop' = loop
    BY <1>2 DEF analyse, KnownNext, insert_known_region, known_regions_done,
       set_known_label, known_labels_done, add_labels_to_trace_queue,
       labels_queued, run, post_anal_fixups_apply
  <2>2. loop' = "region"
    BY <2>1 DEF ListingInv, Place
  <2>3. (loop \in {"region", "lines", "after", "end"} => StopInv)'
    BY GoesOn, PTL
  <2> QED
    BY <2>2, <2>3
<1>3. CASE print_code
  BY <1>3, StopInvStep DEF VtablePrintInv, print_code
<1> QED
  BY <1>1, <1>2, <1>3 DEF PrinterNext

\* The assertions of the printer fail for no other executables than these: the
\* regions never overlap, a relocated word points to something unmapped, to
\* code or to a label removed by hand, and a vtable without a label is one that
\* code has cut, or its label was removed (le_disasm.cpp:384, 462, 478, 540).
THEOREM StopsOnlyAt == PrinterSpec => []PrinterStops
<1>1. PrinterInit => StopInv
  BY GoesOn DEF PrinterInit
<1>2. KnownInv /\ ListingInv /\ VtablePrintInv /\ StopInv => PrinterStops
  BY DEF StopInv
<1> QED
  BY <1>1, <1>2, ListingHolds, VtablePrintInit, VtablePrintStep, StopsHold, PTL
  DEF PrinterSpec

=============================================================================
