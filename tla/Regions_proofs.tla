--------------------------- MODULE Regions_proofs ---------------------------
(***************************************************************************)
(* What the operations on a region map do, for every map and every address *)
(* space: lookup finds the region that holds an address, a merge changes   *)
(* no byte, and insert_region gives the bytes of the new region its type   *)
(* and leaves every other byte as it was.                                  *)
(***************************************************************************)
EXTENDS Regions, TLAPS

\* The uint32_t arithmetic is exact below the top of the address space.
LEMMA NoWrap ==
    ASSUME NEW x \in Address
    PROVE  x % AddrSpace = x
BY AddrSpaceAssumption, SMT DEF Address

LEMMA Resize ==
    ASSUME NEW reg \in RegionSet, NEW s
    PROVE  [reg EXCEPT !.size = s] = Region(reg.address, s, reg.type)
BY DEF RegionSet, Region

\* A region of a well-formed map ends where its bytes end (regions.cpp:48).
LEMMA EndAddress ==
    ASSUME NEW map, WellFormed(map), NEW k \in DOMAIN map
    PROVE  /\ k \in Nat /\ map[k].address = k
           /\ map[k].size \in Nat \ {0}
           /\ get_end_address(map[k]) = k + map[k].size
           /\ get_end_address(map[k]) \in Address
<1>1. /\ k \in Nat /\ map[k].address = k
      /\ map[k].size \in Nat \ {0}
      /\ k + map[k].size \in Address
  BY AddrSpaceAssumption DEF WellFormed, Address, RegionSet
<1> QED
  BY <1>1, NoWrap DEF get_end_address

\* get_region_at_address returns the entry that holds the address, and NULL
\* for an unmapped address only, although it looks at one entry at most.
THEOREM LookupCorrect ==
    ASSUME NEW map, WellFormed(map), NEW address \in Address,
           NEW r, r = get_region_at_address(map, address)
    PROVE  /\ r # NULL => r \in DOMAIN map /\ InRegion(map, r, address)
           /\ r = NULL => ~ IsMapped(map, address)
<1> DEFINE prev == get_previous_value(DOMAIN map, address)
<1>1. \A k \in DOMAIN map : k \in Int
  BY EndAddress
<1>2. NULL \notin DOMAIN map
  BY <1>1, NullAssumption
<1>3. CASE address \in DOMAIN map
  <2>1. r = address
    BY <1>3 DEF get_region_at_address
  <2>2. InRegion(map, address, address)
    BY <1>3, EndAddress DEF InRegion
  <2> QED
    BY <1>2, <1>3, <2>1, <2>2
<1>4. CASE address \notin DOMAIN map
  <2>1. r = IF prev # NULL /\ contains_address(map[prev], address)
            THEN prev ELSE NULL
    BY <1>4 DEF get_region_at_address
  <2>2. prev # NULL => IsPrevious(DOMAIN map, address, prev)
    BY DEF get_previous_value
  <2>3. r # NULL => r \in DOMAIN map /\ InRegion(map, r, address)
    BY <2>1, <2>2, EndAddress DEF IsPrevious, contains_address, InRegion
  <2>4. ASSUME r = NULL, NEW k \in DOMAIN map, InRegion(map, k, address)
        PROVE  FALSE
    <3>1. k < address /\ address < k + map[k].size
      BY <1>1, <1>4, <2>4, EndAddress DEF InRegion, Address
    <3>2. \A j \in DOMAIN map : j < address => j <= k
      BY <1>1, <2>4, <3>1, EndAddress DEF WellFormed, Address
    <3>3. IsPrevious(DOMAIN map, address, k)
      BY <3>1, <3>2 DEF IsPrevious
    <3>4. \A j \in DOMAIN map : IsPrevious(DOMAIN map, address, j) => j = k
      BY <1>1, <3>3 DEF IsPrevious
    <3>5. prev = k
      BY <3>3, <3>4 DEF get_previous_value
    <3>6. contains_address(map[k], address)
      BY <3>1, EndAddress DEF contains_address, Address
    <3> QED
      BY <1>2, <2>1, <2>4, <3>5, <3>6
  <2> QED
    BY <2>3, <2>4 DEF IsMapped
<1> QED
  BY <1>3, <1>4

-----------------------------------------------------------------------------
(* Merging. *)

\* Two maps give every byte the same kind.
SameKinds(map1, map2) ==
    \A a \in Int, t \in RegionType : HasKind(map1, a, t) <=> HasKind(map2, a, t)

\* The entries of map1 are entries of map2, with the types they have there.
SameStarts(map1, map2) ==
    \A k \in DOMAIN map1 : k \in DOMAIN map2 /\ map1[k].type = map2[k].type

\* The entry that grows, as a value.
LEMMA AbsorbShape ==
    ASSUME NEW map, WellFormed(map), NEW l \in DOMAIN map, NEW r \in DOMAIN map,
           joinable(map, l, r)
    PROVE  /\ l + map[l].size = r
           /\ l < r
           /\ DOMAIN absorb(map, l, r) = DOMAIN map \ {r}
           /\ absorb(map, l, r)[l]
                = [address |-> l, size |-> map[l].size + map[r].size,
                   type |-> map[l].type]
           /\ \A k \in DOMAIN map \ {l, r} : absorb(map, l, r)[k] = map[k]
<1>1. l + map[l].size = r /\ l < r
  BY EndAddress DEF joinable
<1>2. map[l].size + map[r].size \in Address
  BY <1>1, AddrSpaceAssumption, EndAddress DEF Address, WellFormed
<1>3. (map[l].size + map[r].size) % AddrSpace = map[l].size + map[r].size
  BY <1>2, NoWrap
<1>4. map[l] \in RegionSet /\ map[l].address = l
  BY DEF WellFormed
<1> DEFINE new == [address |-> l, size |-> map[l].size + map[r].size,
                   type |-> map[l].type]
<1>5. [map EXCEPT ![l].size = (@ + map[r].size) % AddrSpace]
        = [map EXCEPT ![l] = new]
  BY <1>3, <1>4, Resize DEF Region
<1>6. absorb(map, l, r) = [k \in DOMAIN map \ {r} |-> [map EXCEPT ![l] = new][k]]
  BY <1>5 DEF absorb, erase
<1> HIDE DEF new
<1>7. /\ DOMAIN absorb(map, l, r) = DOMAIN map \ {r}
      /\ \A k \in DOMAIN map \ {r} :
            absorb(map, l, r)[k] = IF k = l THEN new ELSE map[k]
  BY <1>6
<1>8. l # r
  BY <1>1, EndAddress
<1> QED
  BY <1>1, <1>7, <1>8 DEF new

\* One merge of check_merge_regions keeps the map well-formed and changes no
\* byte (analyser.cpp:264-277).
LEMMA AbsorbCorrect ==
    ASSUME NEW map, WellFormed(map), NEW l \in DOMAIN map, NEW r \in DOMAIN map,
           joinable(map, l, r)
    PROVE  /\ WellFormed(absorb(map, l, r))
           /\ SameKinds(absorb(map, l, r), map)
           /\ SameStarts(absorb(map, l, r), map)
<1> DEFINE new == absorb(map, l, r)
<1>1. /\ l + map[l].size = r /\ l < r
      /\ DOMAIN new = DOMAIN map \ {r}
      /\ new[l] = [address |-> l, size |-> map[l].size + map[r].size,
                   type |-> map[l].type]
      /\ \A k \in DOMAIN map \ {l, r} : new[k] = map[k]
  BY AbsorbShape, ZenonT(60)
<1> HIDE DEF new
<1>2. /\ \A k \in DOMAIN map :
           /\ k \in Nat /\ map[k].address = k
           /\ map[k].size \in Nat \ {0}
      /\ \A j, k \in DOMAIN map : j < k => j + map[j].size <= k
      /\ r + map[r].size < AddrSpace
      /\ map[l].type = map[r].type
      /\ map[l].type \in RegionType
  BY EndAddress DEF WellFormed, RegionSet, joinable
<1>3. WellFormed(new)
  <2>1. ASSUME NEW k \in DOMAIN new
        PROVE  /\ k \in Address
               /\ new[k] \in RegionSet
               /\ new[k].address = k
               /\ new[k].size > 0
               /\ k + new[k].size < AddrSpace
    <3>1. CASE k = l
      <4>1. /\ l \in Address
            /\ map[l].size + map[r].size \in Address
            /\ map[l].size + map[r].size > 0
            /\ l + (map[l].size + map[r].size) < AddrSpace
        BY <1>1, <1>2, AddrSpaceAssumption DEF Address
      <4> QED
        BY <1>1, <1>2, <3>1, <4>1 DEF RegionSet
    <3>2. CASE k # l
      BY <1>1, <2>1, <3>2 DEF WellFormed
    <3> QED
      BY <3>1, <3>2
  <2>2. ASSUME NEW j \in DOMAIN new, NEW k \in DOMAIN new, j < k
        PROVE  j + new[j].size <= k
    <3>1. CASE j = l
      <4>1. r < k
        BY <1>1, <1>2, <2>2, <3>1
      <4> QED
        BY <1>1, <1>2, <2>2, <3>1, <4>1
    <3>2. CASE j # l
      BY <1>1, <1>2, <2>2, <3>2
    <3> QED
      BY <3>1, <3>2
  <2> QED
    BY <2>1, <2>2 DEF WellFormed
<1>4. SameKinds(new, map)
  <2> SUFFICES ASSUME NEW a \in Int, NEW t \in RegionType
               PROVE  HasKind(new, a, t) <=> HasKind(map, a, t)
    BY DEF SameKinds
  <2>1. InRegion(new, l, a) <=> InRegion(map, l, a) \/ InRegion(map, r, a)
    BY <1>1, <1>2 DEF InRegion
  <2>2. \A k \in DOMAIN map \ {l, r} : InRegion(new, k, a) <=> InRegion(map, k, a)
    BY <1>1 DEF InRegion
  <2>3. new[l].type = map[l].type /\ map[l].type = map[r].type
    BY <1>1, <1>2
  <2>4. DOMAIN new = DOMAIN map \ {r} /\ l # r
    BY <1>1, <1>2
  <2>5. ASSUME NEW k \in DOMAIN new, InRegion(new, k, a), new[k].type = t
        PROVE  HasKind(map, a, t)
    <3>1. CASE k = l
      BY <2>1, <2>3, <2>5, <3>1 DEF HasKind
    <3>2. CASE k # l
      BY <1>1, <2>2, <2>4, <2>5, <3>2 DEF HasKind
    <3> QED
      BY <3>1, <3>2
  <2>6. ASSUME NEW k \in DOMAIN map, InRegion(map, k, a), map[k].type = t
        PROVE  HasKind(new, a, t)
    <3>1. CASE k \in {l, r}
      BY <2>1, <2>3, <2>4, <2>6, <3>1 DEF HasKind
    <3>2. CASE k \notin {l, r}
      BY <1>1, <2>2, <2>4, <2>6, <3>2 DEF HasKind
    <3> QED
      BY <3>1, <3>2
  <2> QED
    BY <2>5, <2>6 DEF HasKind
<1>5. SameStarts(new, map)
  BY <1>1 DEF SameStarts
<1> QED
  BY <1>3, <1>4, <1>5 DEF new

\* check_merge_regions changes no byte, whichever of its two merges it does:
\* the second one works on the entry that the first has left.
LEMMA CheckMergeCorrect ==
    ASSUME NEW map, WellFormed(map), NEW addr \in DOMAIN map
    PROVE  /\ WellFormed(check_merge_regions(map, addr))
           /\ SameKinds(check_merge_regions(map, addr), map)
           /\ SameStarts(check_merge_regions(map, addr), map)
<1> DEFINE prev == get_previous_value(DOMAIN map, addr)
           next == get_next_value(DOMAIN map, addr)
           back == prev # NULL /\ joinable(map, prev, addr)
           reg  == IF back THEN prev ELSE addr
           map1 == IF back THEN absorb(map, prev, addr) ELSE map
           map2 == IF next # NULL /\ joinable(map1, reg, next)
                   THEN absorb(map1, reg, next) ELSE map1
<1>1. check_merge_regions(map, addr) = map2
  BY DEF check_merge_regions
<1>2. prev # NULL => prev \in DOMAIN map /\ prev < addr
  BY DEF get_previous_value, IsPrevious
<1>3. next # NULL => next \in DOMAIN map /\ addr < next
  BY DEF get_next_value, IsNext
<1>4. \A k \in DOMAIN map : k \in Nat
  BY EndAddress
<1>5. /\ WellFormed(map1) /\ SameKinds(map1, map) /\ SameStarts(map1, map)
      /\ reg \in DOMAIN map1
      /\ next # NULL => next \in DOMAIN map1
  <2>1. CASE back
    <3>1. prev \in DOMAIN map /\ prev < addr /\ joinable(map, prev, addr)
      BY <1>2, <2>1
    <3>2. DOMAIN absorb(map, prev, addr) = DOMAIN map \ {addr}
      BY <3>1, AbsorbShape
    <3>3. /\ WellFormed(absorb(map, prev, addr))
          /\ SameKinds(absorb(map, prev, addr), map)
          /\ SameStarts(absorb(map, prev, addr), map)
      BY <3>1, AbsorbCorrect
    <3>4. map1 = absorb(map, prev, addr) /\ reg = prev
      BY <2>1
    <3> HIDE DEF map1, reg, prev, next
    <3> QED
      BY <1>3, <1>4, <3>1, <3>2, <3>3, <3>4
  <2>2. CASE ~ back
    <3>1. map1 = map /\ reg = addr
      BY <2>2
    <3> HIDE DEF map1, reg, prev, next
    <3> QED
      BY <1>3, <3>1 DEF SameKinds, SameStarts
  <2> QED
    BY <2>1, <2>2
<1> HIDE DEF map1, reg, next
<1>6. /\ WellFormed(map2) /\ SameKinds(map2, map1) /\ SameStarts(map2, map1)
  <2>1. CASE next # NULL /\ joinable(map1, reg, next)
    BY <1>5, <2>1, AbsorbCorrect
  <2>2. CASE ~ (next # NULL /\ joinable(map1, reg, next))
    BY <1>5, <2>2 DEF SameKinds, SameStarts
  <2> QED
    BY <2>1, <2>2
<1> HIDE DEF map2
<1> QED
  BY <1>1, <1>5, <1>6 DEF SameKinds, SameStarts

-----------------------------------------------------------------------------
(* Splitting. *)

\* What insert_region is called with: a region that is not empty and lies
\* within its parent.  It is what the two assertions ask for (see
\* InsertAllowed below).
FitsIn(map, parent, reg) ==
    /\ parent \in DOMAIN map
    /\ reg \in RegionSet
    /\ reg.size > 0
    /\ parent <= reg.address
    /\ reg.address + reg.size <= parent + map[parent].size

Split(map, parent, reg) == split_head(split_tail(map, parent, reg), parent, reg)

\* The ends of the two regions, without wrapping.
LEMMA FitsInEnds ==
    ASSUME NEW map, WellFormed(map), NEW parent, NEW reg, FitsIn(map, parent, reg)
    PROVE  /\ parent \in Nat /\ reg.address \in Nat /\ reg.size \in Nat \ {0}
           /\ map[parent].size \in Nat /\ map[parent].address = parent
           /\ map[parent] \in RegionSet
           /\ parent + map[parent].size < AddrSpace
           /\ get_end_address(map[parent]) = parent + map[parent].size
           /\ get_end_address(reg) = reg.address + reg.size
<1>1. /\ parent \in Nat /\ reg.address \in Nat /\ reg.size \in Nat \ {0}
      /\ map[parent].size \in Nat /\ map[parent].address = parent
      /\ map[parent] \in RegionSet
      /\ parent + map[parent].size < AddrSpace
      /\ get_end_address(map[parent]) = parent + map[parent].size
  BY EndAddress DEF FitsIn, WellFormed, RegionSet, Address
<1>2. reg.address + reg.size \in Address
  BY <1>1, AddrSpaceAssumption DEF FitsIn, Address
<1> QED
  BY <1>1, <1>2, NoWrap DEF get_end_address

\* The assertions at the top of insert_region hold for a region that fits.
THEOREM InsertAllowed ==
    ASSUME NEW map, WellFormed(map), NEW parent, NEW reg, FitsIn(map, parent, reg)
    PROVE  insert_allowed(map, parent, reg)
<1>1. (get_end_address(reg) - 1) % AddrSpace = reg.address + reg.size - 1
  <2>1. reg.address + reg.size - 1 \in Address
    BY FitsInEnds, AddrSpaceAssumption DEF FitsIn, Address
  <2> QED
    BY <2>1, FitsInEnds, NoWrap
<1> QED
  BY <1>1, FitsInEnds DEF insert_allowed, contains_address, FitsIn

\* The map after the split, entry by entry.
LEMMA SplitShape ==
    ASSUME NEW map, WellFormed(map), NEW parent, NEW reg, FitsIn(map, parent, reg),
           NEW start, start = reg.address,
           NEW end, end = reg.address + reg.size,
           NEW last, last = parent + map[parent].size,
           NEW m, m = Split(map, parent, reg)
    PROVE  /\ DOMAIN m = DOMAIN map \cup {start}
                            \cup (IF end # last THEN {end} ELSE {})
           /\ m[start] = reg
           /\ start # parent =>
                m[parent] = Region(parent, start - parent, map[parent].type)
           /\ end # last => m[end] = Region(end, last - end, map[parent].type)
           /\ \A k \in DOMAIN map \ {start, parent} :
                ~ (k = end /\ end # last) => m[k] = map[k]
<1> DEFINE tail == split_tail(map, parent, reg)
<1>1. /\ start \in Nat /\ parent \in Nat /\ parent <= start
      /\ start < end /\ end <= last /\ end \in Nat /\ last \in Address
  BY FitsInEnds, AddrSpaceAssumption DEF FitsIn, Address
<1>2. /\ get_end_address(reg) = end /\ get_end_address(map[parent]) = last
      /\ map[parent].address = parent /\ map[parent] \in RegionSet
      /\ parent \in DOMAIN map
  BY FitsInEnds DEF FitsIn
<1>3. (last - end) % AddrSpace = last - end
  <2>1. last - end \in Address
    BY <1>1, AddrSpaceAssumption DEF Address
  <2> QED
    BY <2>1, NoWrap
<1>4. (start - parent) % AddrSpace = start - parent
  <2>1. start - parent \in Address
    BY <1>1, AddrSpaceAssumption DEF Address
  <2> QED
    BY <2>1, NoWrap
<1>5. /\ DOMAIN tail = DOMAIN map \cup (IF end # last THEN {end} ELSE {})
      /\ end # last => tail[end] = Region(end, last - end, map[parent].type)
      /\ \A k \in DOMAIN map :
            ~ (k = end /\ end # last) => tail[k] = map[k]
  <2>1. CASE end = last
    <3>1. tail = map
      BY <1>2, <2>1 DEF split_tail
    <3> QED
      BY <2>1, <3>1
  <2>2. CASE end # last
    <3> DEFINE new == Region(end, last - end, map[parent].type)
    <3>1. new.address = end
      BY DEF Region
    <3>2. tail = add_region(map, new)
      BY <1>2, <1>3, <2>2 DEF split_tail
    <3> HIDE DEF new
    <3>3. tail = [k \in DOMAIN map \cup {end} |-> IF k = end THEN new ELSE map[k]]
      BY <3>1, <3>2 DEF add_region
    <3> HIDE DEF tail
    <3> QED
      BY <2>2, <3>3 DEF new
  <2> QED
    BY <2>1, <2>2
<1>6. parent # end /\ start # end
  BY <1>1
<1>7. tail[parent] = map[parent] /\ parent \in DOMAIN tail
  BY <1>2, <1>5, <1>6
<1>8. m = split_head(tail, parent, reg)
  BY DEF Split
<1> HIDE DEF tail
<1>9. CASE start = parent
  <2>1. m = [tail EXCEPT ![parent] = reg]
    BY <1>2, <1>7, <1>8, <1>9 DEF split_head
  <2> QED
    BY <1>2, <1>5, <1>6, <1>7, <1>9, <2>1
<1>10. CASE start # parent
  <2> DEFINE both == [k \in DOMAIN tail \cup {start} |->
                        IF k = start THEN reg ELSE tail[k]]
             head == Region(parent, start - parent, map[parent].type)
  <2>1. add_region(tail, reg) = both
    BY DEF add_region
  <2>2. both[parent] = map[parent]
    BY <1>7, <1>10
  <2>3. m = [both EXCEPT ![parent].size = start - parent]
    BY <1>2, <1>4, <1>7, <1>8, <1>10, <2>1 DEF split_head
  <2>4. [map[parent] EXCEPT !.size = start - parent] = head
    BY <1>2, Resize
  <2>5. m = [both EXCEPT ![parent] = head]
    BY <2>2, <2>3, <2>4
  <2> HIDE DEF head
  <2>6. /\ DOMAIN m = DOMAIN tail \cup {start}
        /\ m[parent] = head
        /\ \A k \in DOMAIN m \ {parent} : m[k] = both[k]
    BY <1>7, <2>5
  <2>7. m[start] = reg
    BY <1>10, <2>6
  <2>8. \A k \in DOMAIN tail \ {parent, start} : m[k] = tail[k]
    BY <2>6
  <2>9. DOMAIN m = DOMAIN map \cup {start} \cup (IF end # last THEN {end} ELSE {})
    BY <1>5, <2>6
  <2>10. end # last => m[end] = Region(end, last - end, map[parent].type)
    BY <1>5, <1>6, <2>8
  <2>11. \A k \in DOMAIN map \ {start, parent} :
                ~ (k = end /\ end # last) => m[k] = map[k]
    BY <1>5, <2>8
  <2> QED
    BY <2>6, <2>7, <2>9, <2>10, <2>11 DEF head
<1> QED
  BY <1>9, <1>10

\* The split gives the bytes of the new region its type and no other byte
\* another one (analyser.cpp:233-248).
LEMMA SplitCorrect ==
    ASSUME NEW map, WellFormed(map), NEW parent, NEW reg, FitsIn(map, parent, reg),
           NEW m, m = Split(map, parent, reg)
    PROVE  /\ WellFormed(m)
           /\ reg.address \in DOMAIN m
           /\ m[reg.address] = reg
           /\ \A a \in Int, t \in RegionType :
                HasKind(m, a, t) <=>
                    IF reg.address <= a /\ a < reg.address + reg.size
                    THEN t = reg.type
                    ELSE HasKind(map, a, t)
           /\ \A k \in DOMAIN m :
                \/ k = reg.address
                \/ k \in DOMAIN map /\ m[k].type = map[k].type
                \/ m[k].type = map[parent].type
<1> DEFINE start == reg.address
           end == reg.address + reg.size
           last == parent + map[parent].size
<1>1. /\ start \in Nat /\ parent \in Nat /\ parent <= start
      /\ start < end /\ end <= last /\ end \in Nat /\ last \in Nat
      /\ last < AddrSpace
      /\ end - start = reg.size
      /\ reg \in RegionSet /\ parent \in DOMAIN map
      /\ map[parent].type \in RegionType
      /\ map[parent].address = parent
      /\ parent + map[parent].size = last
  BY FitsInEnds DEF FitsIn, RegionSet
<1>2. /\ DOMAIN m = DOMAIN map \cup {start} \cup (IF end # last THEN {end} ELSE {})
      /\ m[start] = reg
      /\ start # parent =>
           m[parent] = Region(parent, start - parent, map[parent].type)
      /\ end # last => m[end] = Region(end, last - end, map[parent].type)
      /\ \A k \in DOMAIN map \ {start, parent} :
                ~ (k = end /\ end # last) => m[k] = map[k]
  BY SplitShape
<1>3. reg.address = start
  OBVIOUS
<1> HIDE DEF start, end, last
<1>4. /\ \A k \in DOMAIN map :
           /\ k \in Nat /\ map[k].address = k /\ map[k].size \in Nat \ {0}
           /\ k \in Address /\ map[k] \in RegionSet
           /\ k + map[k].size < AddrSpace
      /\ \A j, k \in DOMAIN map : j < k => j + map[j].size <= k
  BY EndAddress DEF WellFormed
<1>5. \A k \in DOMAIN map \ {parent} : k + map[k].size <= parent \/ last <= k
  BY <1>1, <1>4
\* The entries of m: the pieces of the parent and the other entries of map.
<1>6. /\ start # parent => start \notin DOMAIN map
      /\ end # last => end \notin DOMAIN map
  BY <1>1, <1>4, <1>5
<1>7. ASSUME NEW k \in DOMAIN m
      PROVE  \/ k = start /\ m[k] = reg
             \/ /\ k = parent /\ start # parent
                /\ m[k] = Region(parent, start - parent, map[parent].type)
             \/ /\ k = end /\ end # last
                /\ m[k] = Region(end, last - end, map[parent].type)
             \/ /\ k \in DOMAIN map \ {parent}
                /\ k # start
                /\ k + map[k].size <= parent \/ last <= k
                /\ m[k] = map[k]
  <2>1. CASE k \in {start, parent} \/ (k = end /\ end # last)
    BY <1>2, <2>1
  <2>2. CASE k \notin {start, parent} /\ ~ (k = end /\ end # last)
    <3>1. k \in DOMAIN map \ {start, parent}
      BY <1>2, <2>2
    <3>2. m[k] = map[k]
      BY <1>2, <2>2, <3>1
    <3> QED
      BY <1>5, <3>1, <3>2
  <2> QED
    BY <2>1, <2>2
<1>8. ASSUME NEW k \in DOMAIN m
      PROVE  /\ k \in Address /\ m[k] \in RegionSet /\ m[k].address = k
             /\ m[k].size \in Nat \ {0} /\ k + m[k].size < AddrSpace
             /\ \/ k = start /\ k + m[k].size = end
                \/ k = parent /\ start # parent /\ k + m[k].size = start
                \/ k = end /\ end # last /\ k + m[k].size = last
                \/ /\ k \in DOMAIN map \ {parent}
                   /\ k + m[k].size <= parent \/ last <= k
                   /\ m[k] = map[k]
  <2>1. CASE k = start /\ m[k] = reg
    BY <1>1, <1>3, <2>1, AddrSpaceAssumption DEF RegionSet, Address
  <2>2. CASE /\ k = parent /\ start # parent
             /\ m[k] = Region(parent, start - parent, map[parent].type)
    BY <1>1, <2>2, AddrSpaceAssumption DEF RegionSet, Region, Address
  <2>3. CASE /\ k = end /\ end # last
             /\ m[k] = Region(end, last - end, map[parent].type)
    BY <1>1, <2>3, AddrSpaceAssumption DEF RegionSet, Region, Address
  <2>4. CASE /\ k \in DOMAIN map \ {parent}
             /\ k + map[k].size <= parent \/ last <= k
             /\ m[k] = map[k]
    BY <1>4, <2>4
  <2> QED
    BY <1>7, <2>1, <2>2, <2>3, <2>4
<1>9. WellFormed(m)
  <2>1. ASSUME NEW j \in DOMAIN m, NEW k \in DOMAIN m, j < k
        PROVE  j + m[j].size <= k
    <3>1. CASE /\ j \in DOMAIN map \ {parent} /\ m[j] = map[j]
               /\ k \in DOMAIN map \ {parent}
      BY <1>4, <2>1, <3>1
    <3>2. CASE ~ (/\ j \in DOMAIN map \ {parent} /\ m[j] = map[j]
                  /\ k \in DOMAIN map \ {parent})
      <4>1. /\ j \in Nat /\ m[j].size \in Nat \ {0}
            /\ k \in Nat /\ m[k].size \in Nat \ {0}
        BY <1>8 DEF Address
      <4> QED
        BY <1>1, <1>8, <2>1, <3>2, <4>1
    <3> QED
      BY <3>1, <3>2
  <2> QED
    BY <1>8, <2>1 DEF WellFormed
<1>10. ASSUME NEW a \in Int, NEW t \in RegionType
       PROVE  HasKind(m, a, t) <=>
                IF start <= a /\ a < end THEN t = reg.type
                                        ELSE HasKind(map, a, t)
  <2>1. CASE start <= a /\ a < end
    <3>1. \A k \in DOMAIN m : InRegion(m, k, a) => k = start
      <4> SUFFICES ASSUME NEW k \in DOMAIN m, k <= a, a < k + m[k].size
                   PROVE  k = start
        BY <1>8 DEF InRegion
      <4>1. k \in Nat /\ m[k].size \in Nat
        BY <1>8 DEF Address
      <4> QED
        BY <1>1, <1>8, <2>1, <4>1
    <3>2. start \in DOMAIN m /\ InRegion(m, start, a)
      BY <1>1, <1>2, <1>3, <2>1 DEF InRegion, RegionSet, Address
    <3> QED
      BY <1>2, <2>1, <3>1, <3>2 DEF HasKind
  <2>2. CASE ~ (start <= a /\ a < end)
    <3>1. ASSUME NEW k \in DOMAIN m, InRegion(m, k, a), m[k].type = t
          PROVE  HasKind(map, a, t)
      <4>1. /\ k \in Nat /\ m[k].size \in Nat
            /\ k <= a /\ a < k + m[k].size
        BY <1>8, <3>1 DEF InRegion, Address
      <4>2. CASE k \in {parent, end} /\ k # start /\ parent <= a /\ a < last
        <5>1. InRegion(map, parent, a)
          BY <1>1, <4>2 DEF InRegion
        <5>2. map[parent].type = m[k].type
          <6>1. CASE k = parent
            BY <1>2, <4>2, <6>1 DEF Region
          <6>2. CASE k # parent /\ end # last
            BY <1>2, <4>2, <6>2 DEF Region
          <6>3. CASE k # parent /\ end = last
            BY <1>1, <4>1, <4>2, <6>3
          <6> QED
            BY <6>1, <6>2, <6>3
        <5> QED
          BY <1>1, <3>1, <5>1, <5>2 DEF HasKind
      <4>3. CASE k \in DOMAIN map /\ m[k] = map[k]
        BY <3>1, <4>3 DEF HasKind, InRegion
      <4> QED
        BY <1>1, <1>8, <2>2, <4>1, <4>2, <4>3
    <3>2. ASSUME NEW k \in DOMAIN map, InRegion(map, k, a), map[k].type = t
          PROVE  HasKind(m, a, t)
      <4>1. /\ k \in Nat /\ map[k].size \in Nat
            /\ k <= a /\ a < k + map[k].size
        BY <1>4, <3>2 DEF InRegion
      <4>2. CASE k = parent /\ a < start
        <5>1. start # parent /\ parent \in DOMAIN m
          BY <1>1, <1>2, <4>1, <4>2
        <5>2. m[parent] = Region(parent, start - parent, t)
          BY <1>2, <3>2, <4>2, <5>1
        <5>3. InRegion(m, parent, a)
          BY <1>1, <4>1, <4>2, <5>2 DEF InRegion, Region
        <5> QED
          BY <5>1, <5>2, <5>3 DEF HasKind, Region
      <4>3. CASE k = parent /\ end <= a
        <5>1. end # last /\ end \in DOMAIN m
          BY <1>1, <1>2, <4>1, <4>3
        <5>2. m[end] = Region(end, last - end, t)
          BY <1>2, <3>2, <4>3, <5>1
        <5>3. InRegion(m, end, a)
          BY <1>1, <4>1, <4>3, <5>2 DEF InRegion, Region
        <5> QED
          BY <5>1, <5>2, <5>3 DEF HasKind, Region
      <4>4. CASE k # parent
        <5>1. k \in DOMAIN m
          BY <1>2
        <5>2. k # start /\ ~ (k = end /\ end # last)
          BY <1>6, <4>4
        <5>3. m[k] = map[k]
          BY <1>7, <4>4, <5>1, <5>2
        <5> QED
          BY <3>2, <5>1, <5>3 DEF HasKind, InRegion
      <4> QED
        BY <1>1, <2>2, <4>1, <4>2, <4>3, <4>4
    <3> QED
      BY <2>2, <3>1, <3>2 DEF HasKind
  <2> QED
    BY <2>1, <2>2
<1>11. ASSUME NEW k \in DOMAIN m
       PROVE  \/ k = start
              \/ k \in DOMAIN map /\ m[k].type = map[k].type
              \/ m[k].type = map[parent].type
  BY <1>1, <1>7 DEF Region
<1> QED
  BY <1>1, <1>2, <1>9, <1>10, <1>11 DEF start, end

-----------------------------------------------------------------------------
(* insert_region as a whole. *)

\* The bytes of the inserted region get its type, every other byte keeps its
\* own, and the entries still start where entries started before, at the new
\* region, or at the rest of the parent (analyser.cpp:228-278).
THEOREM InsertCorrect ==
    ASSUME NEW map, WellFormed(map), NEW parent, NEW reg, FitsIn(map, parent, reg),
           NEW m, m = insert_region(map, parent, reg)
    PROVE  /\ WellFormed(m)
           /\ \A a \in Int, t \in RegionType :
                HasKind(m, a, t) <=>
                    IF reg.address <= a /\ a < reg.address + reg.size
                    THEN t = reg.type
                    ELSE HasKind(map, a, t)
           /\ \A k \in DOMAIN m :
                \/ k = reg.address /\ m[k].type = reg.type
                \/ k \in DOMAIN map /\ m[k].type = map[k].type
                \/ m[k].type = map[parent].type
<1> DEFINE split == Split(map, parent, reg)
<1>1. m = check_merge_regions(split, reg.address)
  BY DEF insert_region, Split
<1>2. /\ WellFormed(split)
      /\ reg.address \in DOMAIN split
      /\ split[reg.address] = reg
      /\ \A a \in Int, t \in RegionType :
            HasKind(split, a, t) <=>
                IF reg.address <= a /\ a < reg.address + reg.size
                THEN t = reg.type
                ELSE HasKind(map, a, t)
      /\ \A k \in DOMAIN split :
            \/ k = reg.address
            \/ k \in DOMAIN map /\ split[k].type = map[k].type
            \/ split[k].type = map[parent].type
  BY SplitCorrect
<1> HIDE DEF split
<1>3. WellFormed(m) /\ SameKinds(m, split) /\ SameStarts(m, split)
  BY <1>1, <1>2, CheckMergeCorrect
<1>4. \A k \in DOMAIN m : k \in DOMAIN split /\ m[k].type = split[k].type
  BY <1>3 DEF SameStarts
<1> QED
  BY <1>2, <1>3, <1>4 DEF SameKinds

\* An insertion neither maps nor unmaps a byte.
COROLLARY InsertKeepsMapped ==
    ASSUME NEW map, WellFormed(map), NEW parent, NEW reg, FitsIn(map, parent, reg),
           NEW m, m = insert_region(map, parent, reg), NEW a \in Int
    PROVE  IsMapped(m, a) <=> IsMapped(map, a)
<1>1. \A f : WellFormed(f) =>
        (IsMapped(f, a) <=> \E t \in RegionType : HasKind(f, a, t))
  BY DEF IsMapped, HasKind, WellFormed, RegionSet
<1>2. /\ WellFormed(m)
      /\ \A t \in RegionType :
            HasKind(m, a, t) <=>
                IF reg.address <= a /\ a < reg.address + reg.size
                THEN t = reg.type
                ELSE HasKind(map, a, t)
  BY InsertCorrect
<1>3. reg.type \in RegionType /\ parent \in DOMAIN map
  BY DEF FitsIn, RegionSet
<1>4. reg.address <= a /\ a < reg.address + reg.size => InRegion(map, parent, a)
  BY FitsInEnds DEF FitsIn, InRegion
<1> QED
  BY <1>1, <1>2, <1>3, <1>4 DEF IsMapped

-----------------------------------------------------------------------------
(* The entries of other types than the inserted one. *)

\* A merge leaves the entries of other types as they are.
LEMMA AbsorbOthers ==
    ASSUME NEW map, WellFormed(map), NEW l \in DOMAIN map, NEW r \in DOMAIN map,
           joinable(map, l, r), NEW new, new = absorb(map, l, r),
           NEW k \in DOMAIN new, new[k].type # map[l].type
    PROVE  k \in DOMAIN map /\ new[k] = map[k]
<1>1. /\ l + map[l].size = r
      /\ l < r
      /\ DOMAIN absorb(map, l, r) = DOMAIN map \ {r}
      /\ absorb(map, l, r)[l]
            = [address |-> l, size |-> map[l].size + map[r].size,
               type |-> map[l].type]
      /\ \A j \in DOMAIN map \ {l, r} : absorb(map, l, r)[j] = map[j]
  BY AbsorbShape, SMTT(60)
<1>2. /\ DOMAIN new = DOMAIN map \ {r}
      /\ new[l].type = map[l].type
      /\ \A j \in DOMAIN map \ {l, r} : new[j] = map[j]
  BY <1>1
<1> QED
  BY <1>2

\* So do the two merges of check_merge_regions.
LEMMA CheckMergeOthers ==
    ASSUME NEW map, WellFormed(map), NEW addr \in DOMAIN map,
           NEW new, new = check_merge_regions(map, addr),
           NEW k \in DOMAIN new, new[k].type # map[addr].type
    PROVE  k \in DOMAIN map /\ new[k] = map[k]
<1> DEFINE prev == get_previous_value(DOMAIN map, addr)
           next == get_next_value(DOMAIN map, addr)
           back == prev # NULL /\ joinable(map, prev, addr)
           reg  == IF back THEN prev ELSE addr
           map1 == IF back THEN absorb(map, prev, addr) ELSE map
           both == next # NULL /\ joinable(map1, reg, next)
           map2 == IF both THEN absorb(map1, reg, next) ELSE map1
<1>1. new = map2
  BY DEF check_merge_regions
<1>2. prev # NULL => prev \in DOMAIN map /\ prev < addr
  BY DEF get_previous_value, IsPrevious
<1>3. next # NULL => next \in DOMAIN map /\ addr < next
  BY DEF get_next_value, IsNext
<1>4. \A j \in DOMAIN map : j \in Nat
  BY EndAddress
<1>5. /\ WellFormed(map1)
      /\ reg \in DOMAIN map1
      /\ map1[reg].type = map[addr].type
      /\ next # NULL => next \in DOMAIN map1
      /\ \A j \in DOMAIN map1 : map1[j].type # map[addr].type =>
            j \in DOMAIN map /\ map1[j] = map[j]
  <2>1. CASE back
    <3>1. prev \in DOMAIN map /\ prev < addr /\ joinable(map, prev, addr)
      BY <1>2, <2>1
    <3>2. map1 = absorb(map, prev, addr) /\ reg = prev
      BY <2>1
    <3> HIDE DEF map1, reg, prev, next
    <3>3. /\ DOMAIN map1 = DOMAIN map \ {addr}
          /\ map1[prev] = [address |-> prev,
                           size |-> map[prev].size + map[addr].size,
                           type |-> map[prev].type]
          /\ prev + map[prev].size = addr
      BY <3>1, <3>2, AbsorbShape
    <3>4. map[prev].type = map[addr].type /\ map1[prev].type = map[addr].type
      BY <3>1, <3>3 DEF joinable
    <3>5. WellFormed(map1)
      BY <3>1, <3>2, AbsorbCorrect
    <3>6. \A j \in DOMAIN map1 : map1[j].type # map[addr].type =>
            j \in DOMAIN map /\ map1[j] = map[j]
      BY <3>1, <3>2, <3>4, AbsorbOthers
    <3>7. prev \in DOMAIN map1
      BY <1>4, <3>1, <3>3
    <3> QED
      BY <1>3, <1>4, <3>2, <3>3, <3>4, <3>5, <3>6, <3>7
  <2>2. CASE ~ back
    <3>1. map1 = map /\ reg = addr
      BY <2>2
    <3> HIDE DEF map1, reg, prev, next
    <3> QED
      BY <1>3, <3>1
  <2> QED
    BY <2>1, <2>2
<1> HIDE DEF map1, reg, next
<1>6. CASE both
  <2>1. k \in DOMAIN map1 /\ map2[k] = map1[k]
    BY <1>1, <1>5, <1>6, AbsorbOthers
  <2> QED
    BY <1>1, <1>5, <2>1
<1>7. CASE ~ both
  BY <1>1, <1>5, <1>7
<1> QED
  BY <1>6, <1>7

\* An insertion lets no entry of another type grow: it lies within an entry
\* of that type that was there before.  The joining of entries that touch
\* only reaches the type that is inserted (analyser.cpp:228-278).
THEOREM InsertWithin ==
    ASSUME NEW map, WellFormed(map), NEW parent, NEW reg, FitsIn(map, parent, reg),
           NEW m, m = insert_region(map, parent, reg),
           NEW k \in DOMAIN m, m[k].type # reg.type
    PROVE  \E j \in DOMAIN map :
                /\ map[j].type = m[k].type
                /\ j <= k
                /\ k + m[k].size <= j + map[j].size
<1> DEFINE split == Split(map, parent, reg)
           start == reg.address
           end == reg.address + reg.size
           last == parent + map[parent].size
<1>1. /\ start \in Nat /\ parent \in Nat /\ parent <= start
      /\ start < end /\ end <= last /\ end \in Nat /\ last \in Nat
      /\ parent \in DOMAIN map
      /\ parent + map[parent].size = last
  BY FitsInEnds DEF FitsIn
<1>2. /\ DOMAIN split = DOMAIN map \cup {start}
                            \cup (IF end # last THEN {end} ELSE {})
      /\ split[start] = reg
      /\ start # parent =>
           split[parent] = Region(parent, start - parent, map[parent].type)
      /\ end # last =>
           split[end] = Region(end, last - end, map[parent].type)
      /\ \A j \in DOMAIN map \ {start, parent} :
                ~ (j = end /\ end # last) => split[j] = map[j]
  BY SplitShape
<1>3. WellFormed(split)
  BY SplitCorrect
<1>4. m = check_merge_regions(split, start)
  BY DEF insert_region, Split
<1> HIDE DEF split, end, last
<1>5. k \in DOMAIN split /\ m[k] = split[k]
  <2>1. start \in DOMAIN split /\ split[start].type = reg.type
    BY <1>2
  <2> HIDE DEF start
  <2> QED
    BY <1>3, <1>4, <2>1, CheckMergeOthers
<1>6. k # start
  BY <1>2, <1>5
<1>7. CASE k = end /\ end # last
  <2>1. m[k].size = last - end /\ m[k].type = map[parent].type
    BY <1>2, <1>5, <1>7 DEF Region
  <2>2. parent <= k /\ k + m[k].size <= last
    BY <1>1, <1>7, <2>1
  <2> QED
    BY <1>1, <2>1, <2>2
<1>8. CASE k = parent
  <2>1. m[k].size = start - parent /\ m[k].type = map[parent].type
    BY <1>2, <1>5, <1>6, <1>8 DEF Region
  <2>2. parent <= k /\ k + m[k].size <= last
    BY <1>1, <1>8, <2>1
  <2> QED
    BY <1>1, <2>1, <2>2
<1>9. CASE k # parent /\ ~ (k = end /\ end # last)
  <2>1. k \in DOMAIN map /\ m[k] = map[k]
    BY <1>2, <1>5, <1>6, <1>9
  <2>2. k \in Nat /\ map[k].size \in Nat
    BY <2>1, EndAddress
  <2> QED
    BY <2>1, <2>2
<1> QED
  BY <1>7, <1>8, <1>9

-----------------------------------------------------------------------------
(* Entries of one type that touch. *)

\* The entry at x could be merged with the one that ends there.
TouchAt(map, x) ==
    x \in DOMAIN map /\ \E k \in DOMAIN map : joinable(map, k, x)

\* Two entries that end at one address are one entry.
LEMMA OneEndsAt ==
    ASSUME NEW map, WellFormed(map), NEW j \in DOMAIN map, NEW k \in DOMAIN map,
           j + map[j].size = k + map[k].size
    PROVE  j = k
<1>1. /\ j \in Nat /\ map[j].size \in Nat \ {0}
      /\ k \in Nat /\ map[k].size \in Nat \ {0}
  BY EndAddress
<1>2. /\ j < k => j + map[j].size <= k
      /\ k < j => k + map[k].size <= j
  BY DEF WellFormed
<1> QED
  BY <1>1, <1>2

\* A merge makes no two entries touch that did not touch before, and leaves
\* none to be merged where it has merged.
LEMMA AbsorbTouches ==
    ASSUME NEW map, WellFormed(map), NEW l \in DOMAIN map, NEW r \in DOMAIN map,
           joinable(map, l, r), NEW new, new = absorb(map, l, r),
           NEW x, TouchAt(new, x)
    PROVE  TouchAt(map, x) /\ x # r
<1>1. /\ l + map[l].size = r
      /\ DOMAIN new = DOMAIN map \ {r}
      /\ new[l] = [address |-> l, size |-> map[l].size + map[r].size,
                   type |-> map[l].type]
      /\ \A k \in DOMAIN map \ {l, r} : new[k] = map[k]
  BY AbsorbShape
<1>2. WellFormed(new)
  BY AbsorbCorrect
<1>3. x \in DOMAIN map /\ x # r /\ new[x].type = map[x].type
  BY <1>1 DEF TouchAt
<1>4. PICK k \in DOMAIN new : joinable(new, k, x)
  BY DEF TouchAt
<1>5. k + new[k].size = x /\ new[k].type = new[x].type
  BY <1>2, <1>4, EndAddress DEF joinable
<1>6. CASE k = l
  <2>1. r + map[r].size = x
    BY <1>1, <1>5, <1>6, EndAddress
  <2>2. map[r].type = map[x].type
    BY <1>1, <1>3, <1>5, <1>6 DEF joinable
  <2> QED
    BY <1>3, <2>1, <2>2, EndAddress DEF TouchAt, joinable
<1>7. CASE k # l
  <2>1. k \in DOMAIN map /\ new[k] = map[k]
    BY <1>1, <1>7
  <2> QED
    BY <1>3, <1>5, <2>1, EndAddress DEF TouchAt, joinable
<1> QED
  BY <1>6, <1>7

\* After check_merge_regions nothing touches the entry at addr from below,
\* nor where it ended before; nowhere else has anything come to touch.
LEMMA CheckMergeTouches ==
    ASSUME NEW map, WellFormed(map), NEW addr \in DOMAIN map,
           NEW x, TouchAt(check_merge_regions(map, addr), x)
    PROVE  /\ TouchAt(map, x)
           /\ x # addr
           /\ x # addr + map[addr].size
<1> DEFINE prev == get_previous_value(DOMAIN map, addr)
           next == get_next_value(DOMAIN map, addr)
           back == prev # NULL /\ joinable(map, prev, addr)
           reg  == IF back THEN prev ELSE addr
           map1 == IF back THEN absorb(map, prev, addr) ELSE map
           map2 == IF next # NULL /\ joinable(map1, reg, next)
                   THEN absorb(map1, reg, next) ELSE map1
           end  == addr + map[addr].size
<1>1. check_merge_regions(map, addr) = map2
  BY DEF check_merge_regions
<1>2. /\ \A k \in DOMAIN map :
            k \in Nat /\ map[k].size \in Nat \ {0}
            /\ get_end_address(map[k]) = k + map[k].size
      /\ \A j, k \in DOMAIN map : j < k => j + map[j].size <= k
  BY EndAddress DEF WellFormed
<1>3. NULL \notin DOMAIN map
  BY <1>2, NullAssumption
<1>4. \A k \in DOMAIN map : joinable(map, k, addr) => back
  <2> SUFFICES ASSUME NEW k \in DOMAIN map, joinable(map, k, addr)
               PROVE  prev = k
    BY <1>3
  <2>1. k + map[k].size = addr /\ k < addr
    BY <1>2 DEF joinable
  <2>2. \A j \in DOMAIN map : j < addr => j <= k
    BY <1>2, <2>1
  <2>3. IsPrevious(DOMAIN map, addr, k)
    BY <2>1, <2>2 DEF IsPrevious
  <2>4. \A j \in DOMAIN map : IsPrevious(DOMAIN map, addr, j) => j = k
    BY <1>2, <2>3 DEF IsPrevious
  <2>5. \A j : IsPrevious(DOMAIN map, addr, j) => j = k
    BY <2>4 DEF IsPrevious
  <2> QED
    BY <2>3, <2>5 DEF get_previous_value
<1>5. back => prev \in DOMAIN map /\ prev < addr
  BY DEF get_previous_value, IsPrevious
<1>6. /\ WellFormed(map1)
      /\ reg \in DOMAIN map1
      /\ reg + map1[reg].size = end
      /\ DOMAIN map1 \subseteq DOMAIN map
      /\ \A k \in DOMAIN map : addr < k => k \in DOMAIN map1
      /\ \A y : TouchAt(map1, y) => TouchAt(map, y) /\ y # addr
  <2>1. CASE back
    <3>1. prev \in DOMAIN map /\ prev < addr /\ joinable(map, prev, addr)
      BY <1>5, <2>1
    <3>2. map1 = absorb(map, prev, addr) /\ reg = prev
      BY <2>1
    <3> HIDE DEF map1, reg, prev
    <3>3. /\ DOMAIN map1 = DOMAIN map \ {addr}
          /\ map1[prev] = [address |-> prev,
                           size |-> map[prev].size + map[addr].size,
                           type |-> map[prev].type]
          /\ prev + map[prev].size = addr
      BY <3>1, <3>2, AbsorbShape
    <3>4. WellFormed(map1)
      BY <3>1, <3>2, AbsorbCorrect
    <3>5. \A y : TouchAt(map1, y) => TouchAt(map, y) /\ y # addr
      BY <3>1, <3>2, AbsorbTouches
    <3>6. prev + map1[prev].size = end
      BY <1>2, <3>1, <3>3
    <3> QED
      BY <1>2, <3>1, <3>2, <3>3, <3>4, <3>5, <3>6
  <2>2. CASE ~ back
    <3>1. map1 = map /\ reg = addr
      BY <2>2
    <3>2. \A y : TouchAt(map1, y) => TouchAt(map, y) /\ y # addr
      BY <1>4, <2>2, <3>1 DEF TouchAt
    <3> HIDE DEF map1, reg
    <3> QED
      BY <3>1, <3>2
  <2> QED
    BY <2>1, <2>2
<1> HIDE DEF map1, reg
<1>7. next # NULL => next \in DOMAIN map1
  BY <1>6 DEF get_next_value, IsNext
<1>8. ASSUME NEW y, TouchAt(map2, y)
      PROVE  TouchAt(map1, y)
  <2>1. CASE next # NULL /\ joinable(map1, reg, next)
    BY <1>6, <1>7, <1>8, <2>1, AbsorbTouches
  <2>2. CASE ~ (next # NULL /\ joinable(map1, reg, next))
    BY <1>8, <2>2
  <2> QED
    BY <2>1, <2>2
<1>9. ~ TouchAt(map2, end)
  <2> SUFFICES ASSUME TouchAt(map2, end) PROVE FALSE
    OBVIOUS
  <2>1. TouchAt(map1, end)
    BY <1>8
  <2>2. PICK k \in DOMAIN map1 : joinable(map1, k, end)
    BY <2>1 DEF TouchAt
  <2>3. k = reg
    <3>1. k + map1[k].size = end
      BY <1>6, <2>2, EndAddress DEF joinable
    <3> HIDE DEF end
    <3> QED
      BY <1>6, <3>1, OneEndsAt
  <2>4. end \in DOMAIN map /\ addr < end
    BY <1>2, <1>6, <2>1 DEF TouchAt
  <2>5. IsNext(DOMAIN map, addr, end)
    BY <1>2, <2>4 DEF IsNext
  <2>6. \A j : IsNext(DOMAIN map, addr, j) => j = end
    BY <1>2, <2>4, <2>5 DEF IsNext
  <2>7. next = end /\ next # NULL
    BY <1>3, <2>4, <2>5, <2>6 DEF get_next_value
  <2>8. map2 = absorb(map1, reg, end)
    BY <2>2, <2>3, <2>7
  <2> HIDE DEF map2, end
  <2> QED
    BY <1>6, <1>7, <2>2, <2>3, <2>7, <2>8, AbsorbTouches
<1> HIDE DEF map2
<1> QED
  BY <1>1, <1>6, <1>8, <1>9

\* The split may only leave touching entries at the two ends of the new one.
LEMMA SplitTouches ==
    ASSUME NEW map, WellFormed(map), NEW parent, NEW reg, FitsIn(map, parent, reg),
           NEW m, m = Split(map, parent, reg), NEW x, TouchAt(m, x)
    PROVE  \/ TouchAt(map, x)
           \/ x = reg.address
           \/ x = reg.address + reg.size
<1> DEFINE start == reg.address
           end == reg.address + reg.size
           last == parent + map[parent].size
<1>1. /\ start \in Nat /\ parent \in Nat /\ parent <= start
      /\ start < end /\ end <= last /\ end \in Nat /\ last \in Nat
      /\ end - start = reg.size
      /\ parent \in DOMAIN map
      /\ parent + map[parent].size = last
  BY FitsInEnds DEF FitsIn
<1>2. /\ DOMAIN m = DOMAIN map \cup {start} \cup (IF end # last THEN {end} ELSE {})
      /\ m[start] = reg
      /\ start # parent =>
           m[parent] = Region(parent, start - parent, map[parent].type)
      /\ end # last => m[end] = Region(end, last - end, map[parent].type)
      /\ \A k \in DOMAIN map \ {start, parent} :
                ~ (k = end /\ end # last) => m[k] = map[k]
  BY SplitShape
<1>3. WellFormed(m)
  BY SplitCorrect
<1> SUFFICES ASSUME x # start, x # end PROVE TouchAt(map, x)
  OBVIOUS
<1>4. reg.size = end - start
  BY <1>1
<1> HIDE DEF start, end, last
<1>5. x \in DOMAIN map /\ m[x].type = map[x].type
  BY <1>2 DEF TouchAt, Region
<1>6. PICK k \in DOMAIN m : joinable(m, k, x)
  BY DEF TouchAt
<1>7. k + m[k].size = x /\ m[k].type = map[x].type
  BY <1>3, <1>5, <1>6, EndAddress DEF joinable
<1>8. k # start
  BY <1>1, <1>2, <1>4, <1>7
<1>9. k # parent
  <2> SUFFICES ASSUME k = parent, start # parent PROVE FALSE
    BY <1>8
  <2>1. m[parent].size = start - parent
    BY <1>2 DEF Region
  <2> QED
    BY <1>1, <1>7, <2>1
<1>10. CASE k = end /\ end # last
  <2>1. m[k].size = last - end /\ m[k].type = map[parent].type
    BY <1>2, <1>10 DEF Region
  <2>2. last = x /\ map[parent].type = map[x].type
    BY <1>1, <1>7, <1>10, <2>1
  <2> QED
    BY <1>1, <1>5, <2>2, EndAddress DEF TouchAt, joinable
<1>11. CASE ~ (k = end /\ end # last)
  <2>1. k \in DOMAIN map /\ m[k] = map[k]
    BY <1>2, <1>8, <1>9, <1>11
  <2> QED
    BY <1>5, <1>7, <2>1, EndAddress DEF TouchAt, joinable
<1> QED
  BY <1>10, <1>11

\* insert_region leaves no two entries to be merged that were not there to be
\* merged before, and none at the new region: the one check_merge_regions at
\* its end is enough.
THEOREM InsertTouches ==
    ASSUME NEW map, WellFormed(map), NEW parent, NEW reg, FitsIn(map, parent, reg),
           NEW m, m = insert_region(map, parent, reg), NEW x, TouchAt(m, x)
    PROVE  TouchAt(map, x) /\ x # reg.address
<1> DEFINE split == Split(map, parent, reg)
<1>1. m = check_merge_regions(split, reg.address)
  BY DEF insert_region, Split
<1>2. /\ WellFormed(split)
      /\ reg.address \in DOMAIN split
      /\ split[reg.address] = reg
  BY SplitCorrect
<1>3. \A y : TouchAt(split, y) =>
        TouchAt(map, y) \/ y = reg.address \/ y = reg.address + reg.size
  BY SplitTouches
<1> HIDE DEF split
<1>4. /\ TouchAt(split, x)
      /\ x # reg.address
      /\ x # reg.address + split[reg.address].size
  BY <1>1, <1>2, CheckMergeTouches
<1> QED
  BY <1>2, <1>3, <1>4

-----------------------------------------------------------------------------
(* Runs of bytes that one entry holds. *)

Holds(map, lo, hi) == \E k \in DOMAIN map : k <= lo /\ hi <= k + map[k].size

LEMMA AbsorbHolds ==
    ASSUME NEW map, WellFormed(map), NEW l \in DOMAIN map, NEW r \in DOMAIN map,
           joinable(map, l, r), NEW lo \in Int, NEW hi \in Int, Holds(map, lo, hi)
    PROVE  Holds(absorb(map, l, r), lo, hi)
<1> DEFINE new == absorb(map, l, r)
<1>1. /\ l + map[l].size = r /\ l < r
      /\ DOMAIN new = DOMAIN map \ {r}
      /\ new[l] = [address |-> l, size |-> map[l].size + map[r].size,
                   type |-> map[l].type]
      /\ \A k \in DOMAIN map \ {l, r} : new[k] = map[k]
  BY AbsorbShape, ZenonT(60)
<1> HIDE DEF new
<1>2. PICK k \in DOMAIN map : k <= lo /\ hi <= k + map[k].size
  BY DEF Holds
<1>3. /\ l \in Nat /\ map[l].size \in Nat
      /\ r \in Nat /\ map[r].size \in Nat
      /\ k \in Nat /\ map[k].size \in Nat
  BY EndAddress
<1>4. CASE k \in {l, r}
  <2>1. l <= lo /\ hi <= l + new[l].size
    BY <1>1, <1>2, <1>3, <1>4
  <2>2. l \in DOMAIN new
    BY <1>1, <1>3
  <2> QED
    BY <2>1, <2>2 DEF Holds, new
<1>5. CASE k \notin {l, r}
  BY <1>1, <1>2, <1>5 DEF Holds, new
<1> QED
  BY <1>4, <1>5

LEMMA CheckMergeHolds ==
    ASSUME NEW map, WellFormed(map), NEW addr \in DOMAIN map,
           NEW lo \in Int, NEW hi \in Int, Holds(map, lo, hi)
    PROVE  Holds(check_merge_regions(map, addr), lo, hi)
<1> DEFINE prev == get_previous_value(DOMAIN map, addr)
           next == get_next_value(DOMAIN map, addr)
           back == prev # NULL /\ joinable(map, prev, addr)
           reg  == IF back THEN prev ELSE addr
           map1 == IF back THEN absorb(map, prev, addr) ELSE map
           map2 == IF next # NULL /\ joinable(map1, reg, next)
                   THEN absorb(map1, reg, next) ELSE map1
<1>1. check_merge_regions(map, addr) = map2
  BY DEF check_merge_regions
<1>2. prev # NULL => prev \in DOMAIN map /\ prev < addr
  BY DEF get_previous_value, IsPrevious
<1>3. next # NULL => next \in DOMAIN map /\ addr < next
  BY DEF get_next_value, IsNext
<1>4. \A k \in DOMAIN map : k \in Nat
  BY EndAddress
<1>5. /\ WellFormed(map1) /\ Holds(map1, lo, hi)
      /\ reg \in DOMAIN map1
      /\ next # NULL => next \in DOMAIN map1
  <2>1. CASE back
    <3>1. prev \in DOMAIN map /\ prev < addr /\ joinable(map, prev, addr)
      BY <1>2, <2>1
    <3>2. DOMAIN absorb(map, prev, addr) = DOMAIN map \ {addr}
      BY <3>1, AbsorbShape
    <3>3. WellFormed(absorb(map, prev, addr)) /\ Holds(absorb(map, prev, addr), lo, hi)
      BY <3>1, AbsorbCorrect, AbsorbHolds
    <3>4. map1 = absorb(map, prev, addr) /\ reg = prev
      BY <2>1
    <3> HIDE DEF map1, reg, prev, next
    <3> QED
      BY <1>3, <1>4, <3>1, <3>2, <3>3, <3>4
  <2>2. CASE ~ back
    <3>1. map1 = map /\ reg = addr
      BY <2>2
    <3> HIDE DEF map1, reg, prev, next
    <3> QED
      BY <1>3, <3>1
  <2> QED
    BY <2>1, <2>2
<1> HIDE DEF map1, reg, next
<1>6. Holds(map2, lo, hi)
  BY <1>5, AbsorbHolds
<1> HIDE DEF map2
<1> QED
  BY <1>1, <1>6

LEMMA SplitHolds ==
    ASSUME NEW map, WellFormed(map), NEW parent, NEW reg, FitsIn(map, parent, reg),
           NEW m, m = Split(map, parent, reg),
           NEW lo \in Int, NEW hi \in Int, lo < hi, Holds(map, lo, hi),
           hi <= reg.address \/ reg.address + reg.size <= lo
    PROVE  Holds(m, lo, hi)
<1> DEFINE start == reg.address
           end == reg.address + reg.size
           last == parent + map[parent].size
<1>1. /\ start \in Nat /\ parent \in Nat /\ parent <= start
      /\ start < end /\ end <= last /\ end \in Nat /\ last \in Nat
      /\ parent \in DOMAIN map
      /\ parent + map[parent].size = last
      /\ hi <= start \/ end <= lo
  BY FitsInEnds DEF FitsIn
<1>2. /\ DOMAIN m = DOMAIN map \cup {start} \cup (IF end # last THEN {end} ELSE {})
      /\ start # parent =>
           m[parent] = Region(parent, start - parent, map[parent].type)
      /\ end # last => m[end] = Region(end, last - end, map[parent].type)
      /\ \A k \in DOMAIN map \ {start, parent} :
                ~ (k = end /\ end # last) => m[k] = map[k]
  BY SplitShape
<1> HIDE DEF start, end, last
<1>3. PICK k \in DOMAIN map : k <= lo /\ hi <= k + map[k].size
  BY DEF Holds
<1>4. /\ k \in Nat /\ map[k].size \in Nat
      /\ k < parent => k + map[k].size <= parent
      /\ parent < k => last <= k
  BY <1>1, <1>3, EndAddress DEF WellFormed
<1>5. CASE k = parent /\ hi <= start
  <2>1. start # parent
    BY <1>1, <1>3, <1>4, <1>5
  <2>2. m[parent].size = start - parent
    BY <1>2, <2>1 DEF Region
  <2>3. parent \in DOMAIN m /\ parent <= lo /\ hi <= parent + m[parent].size
    BY <1>1, <1>2, <1>3, <1>5, <2>2
  <2> QED
    BY <2>3 DEF Holds
<1>6. CASE k = parent /\ end <= lo
  <2>1. end # last
    BY <1>1, <1>3, <1>4, <1>6
  <2>2. m[end].size = last - end
    BY <1>2, <2>1 DEF Region
  <2>3. end \in DOMAIN m /\ end <= lo /\ hi <= end + m[end].size
    BY <1>1, <1>2, <1>3, <1>6, <2>1, <2>2
  <2> QED
    BY <2>3 DEF Holds
<1>7. CASE k # parent
  <2>1. k # start /\ ~ (k = end /\ end # last)
    BY <1>1, <1>3, <1>4, <1>7
  <2> QED
    BY <1>2, <1>3, <1>7, <2>1 DEF Holds
<1> QED
  BY <1>1, <1>5, <1>6, <1>7

\* What one entry held outside the new region, one entry still holds.
THEOREM InsertHolds ==
    ASSUME NEW map, WellFormed(map), NEW parent, NEW reg, FitsIn(map, parent, reg),
           NEW m, m = insert_region(map, parent, reg),
           NEW lo \in Int, NEW hi \in Int, lo < hi, Holds(map, lo, hi),
           hi <= reg.address \/ reg.address + reg.size <= lo
    PROVE  Holds(m, lo, hi)
<1> DEFINE split == Split(map, parent, reg)
<1>1. m = check_merge_regions(split, reg.address)
  BY DEF insert_region, Split
<1>2. WellFormed(split) /\ reg.address \in DOMAIN split
  BY SplitCorrect
<1>3. Holds(split, lo, hi)
  BY SplitHolds
<1> QED
  BY <1>1, <1>2, <1>3, CheckMergeHolds

\* The new bytes come to lie in one region.
THEOREM InsertHoldsNew ==
    ASSUME NEW map, WellFormed(map), NEW parent, NEW reg, FitsIn(map, parent, reg),
           NEW m, m = insert_region(map, parent, reg)
    PROVE  Holds(m, reg.address, reg.address + reg.size)
<1> DEFINE split == Split(map, parent, reg)
<1>1. m = check_merge_regions(split, reg.address)
  BY DEF insert_region, Split
<1>2. WellFormed(split) /\ reg.address \in DOMAIN split /\ split[reg.address] = reg
  BY SplitCorrect
<1>3. reg.address \in Int /\ reg.size \in Int
  BY FitsInEnds
<1>4. Holds(split, reg.address, reg.address + reg.size)
  BY <1>2, <1>3 DEF Holds
<1> QED
  BY <1>1, <1>2, <1>3, <1>4, CheckMergeHolds

=============================================================================
