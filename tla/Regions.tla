------------------------------ MODULE Regions ------------------------------
(***************************************************************************)
(* The region map of the analyser (regions.cpp and the region functions    *)
(* of analyser.cpp) as operators on a value: a map is a function from the  *)
(* start address of a region to the region, the std::map<uint32_t, Region> *)
(* Analyser::regions.  A Region* of the code is the key of the map entry   *)
(* it points to, or NULL.                                                  *)
(*                                                                         *)
(* Addresses and sizes are uint32_t: sums are taken modulo AddrSpace,      *)
(* which stands for 2^32.  No operator is recursive, so that theorems can  *)
(* be stated about every one of them.                                      *)
(***************************************************************************)
EXTENDS Integers

CONSTANTS
    AddrSpace,   \* the number of addresses of a uint32_t
    NULL         \* the null pointer

ASSUME AddrSpaceAssumption == AddrSpace \in Nat \ {0}
ASSUME NullAssumption == NULL \notin Int

Address == 0 .. AddrSpace - 1

RegionType == {"UNKNOWN", "CODE", "DATA", "VTABLE"}

RegionSet == [address : Address, size : Address, type : RegionType]

Region(address, size, type) ==
    [address |-> address, size |-> size, type |-> type]

-----------------------------------------------------------------------------
(* One region. *)

\* uint32_t + uint32_t: the sum wraps although it is returned as a size_t.
get_end_address(reg) == (reg.address + reg.size) % AddrSpace

\* Fault: the end counts as part of the region.
contains_address_WithEnd(reg, addr) ==
    reg.address <= addr /\ addr <= get_end_address(reg)

contains_address(reg, addr) ==
    /\ reg.address <= addr
    /\ addr < get_end_address(reg)

-----------------------------------------------------------------------------
(* Ordered lookup in a map or a set of keys (util.hpp).                    *)

\* The key after `key', whether or not `key' itself is in the set.
IsNext(keys, key, k) ==
    /\ k \in keys
    /\ key < k
    /\ \A j \in keys : key < j => k <= j

get_next_value(keys, key) ==
    IF \E k \in keys : IsNext(keys, key, k)
    THEN CHOOSE k \in keys : IsNext(keys, key, k)
    ELSE NULL

\* The key before `key', whether or not `key' itself is in the set.
IsPrevious(keys, key, k) ==
    /\ k \in keys
    /\ k < key
    /\ \A j \in keys : j < key => j <= k

get_previous_value(keys, key) ==
    IF \E k \in keys : IsPrevious(keys, key, k)
    THEN CHOOSE k \in keys : IsPrevious(keys, key, k)
    ELSE NULL

-----------------------------------------------------------------------------
(* The map. *)

\* Creates the entry or overwrites the one at the same address.
add_region(map, reg) ==
    [k \in DOMAIN map \cup {reg.address} |->
        IF k = reg.address THEN reg ELSE map[k]]

erase(map, addr) == [k \in DOMAIN map \ {addr} |-> map[k]]

\* Fault: only the entry before the address is looked at.
get_region_at_address_BeforeOnly(map, address) ==
    LET prev == get_previous_value(DOMAIN map, address)
    IN  IF prev # NULL /\ contains_address(map[prev], address) THEN prev ELSE NULL

\* An entry that starts at the address is found whatever its size; any
\* other address is looked for in the entry before it only.
get_region_at_address(map, address) ==
    LET prev == get_previous_value(DOMAIN map, address)
    IN  IF address \in DOMAIN map
        THEN address
        ELSE IF prev # NULL /\ contains_address(map[prev], address)
             THEN prev
             ELSE NULL

\* The entry at `left' grows by the entry at `right', which goes away.
absorb(map, left, right) ==
    erase([map EXCEPT ![left].size = (@ + map[right].size) % AddrSpace], right)

\* Fault: entries that touch are joined whatever their types.
joinable_AnyType(map, left, right) == get_end_address(map[left]) = right

\* The condition under which check_merge_regions joins two entries.
joinable(map, left, right) ==
    /\ map[left].type = map[right].type
    /\ get_end_address(map[left]) = right

\* Fault: only the previous neighbour is merged.
check_merge_regions_Previous(map, addr) ==
    LET prev == get_previous_value(DOMAIN map, addr)
    IN  IF prev # NULL /\ joinable(map, prev, addr)
        THEN absorb(map, prev, addr) ELSE map

\* Fault: only the next neighbour is merged.
check_merge_regions_Next(map, addr) ==
    LET next == get_next_value(DOMAIN map, addr)
    IN  IF next # NULL /\ joinable(map, addr, next)
        THEN absorb(map, addr, next) ELSE map

\* Both neighbours are looked up before anything is merged.  After a merge
\* with the previous entry, `reg' is that entry: the second test must not
\* use the erased one.
check_merge_regions(map, addr) ==
    LET prev == get_previous_value(DOMAIN map, addr)
        next == get_next_value(DOMAIN map, addr)
        back == prev # NULL /\ joinable(map, prev, addr)
        reg  == IF back THEN prev ELSE addr
        map1 == IF back THEN absorb(map, prev, addr) ELSE map
    IN  IF next # NULL /\ joinable(map1, reg, next)
        THEN absorb(map1, reg, next)
        ELSE map1

\* What the two assertions at the top of insert_region require.
insert_allowed(map, parent, reg) ==
    /\ contains_address(map[parent], reg.address)
    /\ contains_address(map[parent], (get_end_address(reg) - 1) % AddrSpace)

\* Fault: the part of the parent behind the new region is lost.
split_tail_Lost(map, parent, reg) == map

\* The part of the parent behind the new region keeps the parent's type.
split_tail(map, parent, reg) ==
    LET end == get_end_address(map[parent])
    IN  IF get_end_address(reg) # end
        THEN add_region(map, Region(get_end_address(reg),
                                    (end - get_end_address(reg)) % AddrSpace,
                                    map[parent].type))
        ELSE map

\* Fault: the parent is not cut back.
split_head_Uncut(map, parent, reg) == add_region(map, reg)

\* The part of the parent before the new region stays with the parent.
split_head(map, parent, reg) ==
    IF reg.address # map[parent].address
    THEN [add_region(map, reg) EXCEPT
            ![parent].size = (reg.address - map[parent].address) % AddrSpace]
    ELSE [map EXCEPT ![parent] = reg]

\* Fault: what is left of the parent behind the new region is merged as well.
insert_region_MergeRest(map, parent, reg) ==
    LET split  == split_head(split_tail(map, parent, reg), parent, reg)
        merged == check_merge_regions(split, reg.address)
    IN  IF get_end_address(reg) \in DOMAIN merged
        THEN check_merge_regions(merged, get_end_address(reg)) ELSE merged

insert_region(map, parent, reg) ==
    check_merge_regions(
        split_head(split_tail(map, parent, reg), parent, reg),
        reg.address)

-----------------------------------------------------------------------------
(* What a map means, byte by byte. *)

\* The byte belongs to the entry k.
InRegion(map, k, a) == map[k].address <= a /\ a < map[k].address + map[k].size

\* Some entry of type t holds the byte a.
HasKind(map, a, t) ==
    \E k \in DOMAIN map : InRegion(map, k, a) /\ map[k].type = t

IsMapped(map, a) == \E k \in DOMAIN map : InRegion(map, k, a)

\* Every entry is kept under its own address, is not empty, ends below the
\* top of the address space, and does not reach into the next one.
WellFormed(map) ==
    /\ \A k \in DOMAIN map :
        /\ k \in Address
        /\ map[k] \in RegionSet
        /\ map[k].address = k
        /\ map[k].size > 0
        /\ k + map[k].size < AddrSpace
    /\ \A j, k \in DOMAIN map : j < k => j + map[j].size <= k

=============================================================================
