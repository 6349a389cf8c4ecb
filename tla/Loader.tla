------------------------------- MODULE Loader -------------------------------
(***************************************************************************)
(* LinearExecutable::load (le.cpp): the header is looked for, the tables   *)
(* of objects and pages are read, and then, object by object, page by page *)
(* and record by record, the fixups.                                       *)
(*                                                                         *)
(* A file is given by what its tables say; that the loader takes the       *)
(* values of the tables over as they are is left out.  Pages and objects   *)
(* are counted from one, as in the file; the code subtracts one.           *)
(***************************************************************************)
EXTENDS Integers, Sequences, FiniteSets, Functions

CONSTANTS
    NULL,
    AddrSpace,   \* the number of addresses: 2^32 in the code
    WordSize,    \* the bytes of a relocated word: 4 in the code
    Files        \* the files the program may be given

(* What a file has:                                                        *)
(*   id            its first two bytes: "LE", "LX", "MZ" or others         *)
(*   new_format    the stub's relocation table leaves room for new_header  *)
(*   new_header    where the stub says the header is; 0 is nowhere         *)
(*   dos4g         the stub is the DOS/4G extender                         *)
(*   signatures    where "LE" and zeros follow in the range searched then  *)
(*   le_at         where "LE" or "LX" are                                  *)
(*   little, version           the header's byte order and version         *)
(*   page_size, last_page_size the bytes of a page, of the file's last one *)
(*   objects       their size, base, first page and number of pages        *)
(*   pages         per page, its type and its number in the file           *)
(*   records       per page, its fixup records: the kind of the source,    *)
(*                 the offset in the page, the target object, the offset   *)
(*                 in it                                                   *)
(*   remainder     the pages whose records end with less than a record     *)
(*   missing       what lies behind the end of the file                    *)
(*   missing_data  the numbers of the pages whose bytes lie there          *)
(* The sizes and counts are 32-bit words, and so is that of the offsets of *)
(* the records, one more than the pages.                                   *)
(* Records that are not internal references are reported and then read     *)
(* like the others, so they are no case of their own.                      *)

Address == 0 .. AddrSpace - 1

Parts == {"stub", "search", "header", "objects", "pages", "offsets", "records"}

SourceKind == {"offset32", "list", "other"}

RecordSet == [source : SourceKind, src_off : Int, object : Nat, dst_off : Address]

IsFile(f) ==
    /\ f.missing \subseteq Parts
    /\ f.new_format \in BOOLEAN /\ f.dos4g \in BOOLEAN /\ f.little \in BOOLEAN
    /\ f.le_at \subseteq Nat
    /\ f.id \in {"LE", "LX"} <=> 0 \in f.le_at
    /\ f.signatures \subseteq f.le_at
    /\ f.page_size \in Address \ {0} /\ f.last_page_size \in 0 .. f.page_size
    /\ f.objects \in Seq([size : Address, base : Address,
                         first_page : Address, pages : Address])
    /\ f.pages \in Seq([type : Nat, number : Nat]) /\ Len(f.pages) + 1 \in Address
    /\ f.records \in Seq(Seq(RecordSet)) /\ Len(f.records) = Len(f.pages)

ASSUME NullAssumption == NULL \notin Int
ASSUME AddrSpaceAssumption == AddrSpace \in Nat \ {0}
ASSUME WordSizeAssumption == WordSize \in Nat \ {0}
ASSUME FilesAssumption == \A f \in Files : IsFile(f)

VARIABLES
    file,              \* the file
    load,              \* the loop that has control, or how loading ended
    fixups,            \* LinearExecutable::fixups: per object, offset -> target
    fixup_addresses,   \* LinearExecutable::fixup_addresses
    oi,                \* the object
    page,              \* the page: n, page_idx
    record             \* how many records of the page have been read

lvars == <<file, load, fixups, fixup_addresses, oi, page, record>>

Objects == DOMAIN file.objects

Object == file.objects[oi]

\* The object's first page and the one behind its last.  Their indices, one
\* less, are uint32_t: page 0 has the highest index there is, and the sum with
\* the number of pages wraps.
StartPage == ((Object.first_page - 1) % AddrSpace) + 1

\* Fault: the sum is not cut to 32 bits.
PageEnd_Wide == StartPage + Object.pages

PageEnd == ((Object.first_page - 1 + Object.pages) % AddrSpace) + 1

HasPage == page \in DOMAIN file.pages

LoaderInit ==
    /\ file \in Files
    /\ load = "header"
    /\ fixups = [o \in Objects |-> [off \in {} |-> NULL]]
    /\ fixup_addresses = {}
    /\ oi = 1
    /\ page = NULL
    /\ record = 0

\* One of the tables is read and the next one follows, or an Error is thrown.
LoadTable(table, can_load, next_table) ==
    /\ load = table
    /\ load' = IF can_load THEN next_table ELSE "failed"
    /\ UNCHANGED <<file, fixups, fixup_addresses, oi, page, record>>

-----------------------------------------------------------------------------
(* The header. *)

FirstSignature == CHOOSE p \in file.signatures : \A q \in file.signatures : p <= q

\* An extender bound to its executable: the first signature counts, if it is
\* where one can be.
BoundHeader ==
    IF /\ file.dos4g /\ "search" \notin file.missing
       /\ file.signatures # {} /\ FirstSignature % 4 = 0
    THEN FirstSignature ELSE NULL

load_le_header_offset ==
    CASE file.id \in {"LE", "LX"} -> 0
      [] file.id = "MZ" /\ "stub" \notin file.missing
            /\ file.new_format /\ file.new_header # 0 -> file.new_header
      [] file.id = "MZ" /\ "stub" \notin file.missing
            /\ ~ file.new_format -> BoundHeader
      [] OTHER -> NULL

load_header ==
    LoadTable("header",
              /\ load_le_header_offset \in file.le_at
              /\ "header" \notin file.missing
              /\ file.little /\ file.version = 0,
              "objects")

-----------------------------------------------------------------------------
(* The tables. *)

load_object_table == LoadTable("objects", "objects" \notin file.missing, "pages")

\* LAST, the highest page type the loader knows, is 4.
load_object_page_table ==
    LoadTable("pages",
              /\ "pages" \notin file.missing
              /\ \A p \in DOMAIN file.pages : file.pages[p].type <= 4,
              "offsets")

load_fixup_record_offsets ==
    LoadTable("offsets", "offsets" \notin file.missing, "fixups")

-----------------------------------------------------------------------------
(* load_fixup_record_pages: the records. *)

BeginFixups ==
    /\ load = "fixups" /\ oi \in Objects
    /\ page' = StartPage
    /\ record' = 0
    /\ load' = "records"
    /\ UNCHANGED <<file, fixups, fixup_addresses, oi>>

IsSupported(r) == r.source = "offset32" /\ r.object \in Objects

\* Fault: the page counts from the first page of the file.
FixupOffset_InFile(r) == ((page - 1) * file.page_size + r.src_off) % AddrSpace

\* An offset below zero is in the page before.
FixupOffset(r) ==
    ((page - StartPage) * file.page_size + r.src_off) % AddrSpace

FixupTarget(r) == (file.objects[r.object].base + r.dst_off) % AddrSpace

PutFixup(r) ==
    fixups' = [fixups EXCEPT ![oi] =
                 [off \in DOMAIN @ \cup {FixupOffset(r)} |->
                    IF off = FixupOffset(r) THEN FixupTarget(r) ELSE @[off]]]

LoadFixup ==
    /\ load = "records" /\ page < PageEnd /\ HasPage
    /\ record < Len(file.records[page])
    /\ LET r == file.records[page][record + 1]
       IN  /\ "records" \notin file.missing /\ IsSupported(r)
           /\ PutFixup(r)
           /\ fixup_addresses' = fixup_addresses \cup {FixupTarget(r)}
    /\ record' = record + 1
    /\ UNCHANGED <<file, load, oi, page>>

RefuseFixup ==
    /\ load = "records" /\ page < PageEnd /\ HasPage
    /\ \/ /\ record < Len(file.records[page])
          /\ \/ "records" \in file.missing
             \/ ~ IsSupported(file.records[page][record + 1])
       \/ /\ record = Len(file.records[page])
          /\ page \in file.remainder
    /\ load' = "failed"
    /\ UNCHANGED <<file, fixups, fixup_addresses, oi, page, record>>

\* Fault: the page is not left.
FixupsOfPageLoaded_Again ==
    /\ load = "records" /\ page < PageEnd /\ HasPage
    /\ record = Len(file.records[page])
    /\ page \notin file.remainder
    /\ record' = 0
    /\ UNCHANGED <<file, load, fixups, fixup_addresses, oi, page>>

FixupsOfPageLoaded ==
    /\ load = "records" /\ page < PageEnd /\ HasPage
    /\ record = Len(file.records[page])
    /\ page \notin file.remainder
    /\ page' = page + 1
    /\ record' = 0
    /\ UNCHANGED <<file, load, fixups, fixup_addresses, oi>>

\* The offsets of the records are read without a test whether the file has the
\* page: what is read behind the last of them is not defined.
NoSuchPage ==
    /\ load = "records" /\ page < PageEnd /\ ~ HasPage
    /\ load' = "outside"
    /\ UNCHANGED <<file, fixups, fixup_addresses, oi, page, record>>

FixupsOfObjectLoaded ==
    /\ load = "records" /\ page >= PageEnd
    /\ oi' = oi + 1
    /\ load' = "fixups"
    /\ UNCHANGED <<file, fixups, fixup_addresses, page, record>>

FixupsLoaded ==
    /\ load = "fixups" /\ oi \notin Objects
    /\ load' = "image"
    /\ oi' = 1
    /\ UNCHANGED <<file, fixups, fixup_addresses, page, record>>

load_fixup_record_pages ==
    BeginFixups \/ LoadFixup \/ RefuseFixup \/ FixupsOfPageLoaded \/ NoSuchPage

load_fixup_record_table ==
    load_fixup_record_pages \/ FixupsOfObjectLoaded \/ FixupsLoaded

LoaderNext ==
    \/ load_header \/ load_object_table \/ load_object_page_table
    \/ load_fixup_record_offsets \/ load_fixup_record_table

-----------------------------------------------------------------------------
(* Properties. *)

\* The pages an object has: none if it starts at page 0, or if it claims pages
\* behind the highest there can be.
PagesOf(o) ==
    LET first == file.objects[o].first_page
        last  == first + file.objects[o].pages - 1
    IN  IF first = 0 \/ last >= AddrSpace THEN {} ELSE first .. last

PagesExist == \A o \in Objects : PagesOf(o) \subseteq DOMAIN file.pages

\* The records of the pages of an object, as <<page, index>>.
RecordsOf(o) ==
    UNION {{p} \X DOMAIN file.records[p] : p \in PagesOf(o) \cap DOMAIN file.pages}

RecordAt(x) == file.records[x[1]][x[2]]

\* Where a record's word is in the object; below zero in front of it.
PlaceOf(o, x) ==
    (x[1] - file.objects[o].first_page) * file.page_size + RecordAt(x).src_off

\* The offset it is kept under: a uint32_t.
OffsetOf(o, x) == PlaceOf(o, x) % AddrSpace

TargetOf(x) == file.objects[RecordAt(x).object].base + RecordAt(x).dst_off

IsBefore(x, y) == x[1] < y[1] \/ (x[1] = y[1] /\ x[2] < y[2])

\* The fixups are those of all records of the object's pages, counted from its
\* first page, whatever the other objects have; a word that crosses two pages
\* is recorded with both and kept once; of two records for one offset the last
\* is kept, while the targets of both are.
FixupsExact ==
    load \notin {"header", "objects", "pages", "offsets", "fixups", "records", "failed", "outside"} =>
    /\ \A o \in Objects :
        /\ DOMAIN fixups[o] = {OffsetOf(o, x) : x \in RecordsOf(o)}
        /\ \A x \in RecordsOf(o) :
            (\A y \in RecordsOf(o) : IsBefore(x, y) => OffsetOf(o, y) # OffsetOf(o, x))
                => fixups[o][OffsetOf(o, x)] = TargetOf(x) % AddrSpace
    /\ fixup_addresses =
        UNION {{TargetOf(x) % AddrSpace : x \in RecordsOf(o)} : o \in Objects}

\* The header is at the start of the file, where the stub says, or where the
\* bound extender has it.
HasHeader ==
    \/ file.id \in {"LE", "LX"}
    \/ /\ file.id = "MZ" /\ file.new_format
       /\ file.new_header \in file.le_at \ {0}
    \/ /\ file.id = "MZ" /\ ~ file.new_format /\ file.dos4g
       /\ \E p \in file.signatures : p % 4 = 0 /\ \A q \in file.signatures : q >= p

\* The parts of the file the loader depends on.
NeededParts ==
    {"header", "objects", "pages", "offsets"}
    \cup (IF file.id = "MZ" THEN {"stub"} ELSE {})
    \cup (IF file.id = "MZ" /\ ~ file.new_format THEN {"search"} ELSE {})
    \cup (IF \A o \in Objects : RecordsOf(o) = {} THEN {} ELSE {"records"})

\* Nothing in the file is unknown to the loader.
IsSound ==
    /\ HasHeader /\ file.little /\ file.version = 0
    /\ file.missing \cap NeededParts = {}
    /\ \A p \in DOMAIN file.pages : file.pages[p].type \in 0 .. 4
    /\ \A o \in Objects :
        /\ \A x \in RecordsOf(o) :
            RecordAt(x).source = "offset32" /\ RecordAt(x).object \in Objects
        /\ file.remainder \cap PagesOf(o) = {}

\* The loader fails for unsound files, wherever what is wrong with them is,
\* and for no others.  It reads behind its tables only if an object has a page
\* the file does not have, and then always, unless it fails before; an object
\* that claims so many pages that the sum wraps is loaded without any.
LoadedIffSound ==
    /\ load = "failed" => ~ IsSound
    /\ load = "outside" => ~ PagesExist
    /\ load \in {"image", "done", "no_image", "undefined"} => IsSound /\ PagesExist

=============================================================================
