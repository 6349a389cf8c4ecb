---------------------------- MODULE LeImage_proofs ----------------------------
(***************************************************************************)
(* The loader and the image, for every file: the loader fails for what is  *)
(* wrong with a file and for nothing else, the fixups are those of the     *)
(* records, and the image is what the pages and the fixups say.            *)
(***************************************************************************)
EXTENDS LeImage, Basics_proofs, FiniteSetTheorems

Unread == {"header", "objects", "pages", "offsets"}

Reading == {"fixups", "records"}

Later == {"image", "copy", "apply", "done", "no_image", "undefined"}

\* The records and the pages the loader has been through.
IsSeen(o, x) ==
    \/ load \in Later
    \/ load \in Reading /\ o < oi
    \/ /\ load = "records" /\ o = oi
       /\ x[1] < page \/ (x[1] = page /\ x[2] <= record)

SeenRecords(o) == {x \in RecordsOf(o) : IsSeen(o, x)}

IsDone(o, p) ==
    \/ load \in Later
    \/ load \in Reading /\ o < oi
    \/ load = "records" /\ o = oi /\ p < page

\* The fixups f of an object are those of the records seen.
ExactFor(f, o, seen) ==
    /\ DOMAIN f = {OffsetOf(o, x) : x \in seen}
    /\ \A x \in seen :
        (\A y \in seen : IsBefore(x, y) => OffsetOf(o, y) # OffsetOf(o, x))
            => f[OffsetOf(o, x)] = TargetOf(x) % AddrSpace

HeaderRead ==
    /\ HasHeader /\ file.little /\ file.version = 0
    /\ "header" \notin file.missing
    /\ file.id = "MZ" => "stub" \notin file.missing
    /\ file.id = "MZ" /\ ~ file.new_format => "search" \notin file.missing

\* What has been read was sound, and in the file.
TablesRead ==
    /\ load \notin {"header", "failed"} => HeaderRead
    /\ load \notin {"header", "objects", "failed"} => "objects" \notin file.missing
    /\ load \notin {"header", "objects", "pages", "failed"} =>
        /\ "pages" \notin file.missing
        /\ \A p \in DOMAIN file.pages : file.pages[p].type \in 0 .. 4
    /\ load \notin Unread \cup {"failed"} => "offsets" \notin file.missing

RecordsRead ==
    load \in Reading \cup Later =>
        \A o \in Objects :
            /\ \A x \in RecordsOf(o) : IsSeen(o, x) =>
                /\ "records" \notin file.missing
                /\ RecordAt(x).source = "offset32" /\ RecordAt(x).object \in Objects
            /\ \A p \in PagesOf(o) : IsDone(o, p) =>
                p \in DOMAIN file.pages /\ p \notin file.remainder

\* Where the loops of load_fixup_record_table are.
LoopsWithin ==
    /\ load \in Unread => oi = 1
    /\ load \in Reading => oi \in 1 .. Len(file.objects) + 1
    /\ load = "records" =>
        /\ oi \in Objects
        /\ page \in Nat /\ page >= StartPage
        /\ record \in Nat
        /\ HasPage => record <= Len(file.records[page])

FixupsSoFar ==
    load \notin {"failed", "outside"} =>
        /\ DOMAIN fixups = Objects
        /\ \A o \in Objects : ExactFor(fixups[o], o, SeenRecords(o))
        /\ fixup_addresses =
            UNION {{TargetOf(x) % AddrSpace : x \in SeenRecords(o)} : o \in Objects}

LoadInv ==
    /\ file \in Files
    /\ load \in Unread \cup Reading \cup Later \cup {"failed", "outside"}
    /\ LoopsWithin
    /\ TablesRead
    /\ RecordsRead
    /\ load = "failed" => ~ IsSound
    /\ load = "outside" => ~ PagesExist
    /\ FixupsSoFar

-----------------------------------------------------------------------------
(* The file. *)

LEMMA FileFacts ==
    ASSUME file \in Files
    PROVE  /\ IsFile(file)
           /\ Objects = 1 .. Len(file.objects) /\ Len(file.objects) \in Nat
           /\ \A o \in Objects :
                /\ file.objects[o].size \in Nat /\ file.objects[o].base \in Nat
                /\ file.objects[o].size < AddrSpace
                /\ file.objects[o].first_page \in 0 .. AddrSpace - 1
                /\ file.objects[o].pages \in 0 .. AddrSpace - 1
           /\ DOMAIN file.pages = 1 .. Len(file.pages) /\ Len(file.pages) \in Nat
           /\ \A p \in DOMAIN file.pages : file.pages[p].type \in Nat
           /\ DOMAIN file.records = DOMAIN file.pages
           /\ \A p \in DOMAIN file.pages :
                /\ DOMAIN file.records[p] = 1 .. Len(file.records[p])
                /\ Len(file.records[p]) \in Nat
                /\ \A i \in DOMAIN file.records[p] : file.records[p][i] \in RecordSet
<1>1. IsFile(file)
  BY FilesAssumption
<1>2. file.objects \in Seq([size : Address, base : Address,
                           first_page : Address, pages : Address])
  BY <1>1 DEF IsFile
<1>3. /\ Objects = 1 .. Len(file.objects) /\ Len(file.objects) \in Nat
      /\ \A o \in Objects :
            file.objects[o] \in [size : Address, base : Address,
                                first_page : Address, pages : Address]
  BY <1>2, SeqDomain DEF Objects
<1>4. file.pages \in Seq([type : Nat, number : Nat])
  BY <1>1 DEF IsFile
<1>5. /\ DOMAIN file.pages = 1 .. Len(file.pages) /\ Len(file.pages) \in Nat
      /\ \A p \in DOMAIN file.pages : file.pages[p] \in [type : Nat, number : Nat]
  BY <1>4, SeqDomain
<1>6. file.records \in Seq(Seq(RecordSet)) /\ Len(file.records) = Len(file.pages)
  BY <1>1 DEF IsFile
<1>7. DOMAIN file.records = DOMAIN file.pages
  BY <1>5, <1>6, SeqDomain
<1>8. \A p \in DOMAIN file.pages : file.records[p] \in Seq(RecordSet)
  BY <1>6, <1>7, SeqDomain
<1>9. \A p \in DOMAIN file.pages :
        /\ DOMAIN file.records[p] = 1 .. Len(file.records[p])
        /\ Len(file.records[p]) \in Nat
        /\ \A i \in DOMAIN file.records[p] : file.records[p][i] \in RecordSet
  BY <1>8, SeqDomain
<1>10. \A o \in Objects :
        /\ file.objects[o].size \in Nat /\ file.objects[o].base \in Nat
        /\ file.objects[o].size < AddrSpace
        /\ file.objects[o].first_page \in 0 .. AddrSpace - 1
        /\ file.objects[o].pages \in 0 .. AddrSpace - 1
  BY <1>3, AddrSpaceAssumption DEF Address
<1> QED
  BY <1>1, <1>3, <1>5, <1>7, <1>9, <1>10

\* The page the loop over the pages of an object starts at.
FirstOf(o) ==
    IF file.objects[o].first_page = 0 THEN AddrSpace ELSE file.objects[o].first_page

\* The sums of 32 bits, without the remainder.
LEMMA PageSums ==
    ASSUME NEW n \in Nat \ {0}, NEW first \in 0 .. n - 1, NEW count \in 0 .. n - 1
    PROVE  /\ first = 0 => ((first - 1) % n) + 1 = n
           /\ first # 0 => ((first - 1) % n) + 1 = first
           /\ ((first - 1 + count) % n) + 1 \in 1 .. n
           /\ first # 0 /\ first + count - 1 < n =>
                ((first - 1 + count) % n) + 1 = first + count
           /\ first # 0 /\ first + count - 1 >= n =>
                ((first - 1 + count) % n) + 1 < first
OBVIOUS

\* The pages of an object are those its loop goes over.
LEMMA PagesShape ==
    ASSUME file \in Files, NEW o \in Objects, NEW first, first = FirstOf(o),
           NEW count, count = file.objects[o].pages
    PROVE  /\ first \in Nat \ {0} /\ count \in Nat
           /\ \/ PagesOf(o) = {}
              \/ /\ first = file.objects[o].first_page
                 /\ first + count - 1 < AddrSpace
                 /\ PagesOf(o) = first .. first + count - 1
           /\ \A p \in PagesOf(o) : p \in Nat /\ p >= first
           /\ o = oi => /\ StartPage = first /\ PageEnd \in Nat
                        /\ \A p \in Nat : p >= first => (p < PageEnd <=> p \in PagesOf(o))
<1> DEFINE stated == file.objects[o].first_page
<1>1. /\ stated \in 0 .. AddrSpace - 1 /\ count \in 0 .. AddrSpace - 1
      /\ AddrSpace \in Nat \ {0}
  BY FileFacts, AddrSpaceAssumption
<1>2. /\ first = IF stated = 0 THEN AddrSpace ELSE stated
      /\ PagesOf(o) = IF stated = 0 \/ stated + count - 1 >= AddrSpace THEN {}
                      ELSE stated .. stated + count - 1
  BY DEF FirstOf, PagesOf
<1>3. o = oi => /\ StartPage = ((stated - 1) % AddrSpace) + 1
                /\ PageEnd = ((stated - 1 + count) % AddrSpace) + 1
  BY DEF StartPage, PageEnd, Object
<1> HIDE DEF stated
<1>4. /\ first \in Nat \ {0} /\ count \in Nat
      /\ \A p \in PagesOf(o) : p \in Nat /\ p >= first
  BY <1>1, <1>2
<1>5. o = oi => StartPage = first /\ PageEnd \in 1 .. AddrSpace
  <2>1. /\ stated = 0 => ((stated - 1) % AddrSpace) + 1 = AddrSpace
        /\ stated # 0 => ((stated - 1) % AddrSpace) + 1 = stated
        /\ ((stated - 1 + count) % AddrSpace) + 1 \in 1 .. AddrSpace
    BY <1>1, PageSums
  <2>2. /\ stated = 0 => first = AddrSpace
        /\ stated # 0 => first = stated
    BY <1>2
  <2> QED
    BY <1>3, <2>1, <2>2
<1>6. ASSUME o = oi, NEW p \in Nat, p >= first
      PROVE  p < PageEnd <=> p \in PagesOf(o)
  <2>1. CASE stated = 0
    BY <1>1, <1>2, <1>5, <1>6, <2>1
  <2>2. CASE stated # 0 /\ stated + count - 1 >= AddrSpace
    <3>1. PageEnd < stated
      <4>1. ((stated - 1 + count) % AddrSpace) + 1 < stated
        BY <1>1, <2>2, PageSums
      <4> QED
        BY <1>3, <1>6, <4>1
    <3> QED
      BY <1>1, <1>2, <1>5, <1>6, <2>2, <3>1
  <2>3. CASE stated # 0 /\ stated + count - 1 < AddrSpace
    <3>1. PageEnd = stated + count
      <4>1. ((stated - 1 + count) % AddrSpace) + 1 = stated + count
        BY <1>1, <2>3, PageSums
      <4> QED
        BY <1>3, <1>6, <4>1
    <3>2. ~ (stated + count - 1 >= AddrSpace)
      BY <1>1, <2>3
    <3> QED
      BY <1>1, <1>2, <1>6, <2>3, <3>1, <3>2
  <2> QED
    BY <1>1, <2>1, <2>2, <2>3
<1>7. \/ PagesOf(o) = {}
      \/ /\ first = stated
         /\ first + count - 1 < AddrSpace
         /\ PagesOf(o) = first .. first + count - 1
  BY <1>1, <1>2
<1> QED
  BY <1>4, <1>5, <1>6, <1>7 DEF stated

LEMMA RecordShape ==
    ASSUME file \in Files, NEW o \in Objects
    PROVE  /\ \A x \in RecordsOf(o) :
                /\ x = <<x[1], x[2]>>
                /\ x[1] \in PagesOf(o) /\ x[1] \in DOMAIN file.pages
                /\ x[1] \in Nat /\ x[2] \in Nat \ {0}
                /\ x[2] \in DOMAIN file.records[x[1]]
                /\ x[2] <= Len(file.records[x[1]])
           /\ \A p \in PagesOf(o) \cap DOMAIN file.pages :
                \A i \in DOMAIN file.records[p] : <<p, i>> \in RecordsOf(o)
<1>1. ASSUME NEW x \in RecordsOf(o)
      PROVE  /\ x = <<x[1], x[2]>>
             /\ x[1] \in PagesOf(o) /\ x[1] \in DOMAIN file.pages
             /\ x[2] \in DOMAIN file.records[x[1]]
  <2>1. PICK p \in PagesOf(o) \cap DOMAIN file.pages :
          x \in {p} \X DOMAIN file.records[p]
    BY DEF RecordsOf
  <2> QED
    BY <2>1
<1>2. ASSUME NEW x \in RecordsOf(o)
      PROVE  /\ x[1] \in Nat /\ x[2] \in Nat \ {0}
             /\ x[2] <= Len(file.records[x[1]])
  BY <1>1, FileFacts
<1>3. ASSUME NEW p \in PagesOf(o) \cap DOMAIN file.pages,
             NEW i \in DOMAIN file.records[p]
      PROVE  <<p, i>> \in RecordsOf(o)
  <2>1. <<p, i>> \in {p} \X DOMAIN file.records[p]
    OBVIOUS
  <2> QED
    BY <2>1 DEF RecordsOf
<1> QED
  BY <1>1, <1>2, <1>3

LEMMA FileUnchanged ==
    ASSUME file' = file
    PROVE  /\ Objects' = Objects
           /\ \A o : RecordsOf(o)' = RecordsOf(o) /\ PagesOf(o)' = PagesOf(o)
           /\ \A x : RecordAt(x)' = RecordAt(x) /\ TargetOf(x)' = TargetOf(x)
           /\ \A o, x : OffsetOf(o, x)' = OffsetOf(o, x) /\ PlaceOf(o, x)' = PlaceOf(o, x)
           /\ \A f, o, seen : ExactFor(f, o, seen)' <=> ExactFor(f, o, seen)
           /\ HeaderRead' = HeaderRead
           /\ IsSound' = IsSound /\ PagesExist' = PagesExist
           /\ HasHeader' = HasHeader
BY DEF Objects, RecordsOf, PagesOf, RecordAt, TargetOf, OffsetOf, PlaceOf, ExactFor,
   HeaderRead, IsSound, PagesExist, HasHeader, NeededParts

-----------------------------------------------------------------------------
(* The header and the tables. *)

\* The header is found where HasHeader says, provided that the parts of the
\* file it is found by are there.
LEMMA HeaderFound ==
    ASSUME file \in Files
    PROVE  /\ load_le_header_offset \in file.le_at =>
                /\ HasHeader
                /\ file.id = "MZ" => "stub" \notin file.missing
                /\ file.id = "MZ" /\ ~ file.new_format => "search" \notin file.missing
           /\ /\ HasHeader
              /\ file.id = "MZ" => "stub" \notin file.missing
              /\ file.id = "MZ" /\ ~ file.new_format => "search" \notin file.missing
              => load_le_header_offset \in file.le_at
<1>1. /\ file.new_format \in BOOLEAN /\ file.dos4g \in BOOLEAN
      /\ file.le_at \subseteq Nat /\ file.signatures \subseteq file.le_at
      /\ file.id \in {"LE", "LX"} <=> 0 \in file.le_at
  BY FileFacts DEF IsFile
<1>2. NULL \notin file.le_at
  BY <1>1, NullAssumption
<1>3. ASSUME file.signatures # {}
      PROVE  /\ FirstSignature \in file.signatures
             /\ \A q \in file.signatures : FirstSignature <= q
  <2>1. \E p \in file.signatures : \A q \in file.signatures : p <= q
    BY <1>1, <1>3, LeastNat
  <2> QED
    BY <2>1 DEF FirstSignature
<1>4. CASE file.id \in {"LE", "LX"}
  <2>1. load_le_header_offset = 0
    BY <1>4 DEF load_le_header_offset
  <2> QED
    BY <1>1, <1>4, <2>1 DEF HasHeader
<1>5. CASE file.id = "MZ" /\ "stub" \in file.missing
  <2>1. load_le_header_offset = NULL
    BY <1>5 DEF load_le_header_offset
  <2> QED
    BY <1>2, <1>5, <2>1
<1>6. CASE file.id = "MZ" /\ "stub" \notin file.missing /\ file.new_format
  <2>1. load_le_header_offset = IF file.new_header # 0 THEN file.new_header ELSE NULL
    BY <1>6 DEF load_le_header_offset
  <2>2. file.id \notin {"LE", "LX"}
    BY <1>6
  <2> QED
    BY <1>1, <1>2, <1>6, <2>1, <2>2 DEF HasHeader
<1>7. CASE file.id = "MZ" /\ "stub" \notin file.missing /\ ~ file.new_format
  <2>1. load_le_header_offset = BoundHeader
    BY <1>7 DEF load_le_header_offset
  <2>2. BoundHeader \in file.le_at
          <=> /\ file.dos4g /\ "search" \notin file.missing
              /\ file.signatures # {} /\ FirstSignature % 4 = 0
    BY <1>1, <1>2, <1>3 DEF BoundHeader
  <2>3. HasHeader <=> /\ file.dos4g
                      /\ \E p \in file.signatures :
                            p % 4 = 0 /\ \A q \in file.signatures : q >= p
    BY <1>7 DEF HasHeader
  <2>4. ASSUME NEW p \in file.signatures, \A q \in file.signatures : q >= p
        PROVE  p = FirstSignature
    BY <1>1, <1>3, <2>4
  <2>5. file.signatures # {} =>
            \A q \in file.signatures : q >= FirstSignature
    BY <1>1, <1>3
  <2> QED
    BY <1>3, <1>7, <2>1, <2>2, <2>3, <2>4, <2>5
<1>8. CASE file.id \notin {"LE", "LX", "MZ"}
  <2>1. load_le_header_offset = NULL
    BY <1>8 DEF load_le_header_offset
  <2> QED
    BY <1>2, <1>8, <2>1 DEF HasHeader
<1> QED
  BY <1>1, <1>4, <1>5, <1>6, <1>7, <1>8

-----------------------------------------------------------------------------
(* What a step has to keep for the rest to stay true. *)

LEMMA SameFixups ==
    ASSUME file' = file, fixups' = fixups, fixup_addresses' = fixup_addresses,
           load \notin {"failed", "outside"}, FixupsSoFar,
           \A o \in Objects : \A x \in RecordsOf(o) : IsSeen(o, x)' <=> IsSeen(o, x)
    PROVE  FixupsSoFar'
<1>1. \A o \in Objects : SeenRecords(o)' = SeenRecords(o)
  BY FileUnchanged DEF SeenRecords
<1>2. /\ DOMAIN fixups = Objects
      /\ \A o \in Objects : ExactFor(fixups[o], o, SeenRecords(o))
      /\ fixup_addresses =
            UNION {{TargetOf(x) % AddrSpace : x \in SeenRecords(o)} : o \in Objects}
  BY DEF FixupsSoFar
<1>3. DOMAIN fixups' = Objects'
  BY <1>2, FileUnchanged
<1>4. ASSUME NEW o \in Objects'
      PROVE  ExactFor(fixups[o], o, SeenRecords(o))'
  <2>1. o \in Objects /\ SeenRecords(o)' = SeenRecords(o) /\ fixups'[o] = fixups[o]
    BY <1>1, <1>4, FileUnchanged
  <2>2. ExactFor(fixups[o], o, SeenRecords(o))
    BY <1>2, <2>1
  <2> QED
    BY <2>1, <2>2, FileUnchanged DEF ExactFor
<1>5. ASSUME NEW o \in Objects
      PROVE  {TargetOf(x)' % AddrSpace : x \in SeenRecords(o)'}
                = {TargetOf(x) % AddrSpace : x \in SeenRecords(o)}
  BY <1>1, FileUnchanged
<1>6. fixup_addresses' =
        UNION {{TargetOf(x)' % AddrSpace : x \in SeenRecords(o)'} : o \in Objects'}
  BY <1>2, <1>5, FileUnchanged
<1> QED
  BY <1>3, <1>4, <1>6 DEF FixupsSoFar

LEMMA SameRead ==
    ASSUME file' = file, load \in Reading \cup Later, RecordsRead,
           \A o \in Objects : \A x \in RecordsOf(o) : IsSeen(o, x)' => IsSeen(o, x),
           \A o \in Objects : \A p \in PagesOf(o) :
             IsDone(o, p)' => \/ IsDone(o, p)
                              \/ p \in DOMAIN file.pages /\ p \notin file.remainder
    PROVE  RecordsRead'
<1>1. ASSUME NEW o \in Objects, NEW x \in RecordsOf(o), IsSeen(o, x)'
      PROVE  /\ "records" \notin file.missing
             /\ RecordAt(x).source = "offset32" /\ RecordAt(x).object \in Objects
  BY <1>1 DEF RecordsRead
<1>2. ASSUME NEW o \in Objects, NEW p \in PagesOf(o), IsDone(o, p)'
      PROVE  p \in DOMAIN file.pages /\ p \notin file.remainder
  BY <1>2 DEF RecordsRead
<1>3. ASSUME NEW o \in Objects', NEW x \in RecordsOf(o)', IsSeen(o, x)'
      PROVE  /\ "records" \notin file'.missing
             /\ RecordAt(x)'.source = "offset32" /\ RecordAt(x)'.object \in Objects'
  BY <1>1, <1>3, FileUnchanged
<1>4. ASSUME NEW o \in Objects', NEW p \in PagesOf(o)', IsDone(o, p)'
      PROVE  p \in DOMAIN file'.pages /\ p \notin file'.remainder
  BY <1>2, <1>4, FileUnchanged
<1> QED
  BY <1>3, <1>4 DEF RecordsRead

\* Before the first page of the first object nothing has been read.
LEMMA NothingSeen ==
    ASSUME file \in Files, load \in Unread \cup {"fixups"}, oi = 1
    PROVE  \A o \in Objects : \A x : ~ IsSeen(o, x) /\ ~ IsDone(o, x)
<1>1. \A o \in Objects : ~ (o < 1)
  BY FileFacts
<1> QED
  BY <1>1 DEF IsSeen, IsDone, Unread, Reading, Later

-----------------------------------------------------------------------------
(* The steps of the loader. *)

LEMMA LoadBegins == LoaderInit => LoadInv
<1> SUFFICES ASSUME LoaderInit PROVE LoadInv
  OBVIOUS
<1>1. /\ file \in Files /\ load = "header" /\ oi = 1 /\ fixup_addresses = {}
      /\ fixups = [o \in Objects |-> [off \in {} |-> NULL]]
  BY DEF LoaderInit
<1>2. \A o \in Objects : SeenRecords(o) = {}
  BY <1>1, NothingSeen DEF SeenRecords, Unread
<1>3. ASSUME NEW o \in Objects PROVE ExactFor(fixups[o], o, SeenRecords(o))
  <2>1. fixups[o] = [off \in {} |-> NULL]
    BY <1>1
  <2>2. DOMAIN fixups[o] = {}
    BY <2>1
  <2> QED
    BY <1>2, <2>2 DEF ExactFor
<1>4. fixup_addresses =
        UNION {{TargetOf(x) % AddrSpace : x \in SeenRecords(o)} : o \in Objects}
  BY <1>1, <1>2
<1>5. FixupsSoFar
  BY <1>1, <1>3, <1>4 DEF FixupsSoFar
<1> QED
  BY <1>1, <1>5 DEF LoadInv, LoopsWithin, TablesRead, RecordsRead, Unread, Reading, Later

LEMMA TableRead ==
    ASSUME LoadInv,
           load_header \/ load_object_table \/ load_object_page_table
             \/ load_fixup_record_offsets
    PROVE  LoadInv'
<1>1. /\ file \in Files /\ TablesRead /\ FixupsSoFar
      /\ load \in Unread /\ oi = 1
  BY DEF LoadInv, LoopsWithin, load_header, load_object_table, load_object_page_table,
         load_fixup_record_offsets, LoadTable, Unread
<1>2. /\ file' = file /\ fixups' = fixups /\ fixup_addresses' = fixup_addresses
      /\ oi' = oi /\ page' = page /\ record' = record
  BY DEF load_header, load_object_table, load_object_page_table,
         load_fixup_record_offsets, LoadTable
<1>3. /\ load = "header" => HeaderRead \/ ~ IsSound
      /\ load' \in {"objects", "pages", "offsets", "fixups", "failed"}
      /\ load' = "failed" => ~ IsSound
      /\ TablesRead'
  <2>1. {"header", "objects", "pages", "offsets"} \subseteq NeededParts
    BY DEF NeededParts
  <2>2. /\ file.id = "MZ" => "stub" \in NeededParts
        /\ file.id = "MZ" /\ ~ file.new_format => "search" \in NeededParts
    BY DEF NeededParts
  <2>3. \A part \in NeededParts : part \in file.missing => ~ IsSound
    BY DEF IsSound
  <2>4. HeaderRead' = HeaderRead
    BY <1>2, FileUnchanged
  <2>5. CASE load_header
    <3>1. HeaderRead <=> /\ load_le_header_offset \in file.le_at
                         /\ "header" \notin file.missing
                         /\ file.little /\ file.version = 0
      BY <1>1, HeaderFound DEF HeaderRead
    <3>2. load = "header" /\ load' = IF HeaderRead THEN "objects" ELSE "failed"
      BY <2>5, <3>1 DEF load_header, LoadTable
    <3>3. ~ HeaderRead => ~ IsSound
      BY <2>1, <2>2, <2>3 DEF HeaderRead, IsSound
    <3> QED
      BY <2>4, <3>2, <3>3 DEF TablesRead, Unread
  <2>6. CASE load_object_table
    <3>1. load = "objects" /\ load' = IF "objects" \notin file.missing THEN "pages" ELSE "failed"
      BY <2>6 DEF load_object_table, LoadTable
    <3> QED
      BY <1>1, <1>2, <2>1, <2>3, <2>4, <3>1 DEF TablesRead, Unread
  <2>7. CASE load_object_page_table
    <3> DEFINE known == "pages" \notin file.missing
                        /\ \A p \in DOMAIN file.pages : file.pages[p].type <= 4
    <3>1. load = "pages" /\ load' = IF known THEN "offsets" ELSE "failed"
      BY <2>7 DEF load_object_page_table, LoadTable
    <3>2. \A p \in DOMAIN file.pages :
            file.pages[p].type <= 4 <=> file.pages[p].type \in 0 .. 4
      BY <1>1, FileFacts
    <3>3. ~ known => ~ IsSound
      BY <2>1, <2>3, <3>2 DEF IsSound
    <3>4. known => /\ "pages" \notin file'.missing
                   /\ \A p \in DOMAIN file'.pages : file'.pages[p].type \in 0 .. 4
      BY <1>2, <3>2
    <3> HIDE DEF known
    <3> QED
      BY <1>1, <1>2, <2>4, <3>1, <3>3, <3>4 DEF TablesRead, Unread
  <2>8. CASE load_fixup_record_offsets
    <3>1. load = "offsets" /\ load' = IF "offsets" \notin file.missing THEN "fixups" ELSE "failed"
      BY <2>8 DEF load_fixup_record_offsets, LoadTable
    <3> QED
      BY <1>1, <1>2, <2>1, <2>3, <2>4, <3>1 DEF TablesRead, Unread
  <2> QED
    BY <2>5, <2>6, <2>7, <2>8
<1>4. \A o \in Objects : \A x : ~ IsSeen(o, x) /\ ~ IsDone(o, x)
  BY <1>1, NothingSeen
<1>5. \A o \in Objects : \A x : ~ IsSeen(o, x)' /\ ~ IsDone(o, x)'
  <2>1. \A o \in Objects : ~ (o < 1)
    BY <1>1, FileFacts
  <2> QED
    BY <1>1, <1>2, <1>3, <2>1 DEF IsSeen, IsDone, Reading, Later
<1>6. FixupsSoFar'
  BY <1>1, <1>2, <1>4, <1>5, SameFixups DEF Unread
<1>7. RecordsRead'
  BY <1>2, <1>5, FileUnchanged DEF RecordsRead
<1>8. LoopsWithin'
  <2>1. Len(file.objects) \in Nat
    BY <1>1, FileFacts
  <2> QED
    BY <1>1, <1>2, <1>3, <2>1 DEF LoopsWithin, Unread, Reading
<1>9. load' = "failed" => ~ IsSound'
  BY <1>2, <1>3, FileUnchanged
<1> QED
  BY <1>1, <1>2, <1>3, <1>6, <1>7, <1>8, <1>9 DEF LoadInv, Unread, Reading

\* The page and the record the loop over the records is at.
LEMMA AtRecord ==
    ASSUME LoadInv, load = "records"
    PROVE  /\ oi \in Objects /\ Object = file.objects[oi]
           /\ page \in Nat /\ page >= StartPage /\ record \in Nat
           /\ StartPage \in Nat /\ PageEnd \in Nat
           /\ page < PageEnd <=> page \in PagesOf(oi)
           /\ page \in PagesOf(oi) => StartPage = Object.first_page
           /\ \A p \in PagesOf(oi) : p \in Nat /\ p >= StartPage
           /\ \A p \in Nat :
                p >= StartPage => (p < PageEnd <=> p \in PagesOf(oi))
<1>1. /\ file \in Files /\ oi \in Objects
      /\ page \in Nat /\ page >= StartPage /\ record \in Nat
  BY DEF LoadInv, LoopsWithin
<1>2. Object = file.objects[oi]
  BY DEF Object
<1>3. /\ StartPage \in Nat /\ PageEnd \in Nat
      /\ page \in PagesOf(oi) => StartPage = Object.first_page
      /\ \A p \in PagesOf(oi) : p \in Nat /\ p >= StartPage
      /\ \A p \in Nat : p >= StartPage => (p < PageEnd <=> p \in PagesOf(oi))
  BY <1>1, <1>2, PagesShape
<1> QED
  BY <1>1, <1>2, <1>3

LEMMA NextRecord ==
    ASSUME LoadInv, load = "records", page < PageEnd, HasPage,
           record < Len(file.records[page])
    PROVE  /\ <<page, record + 1>> \in RecordsOf(oi)
           /\ RecordAt(<<page, record + 1>>) = file.records[page][record + 1]
           /\ file.records[page][record + 1] \in RecordSet
<1>1. /\ file \in Files /\ oi \in Objects /\ page \in PagesOf(oi) /\ record \in Nat
  BY AtRecord DEF LoadInv
<1>2. record + 1 \in DOMAIN file.records[page]
  BY <1>1, FileFacts DEF HasPage
<1>3. file.records[page][record + 1] \in RecordSet
  BY <1>1, <1>2, FileFacts DEF HasPage
<1> QED
  BY <1>1, <1>2, <1>3, RecordShape DEF HasPage, RecordAt

LEMMA FixupsBegun == ASSUME LoadInv, BeginFixups PROVE LoadInv'
<1>1. /\ load = "fixups" /\ oi \in Objects /\ load' = "records"
      /\ page' = StartPage /\ record' = 0
      /\ file' = file /\ fixups' = fixups /\ fixup_addresses' = fixup_addresses /\ oi' = oi
  BY DEF BeginFixups
<1>2. /\ file \in Files /\ TablesRead /\ RecordsRead /\ FixupsSoFar
  BY DEF LoadInv
<1>3. StartPage \in Nat /\ \A p \in PagesOf(oi) : p >= StartPage
  BY <1>1, <1>2, PagesShape
<1>4. \A p \in PagesOf(oi) : ~ (p < StartPage)
  BY <1>1, <1>2, <1>3, PagesShape
<1>5. ASSUME NEW o \in Objects, NEW x \in RecordsOf(o)
      PROVE  IsSeen(o, x)' <=> IsSeen(o, x)
  <2>1. IsSeen(o, x) <=> o < oi
    BY <1>1 DEF IsSeen, Reading, Later
  <2>2. o = oi => ~ (x[1] < StartPage) /\ ~ (x[2] <= 0)
    BY <1>1, <1>2, <1>3, <1>4, RecordShape
  <2>3. IsSeen(o, x)' <=>
            o < oi \/ (o = oi /\ (x[1] < StartPage
                                  \/ (x[1] = StartPage /\ x[2] <= 0)))
    BY <1>1 DEF IsSeen, Reading, Later
  <2> QED
    BY <2>1, <2>2, <2>3
<1>6. ASSUME NEW o \in Objects, NEW p \in PagesOf(o)
      PROVE  IsDone(o, p)' => IsDone(o, p)
  BY <1>1, <1>4 DEF IsDone, Reading, Later
<1>7. FixupsSoFar'
  BY <1>1, <1>2, <1>5, SameFixups
<1>8. RecordsRead'
  BY <1>1, <1>2, <1>5, <1>6, SameRead DEF Reading
<1>9. TablesRead'
  BY <1>1, <1>2, FileUnchanged DEF TablesRead, Unread
<1>10. LoopsWithin'
  <2>1. oi \in 1 .. Len(file.objects) + 1
    BY <1>1 DEF LoadInv, LoopsWithin, Reading
  <2>2. StartPage' = StartPage /\ HasPage' = (StartPage \in DOMAIN file.pages)
    BY <1>1 DEF StartPage, Object, HasPage
  <2>3. StartPage \in DOMAIN file.pages =>
            0 <= Len(file.records[StartPage])
    BY <1>2, FileFacts
  <2> QED
    BY <1>1, <1>3, <2>1, <2>2, <2>3, FileUnchanged DEF LoopsWithin, Unread
<1> QED
  BY <1>1, <1>2, <1>7, <1>8, <1>9, <1>10 DEF LoadInv, Reading

\* A fixup more is that of a record more.
LEMMA PutExact ==
    ASSUME NEW f, NEW g, NEW o, NEW seen, NEW n,
           ExactFor(f, o, seen),
           \A x \in seen : IsBefore(x, n),
           g = [off \in DOMAIN f \cup {OffsetOf(o, n)} |->
                  IF off = OffsetOf(o, n) THEN TargetOf(n) % AddrSpace ELSE f[off]]
    PROVE  ExactFor(g, o, seen \cup {n})
<1>1. DOMAIN g = {OffsetOf(o, x) : x \in seen \cup {n}}
  BY DEF ExactFor
<1>2. ASSUME NEW x \in seen \cup {n},
             \A y \in seen \cup {n} : IsBefore(x, y) => OffsetOf(o, y) # OffsetOf(o, x)
      PROVE  g[OffsetOf(o, x)] = TargetOf(x) % AddrSpace
  <2>1. CASE x = n
    BY <1>1, <2>1
  <2>2. CASE x # n
    <3>1. x \in seen /\ OffsetOf(o, n) # OffsetOf(o, x)
      BY <1>2, <2>2
    <3>2. f[OffsetOf(o, x)] = TargetOf(x) % AddrSpace
      BY <1>2, <3>1 DEF ExactFor
    <3>3. g[OffsetOf(o, x)] = f[OffsetOf(o, x)]
      BY <1>1, <3>1
    <3> QED
      BY <3>2, <3>3
  <2> QED
    BY <2>1, <2>2
<1> QED
  BY <1>1, <1>2 DEF ExactFor

LEMMA FixupLoaded == ASSUME LoadInv, LoadFixup PROVE LoadInv'
<1> DEFINE r == file.records[page][record + 1]
<1>1. PICK n : n = <<page, record + 1>>
  OBVIOUS
<1>2. /\ load = "records" /\ page < PageEnd /\ HasPage
      /\ record < Len(file.records[page])
      /\ "records" \notin file.missing /\ IsSupported(r) /\ PutFixup(r)
      /\ fixup_addresses' = fixup_addresses \cup {FixupTarget(r)}
      /\ record' = record + 1
      /\ file' = file /\ load' = load /\ oi' = oi /\ page' = page
  BY DEF LoadFixup
<1>3. /\ file \in Files /\ TablesRead /\ RecordsRead /\ FixupsSoFar /\ LoopsWithin
  BY DEF LoadInv
<1>4. /\ n \in RecordsOf(oi) /\ RecordAt(n) = r
      /\ n[1] = page /\ n[2] = record + 1
  BY <1>1, <1>2, NextRecord
<1>5. /\ oi \in Objects /\ page \in Nat /\ record \in Nat /\ page \in PagesOf(oi)
      /\ StartPage = Object.first_page
  BY <1>2, AtRecord
<1>6. FixupOffset(r) = OffsetOf(oi, n) /\ FixupTarget(r) = TargetOf(n) % AddrSpace
  BY <1>4, <1>5 DEF FixupOffset, OffsetOf, PlaceOf, Object, FixupTarget, TargetOf
<1> HIDE DEF r
<1>7. ASSUME NEW o \in Objects, NEW x \in RecordsOf(o)
      PROVE  IsSeen(o, x)' <=> IsSeen(o, x) \/ (o = oi /\ x = n)
  <2>1. /\ x = <<x[1], x[2]>> /\ x[1] \in Nat /\ x[2] \in Nat
    BY <1>3, RecordShape
  <2>2. x = n <=> x[1] = page /\ x[2] = record + 1
    BY <1>1, <2>1
  <2>3. x[2] <= record + 1 <=> x[2] <= record \/ x[2] = record + 1
    BY <1>5, <2>1
  <2> QED
    BY <1>2, <2>2, <2>3 DEF IsSeen, Reading, Later
<1>8. \A o \in Objects : o # oi => SeenRecords(o)' = SeenRecords(o)
  BY <1>2, <1>7, FileUnchanged DEF SeenRecords
<1>9. \A o \in Objects : o = oi => SeenRecords(o)' = SeenRecords(o) \cup {n}
  BY <1>2, <1>4, <1>5, <1>7, FileUnchanged DEF SeenRecords
<1>10. \A x \in SeenRecords(oi) : IsBefore(x, n)
  <2>1. ASSUME NEW x \in SeenRecords(oi) PROVE IsBefore(x, n)
    <3>1. x \in RecordsOf(oi) /\ x[2] \in Nat /\ IsSeen(oi, x)
      BY <1>3, <1>5, RecordShape DEF SeenRecords
    <3>2. ~ (oi < oi)
      BY <1>3, <1>5, FileFacts
    <3>3. x[1] < page \/ (x[1] = page /\ x[2] <= record)
      BY <1>2, <3>1, <3>2 DEF IsSeen, Reading, Later
    <3> QED
      BY <1>4, <1>5, <3>1, <3>3 DEF IsBefore
  <2> QED
    BY <2>1
<1>11. FixupsSoFar'
  <2>1. /\ DOMAIN fixups = Objects
        /\ \A o \in Objects : ExactFor(fixups[o], o, SeenRecords(o))
        /\ fixup_addresses =
            UNION {{TargetOf(x) % AddrSpace : x \in SeenRecords(o)} : o \in Objects}
    BY <1>2, <1>3 DEF FixupsSoFar
  <2>2. fixups' = [fixups EXCEPT ![oi] =
                    [off \in DOMAIN @ \cup {OffsetOf(oi, n)} |->
                      IF off = OffsetOf(oi, n) THEN TargetOf(n) % AddrSpace ELSE @[off]]]
    BY <1>2, <1>6 DEF PutFixup
  <2>3. ASSUME NEW o \in Objects PROVE ExactFor(fixups'[o], o, SeenRecords(o)')
    <3>1. CASE o = oi
      <4>1. fixups'[oi] = [off \in DOMAIN fixups[oi] \cup {OffsetOf(oi, n)} |->
                            IF off = OffsetOf(oi, n) THEN TargetOf(n) % AddrSpace
                            ELSE fixups[oi][off]]
        BY <1>5, <2>1, <2>2
      <4>2. ExactFor(fixups'[oi], oi, SeenRecords(oi) \cup {n})
        BY <1>5, <1>10, <2>1, <4>1, PutExact
      <4> QED
        BY <1>5, <1>9, <3>1, <4>2
    <3>2. CASE o # oi
      <4>1. fixups'[o] = fixups[o]
        BY <2>1, <2>2, <3>2
      <4> QED
        BY <1>8, <2>1, <3>2, <4>1
    <3> QED
      BY <3>1, <3>2
  <2>4. \A o \in Objects : ExactFor(fixups[o], o, SeenRecords(o))'
    BY <1>2, <2>3, FileUnchanged DEF ExactFor
  <2>5. fixup_addresses' =
          UNION {{TargetOf(x) % AddrSpace : x \in SeenRecords(o)'} : o \in Objects}
    <3>1. fixup_addresses' = fixup_addresses \cup {TargetOf(n) % AddrSpace}
      BY <1>2, <1>6
    <3>2. ASSUME NEW t \in fixup_addresses'
          PROVE  \E o \in Objects : t \in {TargetOf(x) % AddrSpace : x \in SeenRecords(o)'}
      <4>1. CASE t = TargetOf(n) % AddrSpace
        <5>1. PICK o \in Objects : o = oi
          BY <1>5
        <5>2. n \in SeenRecords(o)'
          BY <1>9, <5>1
        <5> QED
          BY <4>1, <5>2
      <4>2. CASE t \in fixup_addresses
        <5>1. PICK o \in Objects : t \in {TargetOf(x) % AddrSpace : x \in SeenRecords(o)}
          BY <2>1, <4>2
        <5>2. SeenRecords(o) \subseteq SeenRecords(o)'
          BY <1>8, <1>9
        <5> QED
          BY <5>1, <5>2
      <4> QED
        BY <3>1, <3>2, <4>1, <4>2
    <3>3. ASSUME NEW o \in Objects, NEW x \in SeenRecords(o)'
          PROVE  TargetOf(x) % AddrSpace \in fixup_addresses'
      <4>1. CASE o = oi /\ x = n
        BY <3>1, <4>1
      <4>2. CASE x \in SeenRecords(o)
        BY <2>1, <3>1, <4>2
      <4> QED
        BY <1>8, <1>9, <3>3, <4>1, <4>2
    <3> QED
      BY <3>2, <3>3
  <2>6. fixup_addresses' =
          UNION {{TargetOf(x)' % AddrSpace : x \in SeenRecords(o)'} : o \in Objects'}
    <3>1. \A o \in Objects : {TargetOf(x)' % AddrSpace : x \in SeenRecords(o)'}
                                = {TargetOf(x) % AddrSpace : x \in SeenRecords(o)'}
      BY <1>2, FileUnchanged
    <3> QED
      BY <1>2, <2>5, <3>1, FileUnchanged
  <2>7. DOMAIN fixups' = Objects'
    BY <1>2, <2>1, <2>2, FileUnchanged
  <2>8. Objects' = Objects
    BY <1>2, FileUnchanged
  <2> QED
    BY <2>4, <2>6, <2>7, <2>8 DEF FixupsSoFar
<1>12. RecordsRead'
  <2>1. ASSUME NEW o \in Objects', NEW x \in RecordsOf(o)', IsSeen(o, x)'
        PROVE  /\ "records" \notin file'.missing
               /\ RecordAt(x)'.source = "offset32" /\ RecordAt(x)'.object \in Objects'
    <3>1. o \in Objects /\ x \in RecordsOf(o) /\ RecordAt(x)' = RecordAt(x) /\ Objects' = Objects
      BY <1>2, <2>1, FileUnchanged
    <3>2. RecordAt(n).source = "offset32" /\ RecordAt(n).object \in Objects
      BY <1>2, <1>4 DEF IsSupported
    <3>3. CASE x = n
      BY <1>2, <3>1, <3>2, <3>3
    <3>4. CASE IsSeen(o, x)
      BY <1>2, <1>3, <3>1, <3>4 DEF RecordsRead, Reading
    <3> QED
      BY <1>7, <2>1, <3>1, <3>3, <3>4
  <2>2. ASSUME NEW o \in Objects', NEW p \in PagesOf(o)', IsDone(o, p)'
        PROVE  p \in DOMAIN file'.pages /\ p \notin file'.remainder
    <3>1. o \in Objects /\ p \in PagesOf(o) /\ IsDone(o, p)
      BY <1>2, <2>2, FileUnchanged DEF IsDone, Reading, Later
    <3> QED
      BY <1>2, <1>3, <3>1 DEF RecordsRead, Reading
  <2> QED
    BY <2>1, <2>2 DEF RecordsRead
<1>13. TablesRead'
  BY <1>2, <1>3, FileUnchanged DEF TablesRead, Unread
<1>14. LoopsWithin'
  <2>1. StartPage' = StartPage /\ HasPage'
    BY <1>2 DEF StartPage, Object, HasPage
  <2>2. record + 1 <= Len(file.records[page]) /\ record + 1 \in Nat
    BY <1>2, <1>3, <1>5, FileFacts DEF HasPage
  <2> QED
    BY <1>2, <1>3, <2>1, <2>2, FileUnchanged DEF LoopsWithin, Unread, Reading
<1> QED
  BY <1>2, <1>3, <1>11, <1>12, <1>13, <1>14 DEF LoadInv, Reading

LEMMA FixupRefused == ASSUME LoadInv, RefuseFixup PROVE LoadInv'
<1>1. /\ load = "records" /\ page < PageEnd /\ HasPage /\ load' = "failed"
      /\ \/ /\ record < Len(file.records[page])
            /\ \/ "records" \in file.missing
               \/ ~ IsSupported(file.records[page][record + 1])
         \/ page \in file.remainder
      /\ file' = file /\ fixups' = fixups /\ fixup_addresses' = fixup_addresses /\ oi' = oi
  BY DEF RefuseFixup
<1>2. oi \in Objects /\ page \in PagesOf(oi)
  BY <1>1, AtRecord
<1>3. ~ IsSound
  <2>1. CASE page \in file.remainder
    BY <1>2, <2>1 DEF IsSound
  <2>2. CASE record < Len(file.records[page])
    <3>1. /\ <<page, record + 1>> \in RecordsOf(oi)
          /\ RecordAt(<<page, record + 1>>) = file.records[page][record + 1]
      BY <1>1, <2>2, NextRecord
    <3>2. "records" \in NeededParts
      BY <1>2, <3>1 DEF NeededParts
    <3>3. CASE "records" \in file.missing
      BY <3>2, <3>3 DEF IsSound
    <3>4. CASE ~ IsSupported(file.records[page][record + 1])
      BY <1>2, <3>1, <3>4 DEF IsSound, IsSupported
    <3> QED
      BY <1>1, <2>1, <3>3, <3>4
  <2> QED
    BY <1>1, <2>1, <2>2
<1>4. ~ IsSound'
  BY <1>1, <1>3, FileUnchanged
<1>5. file \in Files
  BY DEF LoadInv
<1> QED
  BY <1>1, <1>4, <1>5
     DEF LoadInv, LoopsWithin, TablesRead, RecordsRead, FixupsSoFar, Unread, Reading, Later

LEMMA PageLoaded == ASSUME LoadInv, FixupsOfPageLoaded PROVE LoadInv'
<1>1. /\ load = "records" /\ page < PageEnd /\ HasPage /\ load' = load
      /\ record = Len(file.records[page]) /\ page \notin file.remainder
      /\ page' = page + 1 /\ record' = 0
      /\ file' = file /\ fixups' = fixups /\ fixup_addresses' = fixup_addresses /\ oi' = oi
  BY DEF FixupsOfPageLoaded
<1>2. /\ file \in Files /\ TablesRead /\ RecordsRead /\ FixupsSoFar /\ LoopsWithin
  BY DEF LoadInv
<1>3. /\ oi \in Objects /\ page \in Nat /\ page >= StartPage /\ record \in Nat
      /\ StartPage \in Nat /\ page \in PagesOf(oi) /\ \A p \in PagesOf(oi) : p \in Nat
  BY <1>1, AtRecord
<1>4. ASSUME NEW o \in Objects, NEW x \in RecordsOf(o)
      PROVE  IsSeen(o, x)' <=> IsSeen(o, x)
  <2>1. /\ x[1] \in Nat /\ x[2] \in Nat \ {0}
        /\ x[1] = page => x[2] <= record
    BY <1>1, <1>2, RecordShape
  <2>2. (x[1] < page + 1 \/ (x[1] = page + 1 /\ x[2] <= 0))
            <=> (x[1] < page \/ (x[1] = page /\ x[2] <= record))
    BY <1>3, <2>1
  <2> QED
    BY <1>1, <2>2 DEF IsSeen, Reading, Later
<1>5. ASSUME NEW o \in Objects, NEW p \in PagesOf(o), IsDone(o, p)'
      PROVE  IsDone(o, p) \/ (p \in DOMAIN file.pages /\ p \notin file.remainder)
  <2>1. o < oi \/ (o = oi /\ p < page + 1)
    BY <1>1, <1>5 DEF IsDone, Reading, Later
  <2>2. o = oi => p \in Nat
    BY <1>3
  <2>3. o < oi \/ (o = oi /\ p < page) \/ p = page
    BY <1>3, <2>1, <2>2
  <2> QED
    BY <1>1, <2>3 DEF IsDone, Reading, HasPage
<1>6. FixupsSoFar'
  BY <1>1, <1>2, <1>4, SameFixups
<1>7. RecordsRead'
  BY <1>1, <1>2, <1>4, <1>5, SameRead DEF Reading
<1>8. TablesRead'
  BY <1>1, <1>2, FileUnchanged DEF TablesRead, Unread
<1>9. LoopsWithin'
  <2>1. StartPage' = StartPage /\ HasPage' = (page + 1 \in DOMAIN file.pages)
    BY <1>1 DEF StartPage, Object, HasPage
  <2>2. page + 1 \in DOMAIN file.pages => 0 <= Len(file.records[page + 1])
    BY <1>2, FileFacts
  <2>3. page + 1 \in Nat /\ page + 1 >= StartPage
    BY <1>3
  <2> QED
    BY <1>1, <1>2, <2>1, <2>2, <2>3, FileUnchanged DEF LoopsWithin, Unread, Reading
<1> QED
  BY <1>1, <1>2, <1>6, <1>7, <1>8, <1>9 DEF LoadInv, Reading

LEMMA PageMissing == ASSUME LoadInv, NoSuchPage PROVE LoadInv'
<1>1. /\ load = "records" /\ page < PageEnd /\ ~ HasPage /\ load' = "outside"
      /\ file' = file
  BY DEF NoSuchPage
<1>2. oi \in Objects /\ page \in PagesOf(oi) /\ file \in Files
  BY <1>1, AtRecord DEF LoadInv
<1>3. ~ PagesExist
  BY <1>1, <1>2 DEF PagesExist, HasPage
<1>4. TablesRead'
  BY <1>1, FileUnchanged DEF TablesRead, LoadInv, Unread
<1>5. ~ PagesExist'
  BY <1>1, <1>3, FileUnchanged
<1> QED
  BY <1>1, <1>2, <1>4, <1>5
     DEF LoadInv, LoopsWithin, RecordsRead, FixupsSoFar, Unread, Reading, Later

LEMMA ObjectLoaded == ASSUME LoadInv, FixupsOfObjectLoaded PROVE LoadInv'
<1>1. /\ load = "records" /\ page >= PageEnd /\ load' = "fixups"
      /\ oi' = oi + 1 /\ page' = page /\ record' = record
      /\ file' = file /\ fixups' = fixups /\ fixup_addresses' = fixup_addresses
  BY DEF FixupsOfObjectLoaded
<1>2. /\ file \in Files /\ TablesRead /\ RecordsRead /\ FixupsSoFar /\ LoopsWithin
  BY DEF LoadInv
<1>3. /\ oi \in Objects /\ Objects = 1 .. Len(file.objects) /\ Len(file.objects) \in Nat
      /\ page \in Nat /\ page >= StartPage
  BY <1>1, <1>2, AtRecord, FileFacts
<1>4. \A p \in PagesOf(oi) : p < page
  <2>1. /\ PageEnd \in Nat
        /\ \A p \in PagesOf(oi) : p \in Nat /\ p >= StartPage /\ p < PageEnd
    BY <1>1, AtRecord
  <2> QED
    BY <1>1, <1>3, <2>1
<1>5. \A o \in Objects : o < oi + 1 <=> o < oi \/ o = oi
  BY <1>3
<1>6. ASSUME NEW o \in Objects, NEW x \in RecordsOf(o)
      PROVE  IsSeen(o, x)' <=> IsSeen(o, x)
  <2>1. o = oi => x[1] < page
    BY <1>2, <1>4, RecordShape
  <2> QED
    BY <1>1, <1>5, <2>1 DEF IsSeen, Reading, Later
<1>7. ASSUME NEW o \in Objects, NEW p \in PagesOf(o)
      PROVE  IsDone(o, p)' => IsDone(o, p)
  BY <1>1, <1>4, <1>5 DEF IsDone, Reading, Later
<1>8. FixupsSoFar'
  BY <1>1, <1>2, <1>6, SameFixups
<1>9. RecordsRead'
  BY <1>1, <1>2, <1>6, <1>7, SameRead DEF Reading
<1>10. TablesRead'
  BY <1>1, <1>2, FileUnchanged DEF TablesRead, Unread
<1>11. LoopsWithin'
  BY <1>1, <1>3 DEF LoopsWithin, Unread, Reading
<1> QED
  BY <1>1, <1>2, <1>8, <1>9, <1>10, <1>11 DEF LoadInv, Reading

LEMMA AllLoaded == ASSUME LoadInv, FixupsLoaded PROVE LoadInv'
<1>1. /\ load = "fixups" /\ oi \notin Objects /\ load' = "image"
      /\ file' = file /\ fixups' = fixups /\ fixup_addresses' = fixup_addresses
  BY DEF FixupsLoaded
<1>2. /\ file \in Files /\ TablesRead /\ RecordsRead /\ FixupsSoFar /\ LoopsWithin
  BY DEF LoadInv
<1>3. \A o \in Objects : o < oi
  <2>1. oi \in 1 .. Len(file.objects) + 1
    BY <1>1, <1>2 DEF LoopsWithin, Reading
  <2> QED
    BY <1>1, <1>2, <2>1, FileFacts
<1>4. \A o \in Objects : \A x : IsSeen(o, x)' /\ IsSeen(o, x) /\ IsDone(o, x)
  BY <1>1, <1>3 DEF IsSeen, IsDone, Reading, Later
<1>5. FixupsSoFar'
  BY <1>1, <1>2, <1>4, SameFixups
<1>6. RecordsRead'
  BY <1>1, <1>2, <1>4, SameRead DEF Reading
<1>7. TablesRead'
  BY <1>1, <1>2, FileUnchanged DEF TablesRead, Unread
<1> QED
  BY <1>1, <1>2, <1>5, <1>6, <1>7 DEF LoadInv, LoopsWithin, Unread, Reading, Later

\* Making the image leaves what was loaded alone.
LEMMA LoadedKept ==
    ASSUME LoadInv, load \in Later, load' \in Later,
           file' = file, fixups' = fixups, fixup_addresses' = fixup_addresses
    PROVE  LoadInv'
<1>1. /\ file \in Files /\ TablesRead /\ RecordsRead /\ FixupsSoFar
  BY DEF LoadInv
<1>2. \A o \in Objects : \A x : IsSeen(o, x)' /\ IsSeen(o, x) /\ IsDone(o, x)
  BY DEF IsSeen, IsDone
<1>3. FixupsSoFar'
  BY <1>1, <1>2, SameFixups DEF Later
<1>4. RecordsRead'
  BY <1>1, <1>2, SameRead
<1>5. TablesRead'
  BY <1>1, FileUnchanged DEF TablesRead, Unread, Later
<1> QED
  BY <1>1, <1>3, <1>4, <1>5 DEF LoadInv, LoopsWithin, Unread, Reading, Later

LEMMA ImageStepsKeepLoad ==
    ASSUME create_image
    PROVE  /\ load \in Later /\ load' \in Later
           /\ file' = file /\ fixups' = fixups /\ fixup_addresses' = fixup_addresses
BY DEF create_image, BeginObject, CopyPage, ReadError, PagesCopied, apply_fixups,
       ApplyFixup, WriteOutside, RefuseToApply, FixupsApplied, ImageDone, Later

LEMMA LoadSteps == LoadInv /\ [ImageNext]_ivars => LoadInv'
<1> SUFFICES ASSUME LoadInv, [ImageNext]_ivars PROVE LoadInv'
  OBVIOUS
<1>1. CASE load_header \/ load_object_table \/ load_object_page_table
             \/ load_fixup_record_offsets
  BY <1>1, TableRead
<1>2. CASE BeginFixups
  BY <1>2, FixupsBegun
<1>3. CASE LoadFixup
  BY <1>3, FixupLoaded
<1>4. CASE RefuseFixup
  BY <1>4, FixupRefused
<1>5. CASE FixupsOfPageLoaded
  BY <1>5, PageLoaded
<1>6. CASE NoSuchPage
  BY <1>6, PageMissing
<1>7. CASE FixupsOfObjectLoaded
  BY <1>7, ObjectLoaded
<1>8. CASE FixupsLoaded
  BY <1>8, AllLoaded
<1>9. CASE create_image
  BY <1>9, ImageStepsKeepLoad, LoadedKept
<1>10. CASE UNCHANGED ivars
  <2>1. /\ file' = file /\ load' = load /\ fixups' = fixups
        /\ fixup_addresses' = fixup_addresses /\ oi' = oi /\ page' = page
        /\ record' = record
    BY <1>10 DEF ivars
  <2>2. LoopsWithin' /\ TablesRead'
    BY <2>1, FileUnchanged
       DEF LoadInv, LoopsWithin, TablesRead, StartPage, Object, HasPage, Objects
  <2>3. \A o \in Objects : \A x :
            (IsSeen(o, x)' <=> IsSeen(o, x)) /\ (IsDone(o, x)' <=> IsDone(o, x))
    BY <2>1 DEF IsSeen, IsDone
  <2>4. RecordsRead'
    <3>1. CASE load \in Reading \cup Later
      BY <2>1, <2>3, <3>1, SameRead DEF LoadInv
    <3>2. CASE load \notin Reading \cup Later
      BY <2>1, <3>2 DEF RecordsRead
    <3> QED
      BY <3>1, <3>2
  <2>5. FixupsSoFar'
    <3>1. CASE load \notin {"failed", "outside"}
      BY <2>1, <2>3, <3>1, SameFixups DEF LoadInv
    <3>2. CASE load \in {"failed", "outside"}
      BY <2>1, <3>2 DEF FixupsSoFar
    <3> QED
      BY <3>1, <3>2
  <2> QED
    BY <2>1, <2>2, <2>4, <2>5, FileUnchanged DEF LoadInv
<1> QED
  BY <1>1, <1>2, <1>3, <1>4, <1>5, <1>6, <1>7, <1>8, <1>9, <1>10
     DEF ImageNext, load_executable, LoaderNext, load_fixup_record_table,
         load_fixup_record_pages

LEMMA LoadInvariant == ImageSpec => []LoadInv
<1>1. ImageInit => LoadInv
  BY LoadBegins DEF ImageInit
<1> QED
  BY <1>1, LoadSteps, PTL DEF ImageSpec

\* The loader fails for a file in which something is missing or unknown to it,
\* wherever in the file that is, and for no other; and it reads behind the
\* tables only if an object claims pages the file does not have.
THEOREM LoadFailsIfUnsound == ImageSpec => []LoadedIffSound
<1>1. ASSUME LoadInv PROVE LoadedIffSound
  <2>1. ASSUME load \in Later PROVE IsSound /\ PagesExist
    <3>1. /\ TablesRead /\ RecordsRead
      BY <1>1 DEF LoadInv
    <3>2. \A o \in Objects : \A x : IsSeen(o, x) /\ IsDone(o, x)
      BY <2>1 DEF IsSeen, IsDone
    <3>3. /\ HeaderRead /\ "objects" \notin file.missing /\ "pages" \notin file.missing
          /\ "offsets" \notin file.missing
          /\ \A p \in DOMAIN file.pages : file.pages[p].type \in 0 .. 4
      BY <2>1, <3>1 DEF TablesRead, Later, Unread
    <3>4. \A o \in Objects :
            /\ \A x \in RecordsOf(o) :
                /\ "records" \notin file.missing
                /\ RecordAt(x).source = "offset32" /\ RecordAt(x).object \in Objects
            /\ \A p \in PagesOf(o) : p \in DOMAIN file.pages /\ p \notin file.remainder
      BY <2>1, <3>1, <3>2 DEF RecordsRead
    <3>5. ASSUME NEW part \in NeededParts PROVE part \notin file.missing
      <4>1. CASE part = "records"
        <5>1. ~ \A o \in Objects : RecordsOf(o) = {}
          BY <4>1, <3>5 DEF NeededParts
        <5>2. PICK o \in Objects : RecordsOf(o) # {}
          BY <5>1
        <5> QED
          BY <3>4, <4>1, <5>2
      <4>2. CASE part # "records"
        BY <3>3, <3>5, <4>2 DEF NeededParts, HeaderRead
      <4> QED
        BY <4>1, <4>2
    <3>6. \A o \in Objects : file.remainder \cap PagesOf(o) = {}
      BY <3>4
    <3>7. IsSound
      BY <3>3, <3>4, <3>5, <3>6 DEF IsSound, HeaderRead
    <3>8. PagesExist
      BY <3>4 DEF PagesExist
    <3> QED
      BY <3>7, <3>8
  <2> QED
    BY <1>1, <2>1 DEF LoadInv, LoadedIffSound, Later
<1> QED
  BY <1>1, LoadInvariant, PTL

\* When all records have been read, the fixups of an object are those of its
\* pages' records, and of two for one offset the last.
THEOREM LoadedFixups == ImageSpec => []FixupsExact
<1>1. ASSUME LoadInv PROVE FixupsExact
  <2> SUFFICES ASSUME load \notin {"header", "objects", "pages", "offsets", "fixups",
                                   "records", "failed", "outside"}
               PROVE  FixupsExact
    BY DEF FixupsExact
  <2>1. load \in Later /\ FixupsSoFar
    BY <1>1 DEF LoadInv, Unread, Reading
  <2>2. \A o \in Objects : SeenRecords(o) = RecordsOf(o)
    BY <2>1 DEF SeenRecords, IsSeen
  <2>3. /\ \A o \in Objects : ExactFor(fixups[o], o, RecordsOf(o))
        /\ fixup_addresses =
            UNION {{TargetOf(x) % AddrSpace : x \in SeenRecords(o)} : o \in Objects}
    BY <2>1, <2>2 DEF FixupsSoFar, Later
  <2>4. \A o \in Objects : {TargetOf(x) % AddrSpace : x \in SeenRecords(o)}
                             = {TargetOf(x) % AddrSpace : x \in RecordsOf(o)}
    BY <2>2
  <2>5. fixup_addresses =
            UNION {{TargetOf(x) % AddrSpace : x \in RecordsOf(o)} : o \in Objects}
    BY <2>3, <2>4
  <2> QED
    BY <2>3, <2>5 DEF FixupsExact, ExactFor
<1> QED
  BY <1>1, LoadInvariant, PTL

-----------------------------------------------------------------------------
(* What the image is, while it is made. *)

\* Byte k of an object that has all its pages.
FileByteAt(o, k) ==
    FileByte(file.pages[file.objects[o].first_page + k \div file.page_size].number,
             k % file.page_size)

\* How many bytes the pages of an object before page p have.
BytesBefore(o, p) ==
    (p - FirstOf(o)) * file.page_size
    - (IF p - 1 \in PagesOf(o) /\ p - 1 = Len(file.pages)
       THEN file.page_size - file.last_page_size ELSE 0)

ObjectBytes(o) == 0 .. file.objects[o].size - 1

\* The n bytes of d are those of the pages of the object before p.
CopiedTo(o, p, n, d) ==
    /\ p \in Nat /\ p >= FirstOf(o)
    /\ \A q \in FirstOf(o) .. p - 1 : q \in PagesOf(o)
    /\ n = Smaller(file.objects[o].size, BytesBefore(o, p))
    /\ d = [k \in ObjectBytes(o) |-> IF k < n THEN FileByteAt(o, k) ELSE Zero]

Latest(over) == CHOOSE x \in over : \A y \in over : y <= x

\* Byte k of an object when the fixups at the offsets applied have been applied.
ByteWith(o, applied, k) ==
    LET over == {off \in applied : k \in WordBytes(off)}
    IN  IF over = {} THEN PageByte(o, k)
        ELSE TargetByte(fixups[o][Latest(over)], k - Latest(over))

BytesWith(o, applied) == [k \in ObjectBytes(o) |-> ByteWith(o, applied, k)]

Written(o, applied) == \A off \in applied : WordBytes(off) \subseteq ObjectBytes(o)

\* The fixups left are those behind the ones applied.
AppliedTo(o, left, d) ==
    /\ left \subseteq DOMAIN fixups[o]
    /\ \A a \in DOMAIN fixups[o] \ left : \A s \in left : a < s
    /\ Written(o, DOMAIN fixups[o] \ left)
    /\ d = BytesWith(o, DOMAIN fixups[o] \ left)

ImagesMade ==
    /\ load \notin Later => image = <<>>
    /\ load \in Later =>
        /\ oi \in 1 .. Len(file.objects) + 1
        /\ image = [o \in 1 .. oi - 1 |-> BytesWith(o, DOMAIN fixups[o])]
        /\ \A o \in 1 .. oi - 1 : Written(o, DOMAIN fixups[o])

ObjectMade ==
    /\ load = "copy" => oi \in Objects /\ CopiedTo(oi, page, data_off, data)
    /\ load = "apply" => oi \in Objects /\ AppliedTo(oi, sites, data)

OnlyWrapped ==
    load = "undefined" =>
        \E x \in RecordsOf(oi) : PlaceOf(oi, x) \notin 0 .. AddrSpace - WordSize - 1

ImageInv == LoadInv /\ ImagesMade /\ ObjectMade /\ OnlyWrapped

LEMMA ImageUnchanged ==
    ASSUME file' = file, fixups' = fixups
    PROVE  /\ \A o, p, n, d : CopiedTo(o, p, n, d)' <=> CopiedTo(o, p, n, d)
           /\ \A o, left, d : AppliedTo(o, left, d)' <=> AppliedTo(o, left, d)
           /\ \A o, applied : /\ BytesWith(o, applied)' = BytesWith(o, applied)
                              /\ Written(o, applied)' <=> Written(o, applied)
<1>1. /\ \A o : ObjectBytes(o)' = ObjectBytes(o) /\ PagesOf(o)' = PagesOf(o)
      /\ \A o : FirstOf(o)' = FirstOf(o)
      /\ \A o, p : BytesBefore(o, p)' = BytesBefore(o, p)
      /\ \A o, k : FileByteAt(o, k)' = FileByteAt(o, k)
  BY FileUnchanged DEF ObjectBytes, FirstOf, BytesBefore, FileByteAt
<1>2. \A o, k : PageByte(o, k)' = PageByte(o, k)
  BY <1>1 DEF PageByte, BytesInFile
<1>3. \A o, applied : BytesWith(o, applied)' = BytesWith(o, applied)
  BY <1>1, <1>2 DEF BytesWith, ByteWith
<1>4. \A o, applied : Written(o, applied)' <=> Written(o, applied)
  BY <1>1 DEF Written
<1>5. \A o, p, n, d : CopiedTo(o, p, n, d)' <=> CopiedTo(o, p, n, d)
  BY <1>1 DEF CopiedTo
<1>6. \A o, left, d : AppliedTo(o, left, d)' <=> AppliedTo(o, left, d)
  BY <1>3, <1>4 DEF AppliedTo
<1> QED
  BY <1>3, <1>4, <1>5, <1>6

\* What has been loaded when the image is made.
LEMMA LoadedFacts ==
    ASSUME LoadInv, load \in Later, NEW o \in Objects
    PROVE  /\ file.objects[o].size \in Nat /\ file.objects[o].size < AddrSpace
           /\ file.objects[o].first_page \in Nat
           /\ file.page_size \in Nat \ {0} /\ file.last_page_size \in 0 .. file.page_size
           /\ PagesOf(o) \subseteq 1 .. Len(file.pages) /\ Len(file.pages) \in Nat
           /\ DOMAIN fixups = Objects
           /\ DOMAIN fixups[o] = {OffsetOf(o, x) : x \in RecordsOf(o)}
           /\ \A x \in RecordsOf(o) : PlaceOf(o, x) \in Int
           /\ DOMAIN fixups[o] \subseteq 0 .. AddrSpace - 1
<1>1. file \in Files /\ RecordsRead /\ FixupsSoFar
  BY DEF LoadInv
<1>2. /\ file.page_size \in Nat \ {0} /\ file.last_page_size \in 0 .. file.page_size
      /\ file.objects[o].first_page \in Nat
  <2>1. file.page_size \in Address \ {0} /\ file.last_page_size \in 0 .. file.page_size
    BY <1>1, FilesAssumption DEF IsFile
  <2>2. file.objects[o].first_page \in 0 .. AddrSpace - 1
    BY <1>1, FileFacts
  <2> QED
    BY <2>1, <2>2, AddrSpaceAssumption DEF Address
<1>3. PagesOf(o) \subseteq 1 .. Len(file.pages)
  BY <1>1, FileFacts DEF RecordsRead, IsDone
<1>4. SeenRecords(o) = RecordsOf(o)
  BY DEF SeenRecords, IsSeen
<1>5. DOMAIN fixups = Objects /\ DOMAIN fixups[o] = {OffsetOf(o, x) : x \in RecordsOf(o)}
  BY <1>1, <1>4 DEF FixupsSoFar, ExactFor, Later
<1>6. ASSUME NEW x \in RecordsOf(o) PROVE PlaceOf(o, x) \in Int
  <2>1. x[1] \in Nat /\ RecordAt(x) \in RecordSet
    BY <1>1, FileFacts, RecordShape DEF RecordAt
  <2>2. RecordAt(x).src_off \in Int
    BY <2>1 DEF RecordSet
  <2> QED
    BY <1>2, <2>1, <2>2 DEF PlaceOf
<1>7. \A x \in RecordsOf(o) : OffsetOf(o, x) \in 0 .. AddrSpace - 1
  BY <1>6, AddrSpaceAssumption DEF OffsetOf
<1> QED
  BY <1>1, <1>2, <1>3, <1>5, <1>6, <1>7, FileFacts

-----------------------------------------------------------------------------
(* The pages. *)

LEMMA FirstPage ==
    ASSUME LoadInv, load \in Later, NEW o \in Objects
    PROVE  CopiedTo(o, FirstOf(o), 0, [k \in ObjectBytes(o) |-> Zero])
<1> DEFINE first == FirstOf(o)
<1>1. /\ file.objects[o].size \in Nat /\ file.page_size \in Nat \ {0}
      /\ file \in Files
  BY LoadedFacts DEF LoadInv
<1>2. first \in Nat /\ first - 1 \notin PagesOf(o)
  BY <1>1, PagesShape
<1> HIDE DEF first
<1>3. BytesBefore(o, first) = 0
  BY <1>1, <1>2 DEF BytesBefore, first
<1>4. 0 = Smaller(file.objects[o].size, BytesBefore(o, first))
  BY <1>1, <1>3 DEF Smaller
<1>5. [k \in ObjectBytes(o) |-> Zero]
        = [k \in ObjectBytes(o) |-> IF k < 0 THEN FileByteAt(o, k) ELSE Zero]
  BY <1>1 DEF ObjectBytes
<1> QED
  BY <1>1, <1>2, <1>4, <1>5 DEF CopiedTo, first

LEMMA NextPage ==
    ASSUME LoadInv, load \in Later, NEW o \in Objects, NEW p, NEW n, NEW d,
           CopiedTo(o, p, n, d), p \in PagesOf(o), NEW size,
           size = Smaller(file.objects[o].size - n,
                          IF p < Len(file.pages) THEN file.page_size
                          ELSE file.last_page_size)
    PROVE  CopiedTo(o, p + 1, n + size,
                    [k \in DOMAIN d |->
                        IF k \in n .. n + size - 1
                        THEN FileByte(file.pages[p].number, k - n) ELSE d[k]])
<1> DEFINE first == FirstOf(o)
           whole == file.objects[o].size
           before == (p - first) * file.page_size
           here == IF p < Len(file.pages) THEN file.page_size ELSE file.last_page_size
<1>1. /\ whole \in Nat /\ first \in Nat
      /\ file.page_size \in Nat \ {0} /\ file.last_page_size \in 0 .. file.page_size
      /\ p \in 1 .. Len(file.pages) /\ Len(file.pages) \in Nat
      /\ first = file.objects[o].first_page
  BY LoadedFacts, PagesShape DEF LoadInv
<1>2. /\ p \in Nat /\ p >= first
      /\ \A q \in first .. p - 1 : q \in PagesOf(o)
      /\ n = Smaller(whole, BytesBefore(o, p))
      /\ d = [k \in ObjectBytes(o) |-> IF k < n THEN FileByteAt(o, k) ELSE Zero]
  BY DEF CopiedTo
<1>3. before \in Nat
  BY <1>1, <1>2
<1>4. BytesBefore(o, p) = before
  BY <1>1, <1>3 DEF BytesBefore
<1>6. here \in 0 .. file.page_size
  BY <1>1
<1>7. BytesBefore(o, p + 1) = before + here
  <2> DEFINE short == IF p \in PagesOf(o) /\ p = Len(file.pages)
                      THEN file.page_size - file.last_page_size ELSE 0
  <2>1. PICK next \in Nat : next = p + 1
    BY <1>2
  <2>2. BytesBefore(o, next) =
          (next - first) * file.page_size
          - (IF next - 1 \in PagesOf(o) /\ next - 1 = Len(file.pages)
             THEN file.page_size - file.last_page_size ELSE 0)
    BY DEF BytesBefore
  <2>3. next - 1 = p
    BY <1>2, <2>1
  <2>4. short = file.page_size - here
    BY <1>1
  <2>6. (next - first) * file.page_size = before + file.page_size
    <3>1. p \in Int /\ first \in Int /\ file.page_size \in Int
      BY <1>1
    <3> HIDE DEF first
    <3>2. (p + 1 - first) * file.page_size = (p - first) * file.page_size + file.page_size
      BY <3>1, NextMultiple
    <3> QED
      BY <2>1, <3>1, <3>2
  <2> HIDE DEF before, here, first
  <2>5. BytesBefore(o, next) = (next - first) * file.page_size - short
    BY <2>2, <2>3
  <2> HIDE DEF short
  <2> QED
    BY <1>1, <1>3, <1>6, <2>1, <2>4, <2>5, <2>6
<1> HIDE DEF before, here, whole, first
<1>8. n = Smaller(whole, before) /\ size = Smaller(whole - n, here)
  BY <1>2, <1>4 DEF here, whole
<1>9. /\ n \in Nat /\ size \in Nat /\ n + size = Smaller(whole, before + here)
      /\ size > 0 => n = before
      /\ size <= file.page_size
  BY <1>1, <1>3, <1>6, <1>8 DEF Smaller
<1>10. ASSUME NEW q \in first .. p + 1 - 1 PROVE q \in PagesOf(o)
  <2>1. q \in first .. p - 1 \/ q = p
    BY <1>1, <1>2
  <2> QED
    BY <1>2, <2>1
<1>11. ASSUME NEW k \in ObjectBytes(o)
       PROVE  (IF k \in n .. n + size - 1
               THEN FileByte(file.pages[p].number, k - n) ELSE d[k])
                = IF k < n + size THEN FileByteAt(o, k) ELSE Zero
  <2>1. k \in Nat /\ d[k] = IF k < n THEN FileByteAt(o, k) ELSE Zero
    BY <1>2 DEF ObjectBytes
  <2>2. CASE k \in n .. n + size - 1
    <3>1. n = before /\ k - n \in Nat /\ k - n < file.page_size
      BY <1>1, <1>9, <2>1, <2>2
    <3>2. k = (p - first) * file.page_size + (k - n)
      BY <1>9, <2>1, <3>1 DEF before
    <3>3. k \div file.page_size = p - first /\ k % file.page_size = k - n
      <4>1. p - first \in Nat /\ file.page_size \in Nat \ {0}
        BY <1>1, <1>2
      <4>2. /\ ((p - first) * file.page_size + (k - n)) \div file.page_size = p - first
            /\ ((p - first) * file.page_size + (k - n)) % file.page_size = k - n
        BY <3>1, <4>1, DivMod
      <4> QED
        BY <3>2, <4>2
    <3>4. FileByteAt(o, k) = FileByte(file.pages[p].number, k - n)
      <4>1. first + (p - first) = p
        BY <1>1, <1>2
      <4> QED
        BY <1>1, <3>3, <4>1 DEF FileByteAt
    <3> QED
      BY <1>9, <2>1, <2>2, <3>4
  <2>3. CASE k \notin n .. n + size - 1
    BY <1>9, <2>1, <2>3
  <2> QED
    BY <2>2, <2>3
<1>12. DOMAIN d = ObjectBytes(o)
  BY <1>2
<1>13. p + 1 \in Nat /\ p + 1 >= first
  BY <1>1, <1>2
<1>14. n + size = Smaller(whole, BytesBefore(o, p + 1))
  BY <1>7, <1>9
<1> QED
  BY <1>10, <1>11, <1>12, <1>13, <1>14 DEF CopiedTo, whole, first

LEMMA AllPages ==
    ASSUME LoadInv, load \in Later, NEW o \in Objects, NEW p, NEW n, NEW d,
           CopiedTo(o, p, n, d), p \notin PagesOf(o)
    PROVE  d = BytesWith(o, {})
<1> DEFINE first == FirstOf(o)
           count == file.objects[o].pages
           whole == file.objects[o].size
           last == file.objects[o].first_page + count - 1
<1>1. /\ whole \in Nat /\ first \in Nat \ {0} /\ count \in Nat
      /\ PagesOf(o) = {} \/ (PagesOf(o) = first .. first + count - 1
                              /\ first = file.objects[o].first_page)
  BY LoadedFacts, PagesShape DEF LoadInv
<1>2. /\ p \in Nat /\ p >= first
      /\ \A q \in first .. p - 1 : q \in PagesOf(o)
      /\ n = Smaller(whole, BytesBefore(o, p))
      /\ d = [k \in ObjectBytes(o) |-> IF k < n THEN FileByteAt(o, k) ELSE Zero]
  BY DEF CopiedTo
<1>3. p # first => p - 1 \in PagesOf(o)
  BY <1>1, <1>2
<1>4. /\ PagesOf(o) = first .. p - 1
      /\ last \in PagesOf(o) => last = p - 1
      /\ p - 1 \in PagesOf(o) => last = p - 1
  <2>1. CASE PagesOf(o) = {}
    BY <1>1, <1>2, <1>3, <2>1
  <2>2. CASE PagesOf(o) = first .. first + count - 1 /\ first = file.objects[o].first_page
    <3>1. last = first + count - 1
      BY <2>2
    <3> HIDE DEF last, first, count
    <3>2. p = first + count \/ (p = first /\ PagesOf(o) = {})
      BY <1>1, <1>2, <1>3, <2>2, SMTT(60)
    <3> QED
      BY <1>1, <1>2, <2>2, <3>1, <3>2, SMTT(60)
  <2> QED
    BY <1>1, <2>1, <2>2
<1>5. Cardinality(PagesOf(o)) = p - first
  <2>1. first \in Int /\ p - 1 \in Int
    BY <1>1, <1>2
  <2>2. Cardinality(first .. p - 1) = IF first > p - 1 THEN 0 ELSE p - 1 - first + 1
    BY <2>1, FS_Interval
  <2> HIDE DEF first
  <2> QED
    BY <1>1, <1>2, <1>4, <2>2
<1>6. BytesInFile(o) = BytesBefore(o, p)
  BY <1>4, <1>5 DEF BytesInFile, BytesBefore
<1>7. BytesBefore(o, p) \in Int
  <2>1. /\ file.page_size \in Nat \ {0} /\ file.last_page_size \in 0 .. file.page_size
    BY LoadedFacts
  <2>2. (p - first) * file.page_size \in Int
    BY <1>1, <1>2, <2>1
  <2> QED
    BY <2>1, <2>2 DEF BytesBefore
<1>8. ASSUME NEW k \in ObjectBytes(o) PROVE d[k] = ByteWith(o, {}, k)
  <2>1. k < n <=> k < BytesInFile(o)
    BY <1>1, <1>2, <1>6, <1>7 DEF ObjectBytes, Smaller
  <2>2. ByteWith(o, {}, k) = PageByte(o, k)
    BY DEF ByteWith
  <2> QED
    BY <1>2, <2>1, <2>2 DEF PageByte, FileByteAt
<1> QED
  BY <1>2, <1>8 DEF BytesWith

-----------------------------------------------------------------------------
(* The fixups. *)

\* The word applied last is whole.
LEMMA OneMoreFixup ==
    ASSUME NEW o, NEW applied \in SUBSET Int, NEW off \in Int,
           \A a \in applied : a < off, NEW k
    PROVE  ByteWith(o, applied \cup {off}, k)
             = IF k \in WordBytes(off) THEN TargetByte(fixups[o][off], k - off)
               ELSE ByteWith(o, applied, k)
<1> DEFINE over == {a \in applied : k \in WordBytes(a)}
           more == {a \in applied \cup {off} : k \in WordBytes(a)}
<1>1. CASE k \in WordBytes(off)
  <2>1. more = over \cup {off}
    BY <1>1
  <2>2. \A a \in over : a < off
    OBVIOUS
  <2>3. over \subseteq Int
    OBVIOUS
  <2> HIDE DEF over
  <2>4. /\ off \in more /\ \A y \in more : y <= off
        /\ \A x \in more : (\A y \in more : y <= x) => x = off
    BY <2>1, <2>2, <2>3
  <2>5. Latest(more) = off /\ more # {}
    <3> HIDE DEF more
    <3> QED
      BY <2>4 DEF Latest
  <2>6. ByteWith(o, applied \cup {off}, k) =
          IF more = {} THEN PageByte(o, k)
          ELSE TargetByte(fixups[o][Latest(more)], k - Latest(more))
    BY DEF ByteWith
  <2> HIDE DEF more
  <2> QED
    BY <1>1, <2>5, <2>6
<1>2. CASE k \notin WordBytes(off)
  <2>1. more = over
    BY <1>2
  <2>2. ByteWith(o, applied \cup {off}, k) =
          IF more = {} THEN PageByte(o, k)
          ELSE TargetByte(fixups[o][Latest(more)], k - Latest(more))
    BY DEF ByteWith
  <2>3. ByteWith(o, applied, k) =
          IF over = {} THEN PageByte(o, k)
          ELSE TargetByte(fixups[o][Latest(over)], k - Latest(over))
    BY DEF ByteWith
  <2> HIDE DEF more, over
  <2> QED
    BY <1>2, <2>1, <2>2, <2>3
<1> QED
  BY <1>1, <1>2

LEMMA NextFixup ==
    ASSUME LoadInv, load = "apply", oi \in Objects, AppliedTo(oi, sites, data),
           sites # {}, WordBytes(NextSite) \subseteq DOMAIN data
    PROVE  AppliedTo(oi, sites \ {NextSite},
                     [k \in DOMAIN data |->
                        IF k \in WordBytes(NextSite)
                        THEN TargetByte(fixups[oi][NextSite], k - NextSite) ELSE data[k]])
<1> DEFINE all == DOMAIN fixups[oi]
           next == NextSite
           applied == all \ sites
<1>1. all \subseteq 0 .. AddrSpace - 1 /\ AddrSpace \in Nat
  BY LoadedFacts, AddrSpaceAssumption DEF Later
<1>2. /\ sites \subseteq all
      /\ \A a \in applied : \A s \in sites : a < s
      /\ Written(oi, applied)
      /\ data = BytesWith(oi, applied)
  BY DEF AppliedTo
<1>3. next \in sites /\ \A s \in sites : next <= s
  <2>1. \E x \in sites : \A y \in sites : x <= y
    BY <1>1, <1>2, LeastNat
  <2> QED
    BY <2>1 DEF NextSite
<1>4. DOMAIN data = ObjectBytes(oi)
  BY <1>2 DEF BytesWith
<1>5. WordBytes(next) \subseteq ObjectBytes(oi)
  BY <1>4
<1> HIDE DEF all, next
<1>6. all \ (sites \ {next}) = applied \cup {next}
  BY <1>2, <1>3
<1>7. applied \in SUBSET Int /\ next \in Int /\ \A a \in applied : a < next
  BY <1>1, <1>2, <1>3
<1>8. \A a \in applied \cup {next} : \A s \in sites \ {next} : a < s
  <2>1. \A s \in sites \ {next} : next < s
    BY <1>1, <1>2, <1>3
  <2> QED
    BY <1>2, <2>1
<1>9. Written(oi, applied \cup {next})
  BY <1>2, <1>5 DEF Written
<1>10. ASSUME NEW k \in ObjectBytes(oi)
       PROVE  (IF k \in WordBytes(next) THEN TargetByte(fixups[oi][next], k - next)
               ELSE data[k]) = ByteWith(oi, applied \cup {next}, k)
  <2>1. data[k] = ByteWith(oi, applied, k)
    BY <1>2 DEF BytesWith
  <2> HIDE DEF applied
  <2> QED
    BY <1>7, <2>1, OneMoreFixup, ZenonT(60)
<1>11. [k \in DOMAIN data |-> IF k \in WordBytes(next)
                              THEN TargetByte(fixups[oi][next], k - next) ELSE data[k]]
         = BytesWith(oi, applied \cup {next})
  <2> HIDE DEF applied
  <2> QED
    BY <1>4, <1>10 DEF BytesWith
<1>12. sites \ {next} \subseteq all
  BY <1>2
<1> HIDE DEF applied
<1> QED
  BY <1>6, <1>8, <1>9, <1>11, <1>12 DEF AppliedTo, all, next

\* What is not refused is in the object, unless the sum wrapped.
LEMMA RefusalExact ==
    ASSUME LoadInv, load \in Later, NEW o \in Objects, o = oi, NEW x \in RecordsOf(o),
           ~ IsRefused(OffsetOf(o, x)),
           PlaceOf(o, x) \in 0 .. AddrSpace - WordSize - 1
    PROVE  WordBytes(OffsetOf(o, x)) \subseteq ObjectBytes(o)
<1>1. /\ file.objects[o].size \in Nat /\ PlaceOf(o, x) \in Int
      /\ AddrSpace \in Nat \ {0} /\ WordSize \in Nat \ {0}
  BY LoadedFacts, AddrSpaceAssumption, WordSizeAssumption
<1>2. OffsetOf(o, x) = PlaceOf(o, x)
  BY <1>1 DEF OffsetOf
<1>3. (PlaceOf(o, x) + WordSize) % AddrSpace = PlaceOf(o, x) + WordSize
  <2>1. PlaceOf(o, x) + WordSize \in 0 .. AddrSpace - 1
    BY <1>1
  <2> QED
    BY <1>1, <2>1, SmallMod
<1>4. PlaceOf(o, x) + WordSize < file.objects[o].size
  BY <1>1, <1>2, <1>3 DEF IsRefused, Object
<1> QED
  BY <1>1, <1>2, <1>4 DEF WordBytes, ObjectBytes

-----------------------------------------------------------------------------
(* The steps. *)

LEMMA ImageBegins == ImageInit => ImageInv
<1> SUFFICES ASSUME ImageInit PROVE ImageInv
  OBVIOUS
<1>1. LoadInv /\ load = "header" /\ image = <<>>
  BY LoadBegins DEF ImageInit, LoaderInit
<1> QED
  BY <1>1 DEF ImageInv, ImagesMade, ObjectMade, OnlyWrapped, Later

\* While objects are made, the objects done stay what they are.
LEMMA ImagesKept ==
    ASSUME ImagesMade, load \in Later, load' \in Later,
           file' = file, fixups' = fixups, oi' = oi, image' = image
    PROVE  ImagesMade'
<1>1. /\ oi \in 1 .. Len(file.objects) + 1
      /\ image = [o \in 1 .. oi - 1 |-> BytesWith(o, DOMAIN fixups[o])]
      /\ \A o \in 1 .. oi - 1 : Written(o, DOMAIN fixups[o])
  BY DEF ImagesMade
<1>2. ASSUME NEW o
      PROVE  /\ BytesWith(o, DOMAIN fixups[o])' = BytesWith(o, DOMAIN fixups[o])
             /\ Written(o, DOMAIN fixups[o])' <=> Written(o, DOMAIN fixups[o])
  BY ImageUnchanged
<1>3. image' = [o \in 1 .. oi - 1 |-> BytesWith(o, DOMAIN fixups[o])']
  BY <1>1, <1>2
<1>4. \A o \in 1 .. oi - 1 : Written(o, DOMAIN fixups[o])'
  BY <1>1, <1>2
<1> QED
  BY <1>1, <1>3, <1>4 DEF ImagesMade

LEMMA LoaderStepsMakeNothing ==
    ASSUME ImageInv, load_executable
    PROVE  ImagesMade' /\ ObjectMade' /\ OnlyWrapped'
<1>1. /\ LoadInv /\ LoaderNext /\ image' = image
      /\ load \notin Later
  BY DEF ImageInv, load_executable, LoaderNext, load_header, load_object_table,
         load_object_page_table, load_fixup_record_offsets, LoadTable,
         load_fixup_record_table, load_fixup_record_pages, BeginFixups, LoadFixup,
         RefuseFixup, FixupsOfPageLoaded, NoSuchPage, FixupsOfObjectLoaded, FixupsLoaded,
         Later
<1>2. image' = <<>>
  BY <1>1 DEF ImageInv, ImagesMade
<1>3. load' \notin Later \/ (load' = "image" /\ oi' = 1 /\ file' = file)
  BY <1>1 DEF LoaderNext, load_header, load_object_table,
         load_object_page_table, load_fixup_record_offsets, LoadTable,
         load_fixup_record_table, load_fixup_record_pages, BeginFixups, LoadFixup,
         RefuseFixup, FixupsOfPageLoaded, NoSuchPage, FixupsOfObjectLoaded, FixupsLoaded,
         Later
<1>4. CASE load' \notin Later
  BY <1>2, <1>4 DEF ImagesMade, ObjectMade, OnlyWrapped, Later
<1>5. CASE load' = "image" /\ oi' = 1 /\ file' = file
  <2>1. oi' \in 1 .. Len(file'.objects) + 1
    <3>1. Len(file.objects) \in Nat
      BY <1>1, FileFacts DEF LoadInv
    <3> QED
      BY <1>5, <3>1
  <2>2. 1 .. oi' - 1 = {}
    BY <1>5
  <2>3. image' = [o \in 1 .. oi' - 1 |-> BytesWith(o, DOMAIN fixups[o])']
    BY <1>2, <2>2
  <2> QED
    BY <1>2, <1>5, <2>1, <2>2, <2>3 DEF ImagesMade, ObjectMade, OnlyWrapped, Later
<1> QED
  BY <1>3, <1>4, <1>5

LEMMA ObjectSteps ==
    ASSUME ImageInv, create_image
    PROVE  ImagesMade' /\ ObjectMade' /\ OnlyWrapped'
<1>1. LoadInv /\ ImagesMade /\ ObjectMade
  BY DEF ImageInv
<1>2. /\ load \in Later /\ load' \in Later /\ file' = file /\ fixups' = fixups
  BY ImageStepsKeepLoad
<1>3. CASE BeginObject
  <2>1. /\ oi \in Objects /\ load' = "copy" /\ oi' = oi /\ image' = image
        /\ data' = [k \in 0 .. Object.size - 1 |-> Zero]
        /\ data_off' = 0 /\ page' = StartPage
    BY <1>3 DEF BeginObject
  <2>2. CopiedTo(oi, page', data_off', data')
    <3>1. StartPage = FirstOf(oi)
      BY <1>1, <2>1, PagesShape DEF LoadInv
    <3> QED
      BY <1>1, <1>2, <2>1, <3>1, FirstPage DEF Object, ObjectBytes
  <2>3. oi' \in Objects' /\ CopiedTo(oi, page, data_off, data)'
    BY <1>2, <2>1, <2>2, ImageUnchanged, FileUnchanged
  <2> QED
    BY <1>1, <1>2, <2>1, <2>3, ImagesKept DEF ObjectMade, OnlyWrapped
<1>4. CASE CopyPage
  <2>1. /\ load = "copy" /\ load' = load /\ oi' = oi /\ image' = image
        /\ page < CopyEnd /\ page' = page + 1 /\ data_off' = data_off + CopySize
        /\ data' = [k \in DOMAIN data |->
                      IF k \in data_off .. data_off + CopySize - 1
                      THEN FileByte(file.pages[page].number, k - data_off) ELSE data[k]]
    BY <1>4 DEF CopyPage
  <2>2. oi \in Objects /\ CopiedTo(oi, page, data_off, data)
    BY <1>1, <2>1 DEF ObjectMade
  <2>3. page \in PagesOf(oi)
    <3>1. page \in Nat /\ page >= FirstOf(oi)
      BY <2>2 DEF CopiedTo
    <3>2. page < PageEnd <=> page \in PagesOf(oi)
      BY <1>1, <2>2, <3>1, PagesShape DEF LoadInv
    <3>3. PageEnd \in Nat /\ Len(file.pages) \in Nat
      BY <1>1, <2>2, FileFacts, PagesShape DEF LoadInv
    <3>4. page < PageEnd
      BY <2>1, <3>1, <3>3 DEF CopyEnd, Smaller
    <3> QED
      BY <3>2, <3>4
  <2>4. CopiedTo(oi, page', data_off', data')
    BY <1>1, <1>2, <2>1, <2>2, <2>3, NextPage DEF CopySize, Object
  <2>5. oi' \in Objects' /\ CopiedTo(oi, page, data_off, data)'
    BY <1>2, <2>1, <2>2, <2>4, ImageUnchanged, FileUnchanged
  <2> QED
    BY <1>1, <1>2, <2>1, <2>5, ImagesKept DEF ObjectMade, OnlyWrapped
<1>5. CASE PagesCopied
  <2>1. /\ load = "copy" /\ load' = "apply" /\ oi' = oi /\ image' = image
        /\ page >= CopyEnd /\ sites' = DOMAIN fixups[oi] /\ data' = data
    BY <1>5 DEF PagesCopied
  <2>2. oi \in Objects /\ CopiedTo(oi, page, data_off, data)
    BY <1>1, <2>1 DEF ObjectMade
  <2>3. page \notin PagesOf(oi)
    <3>1. page \in Nat /\ page >= FirstOf(oi)
      BY <2>2 DEF CopiedTo
    <3>2. page < PageEnd <=> page \in PagesOf(oi)
      BY <1>1, <2>2, <3>1, PagesShape DEF LoadInv
    <3>3. /\ PageEnd \in Nat /\ Len(file.pages) \in Nat
          /\ page \in PagesOf(oi) => page <= Len(file.pages)
      <4>1. PagesOf(oi) \subseteq 1 .. Len(file.pages) /\ Len(file.pages) \in Nat
        BY <1>1, <1>2, <2>2, LoadedFacts
      <4>2. PageEnd \in Nat
        BY <1>1, <2>2, PagesShape DEF LoadInv
      <4> QED
        BY <3>1, <4>1, <4>2
    <3> QED
      BY <2>1, <3>1, <3>2, <3>3 DEF CopyEnd, Smaller
  <2>4. data = BytesWith(oi, {})
    BY <1>1, <1>2, <2>2, <2>3, AllPages
  <2>5. AppliedTo(oi, DOMAIN fixups[oi], data)
    BY <2>4 DEF AppliedTo, Written
  <2>6. oi' \in Objects' /\ AppliedTo(oi, sites, data)'
    BY <1>2, <2>1, <2>2, <2>5, ImageUnchanged, FileUnchanged
  <2> QED
    BY <1>1, <1>2, <2>1, <2>6, ImagesKept DEF ObjectMade, OnlyWrapped
<1>6. CASE ApplyFixup
  <2>1. /\ load = "apply" /\ load' = load /\ oi' = oi /\ image' = image
        /\ sites # {} /\ sites' = sites \ {NextSite}
        /\ WordBytes(NextSite) \subseteq DOMAIN data
        /\ data' = [k \in DOMAIN data |->
                      IF k \in WordBytes(NextSite)
                      THEN TargetByte(fixups[oi][NextSite], k - NextSite) ELSE data[k]]
    BY <1>6 DEF ApplyFixup
  <2>2. oi \in Objects /\ AppliedTo(oi, sites, data)
    BY <1>1, <2>1 DEF ObjectMade
  <2>3. AppliedTo(oi, sites', data')
    BY <1>1, <2>1, <2>2, NextFixup
  <2>4. oi' \in Objects' /\ AppliedTo(oi, sites, data)'
    BY <1>2, <2>1, <2>2, <2>3, ImageUnchanged, FileUnchanged
  <2> QED
    BY <1>1, <1>2, <2>1, <2>4, ImagesKept DEF ObjectMade, OnlyWrapped
<1>7. CASE WriteOutside
  <2>1. /\ load = "apply" /\ load' = "undefined" /\ oi' = oi /\ image' = image
        /\ sites # {} /\ ~ IsRefused(NextSite)
        /\ ~ WordBytes(NextSite) \subseteq DOMAIN data
    BY <1>7 DEF WriteOutside
  <2>2. PICK o \in Objects : o = oi
    BY <1>1, <2>1 DEF ObjectMade
  <2>3. AppliedTo(o, sites, data)
    BY <1>1, <2>1, <2>2 DEF ObjectMade
  <2>4. DOMAIN data = ObjectBytes(o) /\ sites \subseteq DOMAIN fixups[o]
    BY <2>3 DEF AppliedTo, BytesWith
  <2>5. NextSite \in sites
    <3>1. sites \subseteq Nat
      BY <1>1, <1>2, <2>4, LoadedFacts, AddrSpaceAssumption
    <3>2. \E x \in sites : \A y \in sites : x <= y
      BY <2>1, <3>1, LeastNat
    <3> QED
      BY <3>2 DEF NextSite
  <2>6. PICK x \in RecordsOf(o) : NextSite = OffsetOf(o, x)
    BY <1>1, <1>2, <2>4, <2>5, LoadedFacts
  <2>7. PlaceOf(o, x) \notin 0 .. AddrSpace - WordSize - 1
    BY <1>1, <1>2, <2>1, <2>2, <2>4, <2>6, RefusalExact
  <2>8. x \in RecordsOf(o)' /\ PlaceOf(o, x)' = PlaceOf(o, x)
    BY <1>2, FileUnchanged
  <2>9. OnlyWrapped'
    BY <2>1, <2>2, <2>7, <2>8 DEF OnlyWrapped
  <2> QED
    BY <1>1, <1>2, <2>1, <2>9, ImagesKept DEF ObjectMade
<1>8. CASE ReadError \/ RefuseToApply \/ ImageDone
  <2>1. load' \in {"no_image", "done"} /\ oi' = oi /\ image' = image
    BY <1>8 DEF ReadError, RefuseToApply, ImageDone
  <2> QED
    BY <1>1, <1>2, <2>1, ImagesKept DEF ObjectMade, OnlyWrapped
<1>9. CASE FixupsApplied
  <2>1. /\ load = "apply" /\ load' = "image" /\ oi' = oi + 1
        /\ sites = {} /\ image' = Append(image, data)
    BY <1>9 DEF FixupsApplied
  <2>2. oi \in Objects /\ AppliedTo(oi, sites, data)
    BY <1>1, <2>1 DEF ObjectMade
  <2>3. PICK n \in Nat : n = oi - 1 /\ oi = n + 1 /\ oi' = n + 2
    BY <1>1, <2>1, <2>2, FileFacts DEF LoadInv
  <2>4. /\ image = [o \in 1 .. n |-> BytesWith(o, DOMAIN fixups[o])]
        /\ \A o \in 1 .. n : Written(o, DOMAIN fixups[o])
    BY <1>1, <1>2, <2>3 DEF ImagesMade
  <2>5. /\ data = BytesWith(n + 1, DOMAIN fixups[n + 1])
        /\ Written(n + 1, DOMAIN fixups[n + 1])
    <3>1. DOMAIN fixups[oi] \ sites = DOMAIN fixups[oi]
      BY <2>1
    <3> QED
      BY <2>2, <2>3, <3>1 DEF AppliedTo
  <2>6. image = [o \in 1 .. n |-> image[o]]
    BY <2>4
  <2>7. image' = [o \in 1 .. n + 1 |-> IF o <= n THEN image[o] ELSE data]
    BY <2>1, <2>6, AppendTo
  <2>8. ASSUME NEW o \in 1 .. n + 1
        PROVE  /\ (IF o <= n THEN image[o] ELSE data) = BytesWith(o, DOMAIN fixups[o])
               /\ Written(o, DOMAIN fixups[o])
    <3>1. CASE o \in 1 .. n
      BY <2>4, <3>1
    <3>2. CASE o = n + 1
      <4>1. ~ (o <= n)
        BY <2>3, <3>2
      <4> QED
        BY <2>5, <3>2, <4>1
    <3> QED
      BY <2>3, <3>1, <3>2
  <2>9. ASSUME NEW o
        PROVE  /\ BytesWith(o, DOMAIN fixups[o])' = BytesWith(o, DOMAIN fixups[o])
               /\ Written(o, DOMAIN fixups[o])' <=> Written(o, DOMAIN fixups[o])
    BY <1>2, ImageUnchanged
  <2>10. oi' - 1 = n + 1
    BY <2>3
  <2>11. image' = [o \in 1 .. oi' - 1 |-> BytesWith(o, DOMAIN fixups[o])']
    BY <2>7, <2>8, <2>9, <2>10
  <2>12. \A o \in 1 .. oi' - 1 : Written(o, DOMAIN fixups[o])'
    BY <2>8, <2>9, <2>10
  <2>13. oi' \in 1 .. Len(file'.objects) + 1
    BY <1>1, <1>2, <2>2, <2>3, FileFacts DEF LoadInv
  <2> QED
    BY <1>2, <2>1, <2>11, <2>12, <2>13 DEF ImagesMade, ObjectMade, OnlyWrapped
<1> QED
  BY <1>3, <1>4, <1>5, <1>6, <1>7, <1>8, <1>9 DEF create_image, apply_fixups

LEMMA ImageStuttersKeep ==
    ASSUME ImageInv, UNCHANGED ivars
    PROVE  ImagesMade' /\ ObjectMade' /\ OnlyWrapped'
<1>1. /\ file' = file /\ load' = load /\ fixups' = fixups /\ oi' = oi /\ page' = page
      /\ data' = data /\ data_off' = data_off /\ sites' = sites /\ image' = image
  BY DEF ivars
<1>2. ImagesMade /\ ObjectMade /\ OnlyWrapped
  BY DEF ImageInv
<1>3. ImagesMade'
  <2>1. CASE load \in Later
    BY <1>1, <1>2, <2>1, ImagesKept
  <2>2. CASE load \notin Later
    BY <1>1, <1>2, <2>2 DEF ImagesMade
  <2> QED
    BY <2>1, <2>2
<1>4. ObjectMade'
  BY <1>1, <1>2, ImageUnchanged, FileUnchanged DEF ObjectMade
<1>5. OnlyWrapped'
  BY <1>1, <1>2, FileUnchanged DEF OnlyWrapped
<1> QED
  BY <1>3, <1>4, <1>5

LEMMA ImageInvariant == ImageSpec => []ImageInv
<1>1. ImageInv /\ [ImageNext]_ivars => ImageInv'
  <2> SUFFICES ASSUME ImageInv, [ImageNext]_ivars PROVE ImageInv'
    OBVIOUS
  <2>1. LoadInv'
    BY LoadSteps DEF ImageInv
  <2>2. ImagesMade' /\ ObjectMade' /\ OnlyWrapped'
    BY LoaderStepsMakeNothing, ObjectSteps, ImageStuttersKeep DEF ImageNext
  <2> QED
    BY <2>1, <2>2 DEF ImageInv
<1> QED
  BY <1>1, ImageBegins, PTL DEF ImageSpec

\* Every byte of a finished object is the byte of the page it belongs to, zero
\* behind the pages, or a byte of the fixup that starts last before it.
THEOREM ImageBytes == ImageSpec => []ImageExact
<1>1. ASSUME ImageInv PROVE ImageExact
  <2>1. ASSUME NEW o \in DOMAIN image
        PROVE  image[o] = BytesWith(o, DOMAIN fixups[o])
    <3>1. load \in Later
      BY <1>1, <2>1 DEF ImageInv, ImagesMade
    <3> QED
      BY <1>1, <2>1, <3>1 DEF ImageInv, ImagesMade
  <2>2. ASSUME NEW o \in DOMAIN image
        PROVE  /\ DOMAIN image[o] = 0 .. file.objects[o].size - 1
               /\ \A k \in DOMAIN image[o] : image[o][k] = ByteWith(o, DOMAIN fixups[o], k)
    BY <2>1 DEF BytesWith, ObjectBytes
  <2> QED
    BY <2>2, Zenon DEF ImageExact, ByteWith, Latest
<1> QED
  BY <1>1, ImageInvariant, PTL

\* Fixups are written into their objects, and refused otherwise, except where
\* the sum of offset and word size wraps.
THEOREM FixupsWrittenInside == ImageSpec => []WritesInside
<1>1. ASSUME ImageInv PROVE WritesInside
  <2>1. ASSUME NEW o \in DOMAIN image PROVE Written(o, DOMAIN fixups[o])
    <3>1. load \in Later
      BY <1>1, <2>1 DEF ImageInv, ImagesMade
    <3>2. DOMAIN image = 1 .. oi - 1
      BY <1>1, <3>1 DEF ImageInv, ImagesMade
    <3> QED
      BY <1>1, <2>1, <3>1, <3>2 DEF ImageInv, ImagesMade
  <2> QED
    BY <1>1, <2>1 DEF WritesInside, Written, ObjectBytes, ImageInv, OnlyWrapped
<1> QED
  BY <1>1, ImageInvariant, PTL

-----------------------------------------------------------------------------
(* What the printer counts on. *)

\* Each relocated word is in its object, and holds its target, unless another
\* one lies over the end of it: ImageRelocated of Printer, of the bytes the
\* loader makes.
WordsRelocated ==
    \A o \in DOMAIN image : \A off \in DOMAIN fixups[o] :
        /\ off + WordSize <= file.objects[o].size
        /\ \/ \A k \in 0 .. WordSize - 1 :
                image[o][off + k] = TargetByte(fixups[o][off], k)
           \/ \E s \in DOMAIN fixups[o] : off < s /\ s < off + WordSize

\* The last one that has a byte in its word is the one looked for.
LEMMA LatestIs ==
    ASSUME NEW over \in SUBSET Int, NEW off \in over, \A y \in over : y <= off
    PROVE  Latest(over) = off
<1>1. \A x \in over : (\A y \in over : y <= x) => x = off
  OBVIOUS
<1>2. Latest(over) \in over /\ \A y \in over : y <= Latest(over)
  BY DEF Latest
<1> QED
  BY <1>1, <1>2

\* create_image and apply_fixups leave an image from which the words that are
\* relocated can be read back (le_image.cpp:27-111).
THEOREM ImageIsRelocated == ImageSpec => []WordsRelocated
<1>1. ASSUME ImageInv PROVE WordsRelocated
  <2> SUFFICES ASSUME NEW o \in DOMAIN image, NEW site \in DOMAIN fixups[o]
               PROVE  /\ site + WordSize <= file.objects[o].size
                      /\ \/ \A k \in 0 .. WordSize - 1 :
                               image[o][site + k] = TargetByte(fixups[o][site], k)
                         \/ \E s \in DOMAIN fixups[o] : site < s /\ s < site + WordSize
    BY DEF WordsRelocated
  <2>1. load \in Later
    BY <1>1 DEF ImageInv, ImagesMade
  <2>2. /\ oi \in 1 .. Len(file.objects) + 1
        /\ image = [i \in 1 .. oi - 1 |-> BytesWith(i, DOMAIN fixups[i])]
        /\ \A i \in 1 .. oi - 1 : Written(i, DOMAIN fixups[i])
    BY <1>1, <2>1 DEF ImageInv, ImagesMade
  <2>3. o \in 1 .. oi - 1 /\ image[o] = BytesWith(o, DOMAIN fixups[o])
    BY <2>2
  <2>4. file \in Files /\ LoadInv
    BY <1>1 DEF ImageInv, LoadInv
  <2>5. Objects = 1 .. Len(file.objects) /\ Len(file.objects) \in Nat
    BY <2>4, FilesAssumption DEF IsFile, Objects
  <2>6. o \in Objects
    BY <2>2, <2>3, <2>5
  <2>7. /\ file.objects[o].size \in Nat
        /\ DOMAIN fixups[o] \subseteq Nat
    BY <2>1, <2>4, <2>6, LoadedFacts, AddrSpaceAssumption
  <2>8. WordBytes(site) \subseteq ObjectBytes(o)
    BY <2>2, <2>3 DEF Written
  <2>9. site + WordSize <= file.objects[o].size
    <3>1. site + WordSize - 1 \in WordBytes(site)
      BY <2>7, WordSizeAssumption DEF WordBytes
    <3> QED
      BY <2>7, <2>8, <3>1, WordSizeAssumption DEF ObjectBytes
  <2>10. ASSUME \A s \in DOMAIN fixups[o] : ~ (site < s /\ s < site + WordSize),
                NEW k \in 0 .. WordSize - 1
         PROVE  image[o][site + k] = TargetByte(fixups[o][site], k)
    <3>0. PICK over : over = {off \in DOMAIN fixups[o] : site + k \in WordBytes(off)}
      OBVIOUS
    <3>1. site + k \in WordBytes(site) /\ (site + k) - site = k
      BY <2>7, WordSizeAssumption DEF WordBytes
    <3>2. over \in SUBSET Int /\ site \in over
      BY <2>7, <3>0, <3>1
    <3>3. \A s \in over : s <= site
      <4>1. \A s \in over : s \in Nat /\ s <= site + k
        BY <2>7, <3>0, WordSizeAssumption DEF WordBytes
      <4> QED
        BY <2>7, <2>10, <3>0, <4>1, WordSizeAssumption
    <3>4. Latest(over) = site
      BY <3>2, <3>3, LatestIs
    <3>5. image[o][site + k] = ByteWith(o, DOMAIN fixups[o], site + k)
      BY <2>3, <2>8, <3>1 DEF BytesWith
    <3>6. ByteWith(o, DOMAIN fixups[o], site + k)
            = IF over = {} THEN PageByte(o, site + k)
              ELSE TargetByte(fixups[o][Latest(over)], (site + k) - Latest(over))
      BY <3>0 DEF ByteWith
    <3> QED
      BY <3>1, <3>2, <3>4, <3>5, <3>6
  <2> QED
    BY <2>9, <2>10
<1> QED
  BY <1>1, ImageInvariant, PTL

=============================================================================
