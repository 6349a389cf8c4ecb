------------------------------ MODULE MCLoader ------------------------------
(***************************************************************************)
(* Small files for the loader: pages of four bytes, words of two, objects  *)
(* at 4 and 16.  One set varies where the header is and what the file      *)
(* lacks, the other the tables and the fixup records.                      *)
(***************************************************************************)
EXTENDS LeImage, TLC

Record(kind, src, object, dst) ==
    [source |-> kind, src_off |-> src, object |-> object, dst_off |-> dst]

Reloc(src, dst) == Record("offset32", src, 2, dst)

Obj(size, base, first, pages) ==
    [size |-> size, base |-> base, first_page |-> first, pages |-> pages]

Pages(count, kind) ==
    [p \in 1 .. count |->
        [type |-> IF p = 2 THEN kind ELSE 0, number |-> IF p = 1 THEN 7 ELSE p]]

Tables(objs, last, types, recs, rest) ==
    [page_size |-> 4, last_page_size |-> last, objects |-> objs,
     pages |-> types, records |-> recs, remainder |-> rest]

Header(id, new_format, place, dos4g, sigs, little, version) ==
    [id |-> id, new_format |-> new_format, new_header |-> place,
     dos4g |-> dos4g, signatures |-> sigs,
     le_at |-> sigs \cup {8} \cup (IF id \in {"LE", "LX"} THEN {0} ELSE {}),
     little |-> little, version |-> version]

Lacking(parts, numbers) == [missing |-> parts, missing_data |-> numbers]

LEHeader == Header("LE", FALSE, 0, FALSE, {}, TRUE, 0)

OneObject(recs) ==
    Tables(<<Obj(4, 4, 1, 1), Obj(4, 16, 0, 0)>>, 4, Pages(1, 0), <<recs>>, {})

\* Where the header is, and what is missing.
HeaderFiles ==
    {Header(id, new, place, dos4g, sigs, order[1], order[2])
        @@ OneObject(recs) @@ Lacking(parts, {}) :
      id \in {"LE", "LX", "MZ", "other"}, new \in BOOLEAN, place \in {0, 2, 8},
      dos4g \in BOOLEAN, sigs \in {{}, {12}, {6, 12}, {12, 18}},
      order \in {<<TRUE, 0>>, <<FALSE, 0>>, <<TRUE, 1>>},
      recs \in {<<>>, <<Reloc(1, 0)>>},
      parts \in {{}} \cup {{p} : p \in Parts}}

\* Objects that follow each other in the file, the second without pages, with
\* fewer bytes than their pages and with more, and in another order.  Two claim
\* pages from page 0 on and more pages than there are.  In the last two tables
\* the sum of the first page and their number wraps: the first object's last
\* page would be the 64th, one too many, and the second's end comes to page 2.
ObjectTables ==
    {<<Obj(7, 4, 1, 2), Obj(3, 16, 3, 1)>>,
     <<Obj(10, 4, 1, 2), Obj(4, 16, 0, 0)>>,
     <<Obj(5, 4, 2, 2), Obj(6, 16, 1, 1)>>,
     <<Obj(6, 4, 1, 2), Obj(4, 16, 0, 2)>>,
     <<Obj(8, 4, 1, 1), Obj(6, 16, 3, 2)>>,
     <<Obj(6, 4, 2, 63), Obj(4, 16, 1, 2)>>,
     <<Obj(6, 4, 1, 2), Obj(6, 16, 3, 63)>>}

SomeRecords ==
    {<<>>} \cup {<<Reloc(src, 1)>> : src \in -3 .. 3}
    \cup {<<Reloc(0, 0), Reloc(1, 2)>>, <<Reloc(1, 0), Reloc(1, 2)>>,
          <<Reloc(0, 3), Record("offset32", 2, 1, 0)>>}

UnreadRecords ==
    {<<Reloc(0, 1), Record("list", 2, 1, 0)>>, <<Record("other", 1, 1, 0)>>,
     <<Record("offset32", 1, 0, 0)>>, <<Record("offset32", 1, 3, 0)>>}

RecordFiles ==
    {LEHeader @@ Tables(objs, last, Pages(3, 0), <<r1, r2, r3>>, {}) @@ Lacking({}, {}) :
      objs \in ObjectTables, last \in {2, 4},
      r1 \in SomeRecords, r2 \in SomeRecords,
      r3 \in {<<>>, <<Reloc(-1, 1)>>, <<Reloc(1, 1)>>, <<Reloc(3, 1)>>}}
    \cup
    {LEHeader @@ Tables(objs, 2, Pages(3, kind), <<r1, r2, <<>>>>, rest)
        @@ Lacking({}, numbers) :
      objs \in ObjectTables, kind \in {0, 3, 5},
      r1 \in {<<>>, <<Reloc(-1, 0)>>}, r2 \in {<<Reloc(1, 1)>>} \cup UnreadRecords,
      rest \in {{}, {1}, {2}, {3}}, numbers \in {{}, {2}, {3}, {7}}}

LoaderFiles == HeaderFiles \cup RecordFiles

=============================================================================
