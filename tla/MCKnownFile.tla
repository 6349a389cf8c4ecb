---------------------------- MODULE MCKnownFile ----------------------------
(***************************************************************************)
(* Small recognised and unrecognised files: code at 1..9 with an island of *)
(* known data or two, data at 11..12, one relocation into the code.        *)
(***************************************************************************)
EXTENDS KnownFile

Inst(size, type, t) == [size |-> size, type |-> type, target |-> t]

Object(base, size, exec) == [base |-> base, size |-> size, exec |-> exec]

KnownObjects == <<Object(1, 9, TRUE), Object(11, 2, FALSE)>>

KnownText ==
    [a \in 1 .. 12 |->
        CASE a = 1 -> {Inst(2, "MISC", 0), Inst(2, "JUMP", 8)}
          [] a = 2 -> {Inst(1, "RET", 0)}
          [] a = 3 -> {Inst(1, "MISC", 0), Inst(2, "COND_JUMP", 5)}
          [] a = 4 -> {Inst(1, "MISC", 0), Inst(1, "JUMP", 1)}
          [] a = 5 -> {Inst(1, "RET", 0), Inst(1, "CALL", 9)}
          [] a = 6 -> {Inst(1, "MISC", 0), Inst(3, "MISC", 0)}
          [] a = 7 -> {Inst(2, "MISC", 0), Inst(2, "CALL", 4)}
          [] a = 8 -> {Inst(1, "COND_JUMP", 1), Inst(1, "RET", 0)}
          [] a = 9 -> {Inst(1, "RET", 0), Inst(2, "CALL", 11)}
          [] OTHER -> {Inst(1, "MISC", 0)}]

Data(address, size) == [address |-> address, size |-> size, type |-> "DATA"]

KnownLabel(address, type, named) ==
    [address |-> address, label |-> [type |-> type, named |-> named]]

NoTables == [regions |-> <<>>, labels |-> <<>>, removed |-> {}]

Tables ==
    {NoTables,
     [regions |-> <<Data(4, 2), Data(7, 1)>>,
      labels |-> <<KnownLabel(6, "JUMP", FALSE), KnownLabel(1, "FUNCTION", TRUE)>>,
      removed |-> {1}],
     [regions |-> <<Data(1, 2), Data(9, 1)>>,
      labels |-> <<KnownLabel(10, "FUNCTION", FALSE), KnownLabel(3, "JUMP", FALSE),
                   KnownLabel(3, "FUNCTION", TRUE)>>,
      removed |-> {3}],
     [regions |-> <<Data(5, 3)>>,
      labels |-> <<KnownLabel(6, "FUNCTION", FALSE)>>, removed |-> {}]}

KnownExecutable(target, off, known, table) ==
    [objects |-> KnownObjects,
      fixups |-> <<[o \in {} |-> 0], [o \in {0} |-> target]>>,
     eip_object |-> 1, eip_offset |-> off, text |-> KnownText,
     words |-> [a \in 1 .. 12 |-> IF a = 11 THEN target ELSE 5],
     stray |-> {6}, known |-> known, known_regions |-> table.regions,
     known_labels |-> table.labels, removed |-> table.removed]

KnownExecutables ==
    {KnownExecutable(target, off, TRUE, table) :
        target \in {5, 8}, off \in {0, 2, 5}, table \in Tables}
    \cup {KnownExecutable(target, 0, FALSE, NoTables) : target \in {5, 8}}

=============================================================================
