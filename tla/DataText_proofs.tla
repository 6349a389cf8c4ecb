--------------------------- MODULE DataText_proofs ---------------------------
(***************************************************************************)
(* The text of a region of data: whatever the pieces it is cut into and    *)
(* the lines it is written on, an assembler reads the region back from it. *)
(***************************************************************************)
EXTENDS DataText, Basics_proofs, SequenceTheorems

LEMMA Sizes ==
    /\ AddrSpace \in Nat \ {0} /\ WordSize \in Nat \ {0}
    /\ MinRun \in Nat \ {0} /\ LineBytes \in Nat \ {0}
BY SizesAssumption

-----------------------------------------------------------------------------
(* Relocated words.                                                        *)

\* read_le, digit by digit: a word of some bytes is the first of them in
\* front of the word of the others.
Digits(v, a) ==
    /\ v \in [0 .. WordSize -> Nat]
    /\ v[0] = 0
    /\ \A n \in 1 .. WordSize : v[n] = data.bytes[a + WordSize - n] + 256 * v[n - 1]

LEMMA WordDigits ==
    ASSUME NEW a \in Nat, \A n \in 1 .. WordSize : data.bytes[a + WordSize - n] \in 0 .. 255
    PROVE  \E v : Digits(v, a) /\ Word(a) = v[WordSize]
<1> DEFINE W == WordSize
           Eq(f) == f = [n \in 0 .. W |-> IF n = 0 THEN 0
                                         ELSE data.bytes[a + W - n] + 256 * f[n - 1]]
<1>0. W \in Nat \ {0}
  BY Sizes
<1>1. PICK step :
        step = [n \in 1 .. W |-> [x \in Nat |-> data.bytes[a + W - n] + 256 * x]]
  OBVIOUS
<1>2. step \in [1 .. W -> [Nat -> Nat]]
  <2>1. ASSUME NEW n \in 1 .. W
        PROVE  [x \in Nat |-> data.bytes[a + W - n] + 256 * x] \in [Nat -> Nat]
    <3> PICK b \in Nat : b = data.bytes[a + W - n]
      BY SMTT(60)
    <3>1. \A x \in Nat : b + 256 * x \in Nat
      OBVIOUS
    <3> QED
      BY <3>1
  <2> QED
    BY <1>1, <2>1
<1>3. PICK f \in [0 .. W -> Nat] :
        f[0] = 0 /\ \A n \in 1 .. W : f[n] = step[n][f[n - 1]]
  <2>1. W \in Nat
    BY <1>0
  <2> QED
    BY <1>2, <2>1, Recursion
<1>5. Eq(f)
  <2>1. ASSUME NEW n \in 0 .. W
        PROVE  f[n] = IF n = 0 THEN 0 ELSE data.bytes[a + W - n] + 256 * f[n - 1]
    <3>1. CASE n = 0
      BY <1>3, <3>1
    <3>2. CASE n # 0
      <4>1. n \in 1 .. W /\ f[n - 1] \in Nat
        BY <1>0, <3>2
      <4>2. step[n] = [x \in Nat |-> data.bytes[a + W - n] + 256 * x]
        BY <1>1, <4>1
      <4> QED
        BY <1>3, <3>2, <4>1, <4>2
    <3> QED
      BY <3>1, <3>2
  <2> QED
    BY <1>3, <2>1
<1>6. PICK v : v = CHOOSE h : Eq(h)
  OBVIOUS
<1>7. Eq(v) /\ Word(a) = v[W]
  BY <1>5, <1>6, ZenonT(60) DEF Word
<1>8. v \in [0 .. W -> Nat]
  <2> DEFINE Good == {n \in 0 .. W : v[n] \in Nat}
  <2>1. 0 \in Good
    BY <1>0, <1>7
  <2>2. ASSUME NEW n \in 1 .. W, n - 1 \in Good PROVE n \in Good
    <3>1. n \in 0 .. W /\ n # 0
      BY <1>0
    <3>2. v[n] = data.bytes[a + W - n] + 256 * v[n - 1]
      BY <1>7, <3>1
    <3>3. PICK x \in Nat : x = v[n - 1]
      BY <2>2
    <3>4. PICK b \in 0 .. 255 : b = data.bytes[a + W - n]
      BY <1>0
    <3>5. b + 256 * x \in Nat
      OBVIOUS
    <3> QED
      BY <3>1, <3>2, <3>3, <3>4, <3>5
  <2>3. 0 .. W \subseteq Good
    <3> HIDE DEF Good
    <3> QED
      BY <1>0, <2>1, <2>2, InductionUpTo
  <2> QED
    BY <1>7, <2>3
<1>9. v[0] = 0
  BY <1>0, <1>7
<1>10. ASSUME NEW n \in 1 .. W PROVE v[n] = data.bytes[a + W - n] + 256 * v[n - 1]
  <2>1. n \in 0 .. W /\ n # 0
    BY <1>0
  <2> QED
    BY <1>7, <2>1
<1>11. Digits(v, a)
  BY <1>8, <1>9, <1>10 DEF Digits
<1> QED
  BY <1>7, <1>11

\* The assembler takes the digits of a word off again.
LEMMA WordBack ==
    ASSUME NEW a \in Nat, \A n \in 1 .. WordSize : data.bytes[a + WordSize - n] \in 0 .. 255
    PROVE  WordBytes(Word(a)) = BytesFrom(a, WordSize)
<1> DEFINE W == WordSize
           Eq(f) == f = [k \in 0 .. WordSize |->
                            IF k = 0 THEN Word(a) ELSE f[k - 1] \div 256]
<1>0. W \in Nat \ {0}
  BY Sizes
<1>1. PICK v : Digits(v, a) /\ Word(a) = v[W]
  BY WordDigits
<1>2. PICK f : f = [k \in 0 .. W |-> v[W - k]]
  OBVIOUS
<1>3. ASSUME NEW k \in 1 .. W
      PROVE  /\ v[W - (k - 1)] % 256 = data.bytes[a + k - 1]
             /\ v[W - (k - 1)] \div 256 = v[W - k]
             /\ v[W - k] \in Nat
  <2>1. PICK n \in 1 .. W : n = W - (k - 1)
    BY <1>0
  <2>2. v[n] = data.bytes[a + W - n] + 256 * v[n - 1] /\ v[n - 1] \in Nat
    BY <1>0, <1>1, <2>1 DEF Digits
  <2>3. n - 1 = W - k /\ a + W - n = a + k - 1
    BY <1>0, <2>1
  <2>4. data.bytes[a + W - n] \in 0 .. 255
    OBVIOUS
  <2>5. PICK q \in Nat, r \in 0 .. 255 : q = v[n - 1] /\ r = data.bytes[a + W - n]
    BY <2>2, <2>4
  <2>6. v[n] = q * 256 + r
    BY <2>2, <2>5
  <2>7. (q * 256 + r) \div 256 = q /\ (q * 256 + r) % 256 = r
    OBVIOUS
  <2> QED
    BY <2>1, <2>2, <2>3, <2>5, <2>6, <2>7
<1>4. Eq(f)
  <2>1. ASSUME NEW k \in 0 .. W
        PROVE  f[k] = IF k = 0 THEN Word(a) ELSE f[k - 1] \div 256
    <3>1. CASE k = 0
      BY <1>0, <1>1, <1>2, <3>1
    <3>2. CASE k # 0
      <4>1. k \in 1 .. W /\ k - 1 \in 0 .. W
        BY <1>0, <3>2
      <4>2. f[k] = v[W - k] /\ f[k - 1] = v[W - (k - 1)]
        BY <1>2, <4>1
      <4> QED
        BY <1>3, <3>2, <4>1, <4>2
    <3> QED
      BY <3>1, <3>2
  <2> QED
    BY <1>2, <2>1
<1>5. PICK g : g = Shifted(Word(a))
  OBVIOUS
<1>6. Eq(g)
  <2>1. g = CHOOSE h : Eq(h)
    BY <1>5 DEF Shifted
  <2> HIDE DEF Eq
  <2> QED
    BY <1>4, <2>1
<1>7. \A k \in 0 .. W : g[k] = f[k]
  <2> DEFINE Same == {k \in 0 .. W : g[k] = f[k]}
  <2>1. 0 \in Same
    BY <1>0, <1>4, <1>6
  <2>2. ASSUME NEW k \in 1 .. W, k - 1 \in Same PROVE k \in Same
    <3>1. k \in 0 .. W /\ k # 0
      BY <1>0
    <3>2. g[k] = g[k - 1] \div 256
      BY <1>6, <3>1
    <3>3. f[k] = f[k - 1] \div 256
      BY <1>4, <3>1
    <3> QED
      BY <2>2, <3>1, <3>2, <3>3
  <2>3. 0 .. W \subseteq Same
    <3> HIDE DEF Same
    <3> QED
      BY <1>0, <2>1, <2>2, InductionUpTo
  <2> QED
    BY <2>3
<1>8. \A k \in 1 .. W : g[k - 1] % 256 = data.bytes[a + k - 1]
  BY <1>0, <1>2, <1>3, <1>7
<1> QED
  BY <1>5, <1>8 DEF BytesFrom, WordBytes

-----------------------------------------------------------------------------
(* The inductive invariant.                                                *)

Octets == Seq(0 .. 255)

Refs == SUBSET Int

Items == [address : Int, size : Nat, refs : Refs]

Texts == [bytes : Seq(0 .. 255), labels : SUBSET (Int \X Int), items : Seq(Items),
          open : BOOLEAN, ok : BOOLEAN]

\* Where a piece may end: the labels and the relocated words.
Marks == data.labels \cup {data.base + o : o \in data.fixups}

\* A piece goes no further than the region and the next of these places, and
\* as long as some of it is left it goes that far.
PieceFits ==
    /\ addr + len <= data.end
    /\ \A a \in addr + 1 .. addr + len - 1 : a \notin Marks
    /\ len > 0 => addr + len \in Marks \cup {data.end}

\* The labels up to here, the one in front of a piece with the piece.
LabelsDefined ==
    {a \in LabelsInside : a < addr \/ (a = addr /\ loop \in {"piece", "aborted"} /\ len > 0)}

\* The relocated words that are written as addresses.
AddressWords ==
    {a \in data.start .. data.end - WordSize :
      /\ Offset(a) \in data.fixups
      /\ \A b \in a + 1 .. a + WordSize - 1 : b \notin data.labels /\ Offset(b) \notin data.fixups}

\* The addresses among the items.
Referring(items) ==
    {items[i].address : i \in {j \in DOMAIN items : items[j].refs # {}}}

TextInv ==
    /\ data \in DataRegions
    /\ loop \in {"lines", "piece", "after", "aborted"}
    /\ addr \in data.start .. data.end
    /\ len \in Nat
    /\ loop = "lines" => len = 0
    /\ loop = "after" => len = 0 /\ addr = data.end
    /\ loop \in {"piece", "aborted"} => PieceFits
    /\ bytes_in_line \in 0 .. LineBytes - 1
    /\ text \in Texts
    /\ text.ok
    /\ text.open = (loop # "after" /\ bytes_in_line > 0)
    /\ text.bytes = BytesFrom(data.start, addr - data.start)
    /\ text.labels = {<<a, a - data.start>> : a \in LabelsDefined}
    /\ Referring(text.items) = {a \in AddressWords : a < addr}

-----------------------------------------------------------------------------
(* Writing.                                                                *)

LEMMA ReferringAppend ==
    ASSUME NEW items \in Seq(Items), NEW e \in Items
    PROVE  /\ Append(items, e) \in Seq(Items)
           /\ e.refs = {} => Referring(Append(items, e)) = Referring(items)
           /\ e.refs # {} => Referring(Append(items, e)) = Referring(items) \cup {e.address}
<1>1. PICK n \in Nat : n = Len(items) /\ DOMAIN items = 1 .. n
  OBVIOUS
<1>2. PICK s : s = Append(items, e)
  OBVIOUS
<1>3. /\ s \in Seq(Items) /\ DOMAIN s = 1 .. n + 1
      /\ \A i \in 1 .. n : s[i] = items[i]
      /\ s[n + 1] = e
  BY <1>1, <1>2
<1>4. ASSUME NEW x PROVE x \in Referring(s) <=> \/ x \in Referring(items)
                                                \/ e.refs # {} /\ x = e.address
  <2>1. x \in Referring(s) <=> \E i \in 1 .. n + 1 : s[i].refs # {} /\ x = s[i].address
    BY <1>3 DEF Referring
  <2>2. x \in Referring(items)
          <=> \E i \in 1 .. n : items[i].refs # {} /\ x = items[i].address
    BY <1>1 DEF Referring
  <2>3. \A i \in 1 .. n + 1 : i \in 1 .. n \/ i = n + 1
    BY <1>1
  <2>4. 1 .. n \subseteq 1 .. n + 1 /\ n + 1 \in 1 .. n + 1
    BY <1>1
  <2> QED
    BY <1>3, <2>1, <2>2, <2>3, <2>4
<1> QED
  BY <1>2, <1>3, <1>4

Addressed(t, refs) == IF refs = {} THEN {} ELSE {data.start + Len(t.bytes)}

LEMMA DirectiveText ==
    ASSUME NEW t \in Texts, t.ok, ~ t.open, data.start \in Int,
           NEW bytes \in Octets, NEW refs \in Refs
    PROVE  /\ Directive(t, bytes, refs) \in Texts
           /\ Directive(t, bytes, refs).ok /\ ~ Directive(t, bytes, refs).open
           /\ Directive(t, bytes, refs).bytes = t.bytes \o bytes
           /\ Directive(t, bytes, refs).labels = t.labels
           /\ Referring(Directive(t, bytes, refs).items)
                = Referring(t.items) \cup Addressed(t, refs)
<1>0. PICK d : d = Directive(t, bytes, refs)
  OBVIOUS
<1>1. /\ t.bytes \in Seq(0 .. 255) /\ t.items \in Seq(Items)
      /\ t.labels \in SUBSET (Int \X Int)
  BY DEF Texts
<1>2. PICK e : e = Item(data.start + Len(t.bytes), Len(bytes), refs)
  OBVIOUS
<1>3. e \in Items /\ e.refs = refs /\ e.address = data.start + Len(t.bytes)
  BY <1>1, <1>2 DEF Item, Items, Octets, Refs
<1>4. /\ d = [bytes |-> t.bytes \o bytes, labels |-> t.labels, items |-> Append(t.items, e),
              open |-> FALSE, ok |-> TRUE]
  BY <1>0, <1>2 DEF Directive, Texts
<1>5. t.bytes \o bytes \in Seq(0 .. 255)
  BY <1>1 DEF Octets
<1>6. Append(t.items, e) \in Seq(Items)
  BY <1>1, <1>3, ReferringAppend
<1>7. d \in Texts
  BY <1>1, <1>4, <1>5, <1>6 DEF Texts
<1>8. d.ok /\ ~ d.open /\ d.bytes = t.bytes \o bytes /\ d.labels = t.labels
  BY <1>4
<1>9. d.items = Append(t.items, e)
  BY <1>4
<1> QED
  BY <1>0, <1>1, <1>3, <1>7, <1>8, <1>9, ReferringAppend, ZenonT(60) DEF Addressed

LEMMA QuotedText ==
    ASSUME NEW t \in Texts, t.ok, t.open, data.start \in Int,
           NEW byte \in 0 .. 255,
           NEW d, d = QuotedByte(t, byte)
    PROVE  /\ d \in Texts /\ d.ok /\ d.open
           /\ d.bytes = Append(t.bytes, byte) /\ d.labels = t.labels
           /\ Referring(d.items) = Referring(t.items)
<1>1. /\ t.bytes \in Seq(0 .. 255) /\ t.items \in Seq(Items)
      /\ t.labels \in SUBSET (Int \X Int)
  BY DEF Texts
<1>2. PICK e : e = Item(data.start + Len(t.bytes), 1, {})
  OBVIOUS
<1>3. e \in Items /\ e.refs = {}
  BY <1>1, <1>2 DEF Item, Items, Refs
<1>4. d = [bytes |-> Append(t.bytes, byte), labels |-> t.labels,
           items |-> Append(t.items, e), open |-> TRUE, ok |-> TRUE]
  BY <1>2 DEF QuotedByte, Texts
<1>5. Append(t.bytes, byte) \in Seq(0 .. 255)
  BY <1>1
<1>6. Append(t.items, e) \in Seq(Items) /\ Referring(Append(t.items, e)) = Referring(t.items)
  BY <1>1, <1>3, ReferringAppend
<1>7. d \in Texts
  BY <1>1, <1>4, <1>5, <1>6 DEF Texts
<1> QED
  BY <1>4, <1>6, <1>7

LEMMA LabelText ==
    ASSUME NEW t \in Texts, t.ok, ~ t.open, NEW a \in Int,
           \A l \in t.labels : l[1] # a,
           NEW d, d = print_label(t, a)
    PROVE  /\ d \in Texts /\ d.ok /\ ~ d.open /\ d.bytes = t.bytes
           /\ d.labels = t.labels \cup {<<a, Len(t.bytes)>>}
           /\ Referring(d.items) = Referring(t.items)
<1>1. /\ t.bytes \in Seq(0 .. 255) /\ t.items \in Seq(Items)
      /\ t.labels \in SUBSET (Int \X Int)
  BY DEF Texts
<1>2. PICK e : e = Item(a, 0, {})
  OBVIOUS
<1>3. e \in Items /\ e.refs = {}
  BY <1>2 DEF Item, Items, Refs
<1>4. d = [bytes |-> t.bytes, labels |-> t.labels \cup {<<a, Len(t.bytes)>>},
           items |-> Append(t.items, e), open |-> FALSE, ok |-> TRUE]
  BY <1>2 DEF print_label, Texts
<1>5. t.labels \cup {<<a, Len(t.bytes)>>} \in SUBSET (Int \X Int)
  BY <1>1
<1>6. Append(t.items, e) \in Seq(Items) /\ Referring(Append(t.items, e)) = Referring(t.items)
  BY <1>1, <1>3, ReferringAppend
<1>7. d \in Texts
  BY <1>1, <1>4, <1>5, <1>6 DEF Texts
<1> QED
  BY <1>4, <1>6, <1>7

LEMMA QuoteText ==
    ASSUME NEW t \in Texts, t.ok
    PROVE  /\ ~ t.open => /\ OpenQuote(t) \in Texts /\ OpenQuote(t).ok /\ OpenQuote(t).open
                          /\ OpenQuote(t).bytes = t.bytes /\ OpenQuote(t).labels = t.labels
                          /\ OpenQuote(t).items = t.items
           /\ t.open => /\ CloseQuote(t) \in Texts /\ CloseQuote(t).ok /\ ~ CloseQuote(t).open
                        /\ CloseQuote(t).bytes = t.bytes /\ CloseQuote(t).labels = t.labels
                        /\ CloseQuote(t).items = t.items
BY DEF OpenQuote, CloseQuote, Texts

LEMMA EndLineText ==
    ASSUME text \in Texts, text.ok, text.open = (bytes_in_line > 0),
           NEW t, t = EndLine(text)
    PROVE  /\ t \in Texts /\ t.ok /\ ~ t.open
           /\ t.bytes = text.bytes /\ t.labels = text.labels /\ t.items = text.items
<1>1. CASE bytes_in_line > 0
  BY <1>1, QuoteText DEF EndLine
<1>2. CASE ~ (bytes_in_line > 0)
  BY <1>2 DEF EndLine, Texts
<1> QED
  BY <1>1, <1>2

-----------------------------------------------------------------------------
(* Reading.                                                                *)

LEMMA DataFacts ==
    ASSUME data \in DataRegions
    PROVE  /\ data.base \in Nat /\ data.start \in Nat /\ data.end \in Nat
           /\ data.base <= data.start /\ data.start < data.end /\ data.end < AddrSpace
           /\ \A a \in data.start .. data.end - 1 : data.bytes[a] \in 0 .. 255
           /\ data.labels \subseteq Nat /\ data.fixups \subseteq Nat
BY DataAssumption DEF IsDataRegion

LEMMA BytesOf ==
    ASSUME data \in DataRegions, NEW a \in data.start .. data.end, NEW n \in Nat,
           a + n <= data.end
    PROVE  /\ BytesFrom(a, n) \in Seq(0 .. 255) /\ Len(BytesFrom(a, n)) = n
           /\ \A k \in 1 .. n : BytesFrom(a, n)[k] = data.bytes[a + k - 1]
<1>1. data.start \in Nat /\ data.end \in Nat
  BY DataFacts
<1>2. ASSUME NEW k \in 1 .. n PROVE data.bytes[a + k - 1] \in 0 .. 255
  <2>1. a + k - 1 \in data.start .. data.end - 1
    BY <1>1
  <2> QED
    BY <2>1, DataFacts
<1> QED
  BY <1>2 DEF BytesFrom

LEMMA BytesJoin ==
    ASSUME data \in DataRegions, NEW a \in data.start .. data.end,
           NEW n \in Nat, NEW m \in Nat, a + n + m <= data.end
    PROVE  BytesFrom(a, n) \o BytesFrom(a + n, m) = BytesFrom(a, n + m)
<1>1. data.start \in Nat /\ data.end \in Nat
  BY DataFacts
<1>2. PICK x \in Seq(0 .. 255) : x = BytesFrom(a, n)
  BY <1>1, BytesOf
<1>3. PICK y \in Seq(0 .. 255) : y = BytesFrom(a + n, m)
  <2>1. a + n \in data.start .. data.end
    BY <1>1
  <2> QED
    BY <1>1, <2>1, BytesOf
<1>4. PICK z \in Seq(0 .. 255) : z = BytesFrom(a, n + m)
  <2>1. n + m \in Nat /\ a + (n + m) <= data.end
    BY <1>1
  <2> QED
    BY <1>1, <2>1, BytesOf
<1>5. Len(x) = n /\ \A k \in 1 .. n : x[k] = data.bytes[a + k - 1]
  BY <1>1, <1>2, BytesOf
<1>6. Len(y) = m /\ \A k \in 1 .. m : y[k] = data.bytes[a + n + k - 1]
  <2>1. a + n \in data.start .. data.end
    BY <1>1
  <2> QED
    BY <1>1, <1>3, <2>1, BytesOf
<1>7. Len(z) = n + m /\ \A k \in 1 .. n + m : z[k] = data.bytes[a + k - 1]
  <2>1. n + m \in Nat /\ a + (n + m) <= data.end
    BY <1>1
  <2> QED
    BY <1>1, <1>4, <2>1, BytesOf
<1>8. /\ x \o y \in Seq(0 .. 255) /\ Len(x \o y) = n + m
      /\ \A k \in 1 .. n + m : (x \o y)[k] = IF k <= n THEN x[k] ELSE y[k - n]
  BY <1>5, <1>6, ConcatProperties, ZenonT(60)
<1>9. ASSUME NEW k \in 1 .. n + m PROVE (x \o y)[k] = z[k]
  <2>1. CASE k <= n
    <3>1. k \in 1 .. n
      BY <2>1
    <3>2. (x \o y)[k] = x[k]
      BY <1>8, <2>1
    <3> QED
      BY <1>5, <1>7, <3>1, <3>2
  <2>2. CASE ~ (k <= n)
    <3>1. k - n \in 1 .. m
      BY <2>2
    <3>2. (x \o y)[k] = y[k - n]
      BY <1>8, <2>2
    <3>3. a + n + (k - n) - 1 = a + k - 1
      BY <1>1
    <3> QED
      BY <1>6, <1>7, <3>1, <3>2, <3>3
  <2> QED
    BY <2>1, <2>2
<1>10. x \o y = z
  BY <1>7, <1>8, <1>9, SMTT(60)
<1> QED
  BY <1>2, <1>3, <1>4, <1>10

\* There is a run of any kind: the bytes up to the first of another.
LEMMA RunOfKind ==
    ASSUME len \in Nat, NEW K
    PROVE  /\ RunOf(K) \in 0 .. len
           /\ \A k \in 0 .. RunOf(K) - 1 : data.bytes[addr + k] \in K
           /\ RunOf(K) < len => data.bytes[addr + RunOf(K)] \notin K
<1> DEFINE Other == {n \in 0 .. len : n < len => data.bytes[addr + n] \notin K}
           Run(n) == /\ \A k \in 0 .. n - 1 : data.bytes[addr + k] \in K
                     /\ n < len => data.bytes[addr + n] \notin K
<1>1. len \in Other
  OBVIOUS
<1>2. PICK n \in Other : \A m \in Other : n <= m
  <2>1. Other \subseteq Nat
    OBVIOUS
  <2> HIDE DEF Other
  <2> QED
    BY <1>1, <2>1, LeastNat
<1>3. ASSUME NEW k \in 0 .. n - 1 PROVE data.bytes[addr + k] \in K
  <2>1. k \in 0 .. len /\ ~ (n <= k)
    OBVIOUS
  <2> QED
    BY <1>2, <2>1
<1>4. n \in 0 .. len /\ Run(n)
  BY <1>3
<1>5. RunOf(K) = CHOOSE m \in 0 .. len : Run(m)
  BY DEF RunOf
<1>6. RunOf(K) \in 0 .. len /\ Run(RunOf(K))
  <2> HIDE DEF Run
  <2> QED
    BY <1>4, <1>5
<1> QED
  BY <1>6

LEMMA NearestOf ==
    ASSUME NEW S, S \subseteq Nat, S # {}
    PROVE  Nearest(S) \in S /\ \A y \in S : Nearest(S) <= y
<1>1. \E x \in S : \A y \in S : x <= y
  BY LeastNat
<1> QED
  BY <1>1 DEF Nearest

\* What is written for a character is read as that character.
LEMMA EscapeReads ==
    ASSUME NEW c \in Characters
    PROVE  Readable(Escape(c)) /\ Character(Escape(c)) = c
<1>1. CASE c \in {9, 10, 13}
  BY <1>1 DEF Readable, Escape, Character
<1>2. CASE c \in {34, 92}
  BY <1>2 DEF Readable, Escape, Character
<1>3. CASE c \in 32 .. 126 /\ c \notin {34, 92}
  <2>1. c # 9 /\ c # 13 /\ c # 10
    BY <1>3
  <2>2. Escape(c) = <<c>>
    BY <1>3, <2>1 DEF Escape
  <2> QED
    BY <1>3, <2>2 DEF Readable, Character
<1> QED
  BY <1>1, <1>2, <1>3 DEF Characters

-----------------------------------------------------------------------------
(* Steps.                                                                  *)

\* No marks are inside a piece: a label or a relocation there would be one.
LEMMA Unmarked ==
    ASSUME data \in DataRegions, NEW a \in Int, a \notin Marks
    PROVE  a \notin data.labels /\ Offset(a) \notin data.fixups
<1>1. a - data.base \in data.fixups => a = data.base + (a - data.base)
  BY DataFacts
<1> QED
  BY <1>1 DEF Marks, Offset

\* Some bytes of a piece are printed, as an address if they are to be one.
Prints(size) ==
    /\ data' = data /\ loop' = loop /\ Advance(size)
    /\ bytes_in_line' \in 0 .. LineBytes - 1
    /\ text' \in Texts /\ text'.ok
    /\ text'.open = (bytes_in_line' > 0)
    /\ text'.bytes = text.bytes \o BytesFrom(addr, size)
    /\ text'.labels = text.labels
    /\ Referring(text'.items)
         = Referring(text.items) \cup {a \in AddressWords : addr <= a /\ a < addr + size}

LEMMA Printing ==
    ASSUME TextInv, loop = "piece", NEW size \in 1 .. len, Prints(size)
    PROVE  TextInv'
<1>0. /\ data' = data /\ loop' = loop /\ Advance(size)
      /\ bytes_in_line' \in 0 .. LineBytes - 1
      /\ text' \in Texts /\ text'.ok
      /\ text'.open = (bytes_in_line' > 0)
      /\ text'.bytes = text.bytes \o BytesFrom(addr, size)
      /\ text'.labels = text.labels
      /\ Referring(text'.items)
           = Referring(text.items) \cup {a \in AddressWords : addr <= a /\ a < addr + size}
  BY DEF Prints
<1>1. /\ data \in DataRegions /\ data.start \in Nat /\ data.end \in Nat /\ data.base \in Nat
      /\ addr \in data.start .. data.end /\ len \in Nat /\ len > 0
      /\ addr' = addr + size /\ len' = len - size
  BY <1>0, DataFacts DEF TextInv, Advance
<1>2. PieceFits
  BY DEF TextInv
<1>3. addr + size <= data.end
  BY <1>1, <1>2 DEF PieceFits
<1>4. Marks' = Marks
  BY <1>0 DEF Marks
<1>5. PieceFits'
  BY <1>0, <1>1, <1>2, <1>4 DEF PieceFits
<1>6. text'.bytes = BytesFrom(data.start, addr + size - data.start)
  <2>1. PICK n \in Nat : n = addr - data.start
    BY <1>1
  <2>2. BytesFrom(data.start, n) \o BytesFrom(data.start + n, size)
          = BytesFrom(data.start, n + size)
    <3>1. data.start \in data.start .. data.end /\ size \in Nat
          /\ data.start + n + size <= data.end
      BY <1>1, <1>3, <2>1
    <3> QED
      BY <1>1, <3>1, BytesJoin
  <2>3. data.start + n = addr /\ n + size = addr + size - data.start
    BY <1>1, <2>1
  <2>4. text.bytes = BytesFrom(data.start, n)
    BY <2>1 DEF TextInv
  <2> QED
    BY <1>0, <2>2, <2>3, <2>4
<1>7. (BytesFrom(data.start, addr - data.start))'
        = BytesFrom(data.start, addr + size - data.start)
  BY <1>0, <1>1 DEF BytesFrom
<1>8. LabelsDefined' = LabelsDefined
  <2>1. LabelsInside' = LabelsInside /\ LabelsInside \subseteq Int
    BY <1>0, <1>1 DEF LabelsInside
  <2>2. ASSUME NEW a \in LabelsInside
        PROVE  (a < addr \/ a = addr) <=> (a < addr + size \/ (a = addr + size /\ len - size > 0))
    <3>1. a \notin addr + 1 .. addr + len - 1
      BY <1>2 DEF PieceFits, Marks, LabelsInside
    <3>2. a \in Int /\ size \in Int /\ addr \in Int
      BY <1>1 DEF LabelsInside
    <3> QED
      BY <1>1, <3>1, <3>2
  <2>3. LabelsDefined = {a \in LabelsInside : a < addr \/ a = addr}
    BY <1>1 DEF LabelsDefined
  <2>4. LabelsDefined' = {a \in LabelsInside : a < addr + size
                                               \/ (a = addr + size /\ len - size > 0)}
    BY <1>0, <1>1, <2>1 DEF LabelsDefined
  <2> QED
    BY <2>2, <2>3, <2>4
<1>9. text'.labels = ({<<a, a - data.start>> : a \in LabelsDefined})'
  BY <1>0, <1>8 DEF TextInv
<1>10. AddressWords' = AddressWords /\ AddressWords \subseteq Int
  BY <1>0, <1>1 DEF AddressWords, Offset
<1>11. Referring(text'.items) = {a \in AddressWords : a < addr + size}
  <2>1. Referring(text.items) = {a \in AddressWords : a < addr}
    BY DEF TextInv
  <2>2. \A a \in AddressWords : a < addr + size <=> a < addr \/ (addr <= a /\ a < addr + size)
    BY <1>1, <1>10
  <2> QED
    BY <1>0, <2>1, <2>2
<1>12. Referring(text.items)' = Referring(text'.items)
  BY DEF Referring
<1>13. addr' \in (data.start .. data.end)' /\ len' \in Nat
  BY <1>0, <1>1, <1>3
<1>14. (text.open = (loop # "after" /\ bytes_in_line > 0))'
  BY <1>0
<1>15. (text.bytes = BytesFrom(data.start, addr - data.start))'
  BY <1>6, <1>7
<1>16. (Referring(text.items) = {a \in AddressWords : a < addr})'
  BY <1>1, <1>10, <1>11, <1>12
<1>17. (loop \in {"lines", "piece", "after", "aborted"} /\ loop # "lines" /\ loop # "after")'
  BY <1>0
<1> QED
  BY <1>0, <1>1, <1>5, <1>9, <1>13, <1>14, <1>15, <1>16, <1>17 DEF TextInv

\* The labels and the relocations are no places for an address inside a piece,
\* nor is its start if no word with a relocation is left.
LEMMA NoAddress ==
    ASSUME TextInv, loop = "piece", NEW size \in 1 .. len, ~ data_is_address
    PROVE  {a \in AddressWords : addr <= a /\ a < addr + size} = {}
<1>1. /\ data \in DataRegions /\ data.start \in Nat /\ data.end \in Nat /\ data.base \in Nat
      /\ addr \in data.start .. data.end /\ len \in Nat /\ len > 0 /\ WordSize \in Nat
      /\ PieceFits
  BY DataFacts, Sizes DEF TextInv
<1> SUFFICES ASSUME NEW a \in AddressWords, addr <= a, a < addr + size PROVE FALSE
  OBVIOUS
<1>2. /\ a \in data.start .. data.end - WordSize /\ Offset(a) \in data.fixups
      /\ \A b \in a + 1 .. a + WordSize - 1 : b \notin data.labels /\ Offset(b) \notin data.fixups
  BY DEF AddressWords
<1>3. a = addr
  <2>1. CASE a > addr
    <3>1. a \in addr + 1 .. addr + len - 1
      BY <1>1, <1>2, <2>1
    <3>2. a \notin Marks
      BY <1>1, <3>1 DEF PieceFits
    <3> QED
      BY <1>1, <1>2, <3>2, Unmarked
  <2> QED
    BY <1>1, <1>2, <2>1
<1>4. len < WordSize
  BY <1>1, <1>2, <1>3 DEF data_is_address
<1>5. addr + len \in a + 1 .. a + WordSize - 1 /\ addr + len # data.end
  BY <1>1, <1>2, <1>3, <1>4
<1>6. addr + len \in Marks
  BY <1>1, <1>5 DEF PieceFits
<1>7. CASE addr + len \in data.labels
  BY <1>2, <1>5, <1>7
<1>8. CASE \E o \in data.fixups : addr + len = data.base + o
  <2>1. PICK o \in data.fixups : addr + len = data.base + o
    BY <1>8
  <2>2. o \in Nat
    BY <1>1, DataFacts
  <2>3. Offset(addr + len) = o
    BY <1>1, <2>1, <2>2 DEF Offset
  <2> QED
    BY <1>2, <1>5, <2>1, <2>3
<1> QED
  BY <1>6, <1>7, <1>8 DEF Marks

LEMMA PieceFacts ==
    ASSUME TextInv, loop = "piece", len > 0
    PROVE  /\ data \in DataRegions /\ data.start \in Nat /\ data.end \in Nat /\ data.base \in Nat
           /\ addr \in data.start .. data.end /\ len \in Nat /\ addr + len <= data.end
           /\ text \in Texts /\ text.ok /\ text.open = (bytes_in_line > 0)
           /\ Len(text.bytes) = addr - data.start
           /\ \A k \in 0 .. len - 1 : data.bytes[addr + k] \in 0 .. 255
<1>1. /\ data \in DataRegions /\ data.start \in Nat /\ data.end \in Nat /\ data.base \in Nat
      /\ addr \in data.start .. data.end /\ len \in Nat /\ addr + len <= data.end
      /\ text \in Texts /\ text.ok /\ text.open = (bytes_in_line > 0)
  BY DataFacts DEF TextInv, PieceFits
<1>2. Len(text.bytes) = addr - data.start
  <2>1. data.start \in data.start .. data.end /\ addr - data.start \in Nat
        /\ data.start + (addr - data.start) <= data.end
    BY <1>1
  <2>2. Len(BytesFrom(data.start, addr - data.start)) = addr - data.start
    BY <1>1, <2>1, BytesOf
  <2> QED
    BY <2>2 DEF TextInv
<1>3. ASSUME NEW k \in 0 .. len - 1 PROVE data.bytes[addr + k] \in 0 .. 255
  <2>1. addr + k \in data.start .. data.end - 1
    BY <1>1
  <2> QED
    BY <1>1, <2>1, DataFacts
<1> QED
  BY <1>1, <1>2, <1>3

\* A directive without an address, behind what has been printed.
PrintsRun(size) ==
    /\ ~ data_is_address
    /\ PrintDirective(size)
    /\ text' = Directive(EndLine(text), BytesFrom(addr, size), {})

LEMMA RunPrints ==
    ASSUME TextInv, loop = "piece", NEW size \in 1 .. len, PrintsRun(size)
    PROVE  Prints(size)
<1>0. /\ ~ data_is_address /\ PrintDirective(size)
      /\ text' = Directive(EndLine(text), BytesFrom(addr, size), {})
  BY DEF PrintsRun
<1>1. len > 0 /\ size \in Nat /\ len \in Nat
  BY DEF TextInv
<1>2. /\ data \in DataRegions /\ data.start \in Nat /\ data.end \in Nat
      /\ addr \in data.start .. data.end /\ addr + len <= data.end
      /\ text \in Texts /\ text.ok /\ text.open = (bytes_in_line > 0)
  BY <1>1, PieceFacts
<1>3. PICK t : t = EndLine(text)
  OBVIOUS
<1>4. /\ t \in Texts /\ t.ok /\ ~ t.open
      /\ t.bytes = text.bytes /\ t.labels = text.labels /\ t.items = text.items
  BY <1>2, <1>3, EndLineText
<1>5. BytesFrom(addr, size) \in Seq(0 .. 255)
  BY <1>1, <1>2, BytesOf
<1>6. text' = Directive(t, BytesFrom(addr, size), {})
  BY <1>0, <1>3
<1>7. /\ text' \in Texts /\ text'.ok /\ ~ text'.open
      /\ text'.bytes = t.bytes \o BytesFrom(addr, size) /\ text'.labels = t.labels
      /\ Referring(text'.items) = Referring(t.items)
  <2>1. data.start \in Int
    BY <1>2
  <2>2. PICK bytes \in Octets, refs \in Refs, d \in {text'} :
          bytes = BytesFrom(addr, size) /\ refs = {} /\ d = text'
    BY <1>5 DEF Octets, Refs
  <2>3. d = Directive(t, bytes, refs)
    BY <1>6, <2>2
  <2>4. /\ d \in Texts /\ d.ok /\ ~ d.open
        /\ d.bytes = t.bytes \o bytes /\ d.labels = t.labels
        /\ Referring(d.items) = Referring(t.items) \cup Addressed(t, refs)
    <3>1. t \in Texts
      BY <1>4
    <3>2. t.ok
      BY <1>4
    <3>3. ~ t.open
      BY <1>4
    <3> QED
      BY <2>1, <2>3, <3>1, <3>2, <3>3, DirectiveText
  <2> QED
    BY <2>2, <2>4 DEF Addressed
<1>8. bytes_in_line' = 0 /\ bytes_in_line' \in 0 .. LineBytes - 1 /\ text'.open \in BOOLEAN
  BY <1>0, <1>7, Sizes DEF PrintDirective, Texts
<1>9. data' = data /\ loop' = loop /\ Advance(size)
  BY <1>0 DEF PrintDirective
<1>10. {a \in AddressWords : addr <= a /\ a < addr + size} = {}
  BY <1>0, NoAddress
<1> QED
  BY <1>4, <1>7, <1>8, <1>9, <1>10 DEF Prints

LEMMA ZerosPrint ==
    ASSUME TextInv, PrintZeros
    PROVE  loop = "piece" /\ \E size \in MinRun .. len : PrintsRun(size)
<1>1. PICK n : n = RunOf(Zeros)
  OBVIOUS
<1>2. /\ ~ data_is_address /\ n >= MinRun /\ PrintDirective(n)
      /\ text' = Directive(EndLine(text), [k \in 1 .. n |-> 0], {})
  BY <1>1 DEF PrintZeros, data_is_zeros
<1>3. loop = "piece" /\ len > 0 /\ len \in Nat
  BY <1>2 DEF PrintDirective, TextInv
<1>4. n \in 1 .. len /\ \A k \in 0 .. n - 1 : data.bytes[addr + k] = 0
  <2>1. n \in 0 .. len /\ \A k \in 0 .. n - 1 : data.bytes[addr + k] \in Zeros
    BY <1>1, <1>3, RunOfKind
  <2> QED
    BY <1>2, <2>1, Sizes DEF Zeros
<1>5. [k \in 1 .. n |-> 0] = BytesFrom(addr, n)
  <2>1. ASSUME NEW k \in 1 .. n PROVE data.bytes[addr + k - 1] = 0
    <3>1. k - 1 \in 0 .. n - 1 /\ addr + (k - 1) = addr + k - 1
      BY <1>3, <1>4, PieceFacts
    <3> QED
      BY <1>4, <3>1
  <2> QED
    BY <2>1 DEF BytesFrom
<1> QED
  <2>1. n \in MinRun .. len
    BY <1>2, <1>4, Sizes
  <2> QED
    BY <1>2, <1>3, <1>5, <2>1 DEF PrintsRun

LEMMA StringPrints ==
    ASSUME TextInv, PrintString
    PROVE  loop = "piece" /\ \E size \in MinRun .. len : PrintsRun(size)
<1>1. PICK n : n = RunOf(Characters)
  OBVIOUS
<1>2. PICK z : z = IF zero_terminated THEN <<0>> ELSE <<>>
  OBVIOUS
<1>3. PICK size : size = IF zero_terminated THEN n + 1 ELSE n
  OBVIOUS
<1>4. PICK chars : chars = print_escaped_string(BytesFrom(addr, n))
  OBVIOUS
<1>5. /\ ~ data_is_address /\ n >= MinRun /\ PrintDirective(size)
      /\ text' = StringDirective(EndLine(text), chars, z)
  BY <1>1, <1>2, <1>3, <1>4 DEF PrintString, data_is_string
<1>6. loop = "piece" /\ len > 0 /\ len \in Nat
  BY <1>5 DEF PrintDirective, TextInv
<1>7. n \in 1 .. len /\ \A k \in 0 .. n - 1 : data.bytes[addr + k] \in Characters
  <2>1. n \in 0 .. len /\ \A k \in 0 .. n - 1 : data.bytes[addr + k] \in Characters
    BY <1>1, <1>6, RunOfKind
  <2> QED
    BY <1>5, <2>1, Sizes
<1>8. /\ data \in DataRegions /\ data.start \in Nat /\ data.end \in Nat
      /\ addr \in data.start .. data.end /\ addr + len <= data.end
  BY <1>6, PieceFacts
<1>9. /\ DOMAIN chars = 1 .. n
      /\ \A k \in 1 .. n : Readable(chars[k]) /\ Character(chars[k]) = data.bytes[addr + k - 1]
  <2>1. DOMAIN BytesFrom(addr, n) = 1 .. n
        /\ \A k \in 1 .. n : BytesFrom(addr, n)[k] = data.bytes[addr + k - 1]
    BY DEF BytesFrom
  <2>2. ASSUME NEW k \in 1 .. n
        PROVE  /\ chars[k] = Escape(data.bytes[addr + k - 1])
               /\ data.bytes[addr + k - 1] \in Characters
    <3>1. k - 1 \in 0 .. n - 1 /\ addr + (k - 1) = addr + k - 1
      BY <1>7, <1>8
    <3> QED
      BY <1>4, <1>7, <2>1, <3>1 DEF print_escaped_string
  <2>3. DOMAIN chars = 1 .. n
    BY <1>4, <2>1 DEF print_escaped_string
  <2> QED
    BY <2>2, <2>3, EscapeReads
<1>10. [k \in DOMAIN chars |-> Character(chars[k])] = BytesFrom(addr, n)
  BY <1>9 DEF BytesFrom
<1>11. size \in 1 .. len /\ BytesFrom(addr, n) \o z = BytesFrom(addr, size)
  <2>1. CASE zero_terminated
    <3>1. n < len /\ data.bytes[addr + n] = 0
      BY <1>1, <2>1 DEF zero_terminated
    <3>2. BytesFrom(addr + n, 1) = <<0>>
      <4>1. \A k \in 1 .. 1 : data.bytes[addr + n + k - 1] = 0
        BY <1>7, <1>8, <3>1
      <4> QED
        BY <4>1 DEF BytesFrom
    <3>3. BytesFrom(addr, n) \o BytesFrom(addr + n, 1) = BytesFrom(addr, n + 1)
      <4>1. addr + n + 1 <= data.end /\ n \in Nat /\ 1 \in Nat
        BY <1>6, <1>7, <1>8, <3>1
      <4> QED
        BY <1>8, <4>1, BytesJoin
    <3>4. z = <<0>> /\ size = n + 1
      BY <1>2, <1>3, <2>1
    <3>5. n + 1 \in 1 .. len
      BY <1>6, <1>7, <3>1
    <3> QED
      BY <3>2, <3>3, <3>4, <3>5
  <2>2. CASE ~ zero_terminated
    <3>1. BytesFrom(addr, n) \in Seq(0 .. 255)
      BY <1>6, <1>7, <1>8, BytesOf
    <3>2. BytesFrom(addr, n) \o <<>> = BytesFrom(addr, n)
      BY <3>1, ConcatEmptySeq
    <3> QED
      BY <1>2, <1>3, <1>7, <2>2, <3>2
  <2> QED
    BY <2>1, <2>2
<1>12. text' = Directive(EndLine(text), BytesFrom(addr, size), {})
  BY <1>5, <1>9, <1>10, <1>11 DEF StringDirective
<1> QED
  <2>1. size \in MinRun .. len
    BY <1>3, <1>5, <1>7, <1>11, Sizes
  <2> QED
    BY <1>5, <1>6, <1>12, <2>1 DEF PrintsRun

LEMMA BytePrints ==
    ASSUME TextInv, PrintByte
    PROVE  loop = "piece" /\ \E size \in 1 .. len : Prints(size)
<1>1. /\ loop = "piece" /\ len > 0 /\ len \in Nat /\ ~ data_is_address
      /\ text' = ByteWritten /\ Advance(1) /\ data' = data /\ loop' = loop
      /\ bytes_in_line' = IF bytes_in_line + 1 = LineBytes THEN 0 ELSE bytes_in_line + 1
      /\ bytes_in_line \in 0 .. LineBytes - 1
  BY DEF PrintByte, TextInv
<1>2. /\ data \in DataRegions /\ data.start \in Nat /\ data.end \in Nat
      /\ addr \in data.start .. data.end /\ addr + len <= data.end
      /\ text \in Texts /\ text.ok /\ text.open = (bytes_in_line > 0)
      /\ data.bytes[addr] \in 0 .. 255
  <2>1. addr + 0 = addr /\ 0 \in 0 .. len - 1
    BY <1>1, PieceFacts
  <2>2. data.bytes[addr + 0] \in 0 .. 255
    BY <1>1, <2>1, PieceFacts
  <2> QED
    BY <1>1, <2>1, <2>2, PieceFacts
<1>3. PICK t : t = IF bytes_in_line = 0 THEN OpenQuote(text) ELSE text
  OBVIOUS
<1>4. /\ t \in Texts /\ t.ok /\ t.open /\ t.bytes = text.bytes
      /\ t.labels = text.labels /\ t.items = text.items
  <2>1. CASE bytes_in_line = 0
    <3>1. ~ text.open /\ t = OpenQuote(text)
      <4>1. ~ (bytes_in_line > 0)
        BY <2>1
      <4> QED
        BY <1>2, <1>3, <2>1, <4>1
    <3> QED
      BY <1>2, <3>1, QuoteText
  <2>2. CASE bytes_in_line # 0
    <3>1. bytes_in_line > 0
      BY <1>1, <2>2, Sizes
    <3> QED
      BY <1>2, <1>3, <2>2, <3>1
  <2> QED
    BY <2>1, <2>2
<1>5. PICK d : d = QuotedByte(t, data.bytes[addr])
  OBVIOUS
<1>6. /\ d \in Texts /\ d.ok /\ d.open
      /\ d.bytes = Append(t.bytes, data.bytes[addr]) /\ d.labels = t.labels
      /\ Referring(d.items) = Referring(t.items)
  <2>1. data.start \in Int
    BY <1>2
  <2>2. PICK byte \in 0 .. 255 : byte = data.bytes[addr]
    BY <1>2
  <2> QED
    BY <1>4, <1>5, <2>1, <2>2, QuotedText
<1>7. text' = IF bytes_in_line + 1 = LineBytes THEN CloseQuote(d) ELSE d
  BY <1>1, <1>3, <1>5 DEF ByteWritten
<1>8. /\ text' \in Texts /\ text'.ok /\ text'.bytes = d.bytes /\ text'.labels = d.labels
      /\ text'.items = d.items
      /\ text'.open = (bytes_in_line + 1 # LineBytes)
  <2>1. CASE bytes_in_line + 1 = LineBytes
    BY <1>6, <1>7, <2>1, QuoteText DEF Texts
  <2>2. CASE bytes_in_line + 1 # LineBytes
    BY <1>6, <1>7, <2>2 DEF Texts
  <2> QED
    BY <2>1, <2>2
<1>9. /\ bytes_in_line' \in 0 .. LineBytes - 1
      /\ bytes_in_line' > 0 <=> bytes_in_line + 1 # LineBytes
  BY <1>1, Sizes
<1>10. Append(text.bytes, data.bytes[addr]) = text.bytes \o BytesFrom(addr, 1)
  <2>1. \A k \in 1 .. 1 : data.bytes[addr + k - 1] = data.bytes[addr]
    BY <1>2
  <2>2. BytesFrom(addr, 1) = <<data.bytes[addr]>>
    BY <2>1 DEF BytesFrom
  <2>3. text.bytes \in Seq(0 .. 255)
    BY <1>2 DEF Texts
  <2> QED
    BY <1>2, <2>2, <2>3, AppendIsConcat
<1>11. 1 \in 1 .. len
  BY <1>1
<1>12. {a \in AddressWords : addr <= a /\ a < addr + 1} = {}
  BY <1>1, <1>11, NoAddress
<1>13. Prints(1)
  BY <1>1, <1>4, <1>6, <1>8, <1>9, <1>10, <1>12 DEF Prints
<1> QED
  BY <1>1, <1>11, <1>13

LEMMA AddressPrints ==
    ASSUME TextInv, PrintAddress
    PROVE  loop = "piece" /\ \E size \in 1 .. len : Prints(size)
<1>1. /\ loop = "piece" /\ len > 0 /\ len \in Nat
      /\ len >= WordSize /\ Offset(addr) \in data.fixups /\ Word(addr) \in data.labels
      /\ text' = Directive(EndLine(text), WordBytes(Word(addr)), {Word(addr)})
      /\ PrintDirective(WordSize)
  BY DEF PrintAddress, PrintDirective, data_is_address, TextInv
<1>2. /\ data \in DataRegions /\ data.start \in Nat /\ data.end \in Nat /\ data.base \in Nat
      /\ addr \in data.start .. data.end /\ addr + len <= data.end
      /\ text \in Texts /\ text.ok /\ text.open = (bytes_in_line > 0)
      /\ Len(text.bytes) = addr - data.start
      /\ \A k \in 0 .. len - 1 : data.bytes[addr + k] \in 0 .. 255
  BY <1>1, PieceFacts
<1>3. WordSize \in 1 .. len /\ WordSize \in Nat \ {0}
  BY <1>1, Sizes
<1>4. WordBytes(Word(addr)) = BytesFrom(addr, WordSize)
  <2>1. ASSUME NEW n \in 1 .. WordSize PROVE data.bytes[addr + WordSize - n] \in 0 .. 255
    <3>1. WordSize - n \in 0 .. len - 1 /\ addr + (WordSize - n) = addr + WordSize - n
      BY <1>1, <1>2, <1>3
    <3> QED
      BY <1>2, <3>1
  <2>2. addr \in Nat
    BY <1>2
  <2> QED
    BY <2>1, <2>2, WordBack
<1>5. PICK t : t = EndLine(text)
  OBVIOUS
<1>6. /\ t \in Texts /\ t.ok /\ ~ t.open
      /\ t.bytes = text.bytes /\ t.labels = text.labels /\ t.items = text.items
  BY <1>2, <1>5, EndLineText
<1>7. PICK bytes \in Octets, refs \in Refs, d \in {text'} :
        bytes = BytesFrom(addr, WordSize) /\ refs = {Word(addr)} /\ d = text'
  <2>1. BytesFrom(addr, WordSize) \in Seq(0 .. 255)
    BY <1>1, <1>2, <1>3, BytesOf
  <2>2. {Word(addr)} \in Refs
    BY <1>1, <1>2, DataFacts DEF Refs
  <2> QED
    BY <2>1, <2>2 DEF Octets
<1>8. d = Directive(t, bytes, refs) /\ refs # {}
  BY <1>1, <1>4, <1>5, <1>7
<1>10. Addressed(t, refs) = {addr}
  <2>1. data.start + Len(t.bytes) = addr
    BY <1>2, <1>6
  <2> QED
    BY <1>8, <2>1 DEF Addressed
<1>9. /\ d \in Texts /\ d.ok /\ ~ d.open
      /\ d.bytes = t.bytes \o bytes /\ d.labels = t.labels
      /\ Referring(d.items) = Referring(t.items) \cup {addr}
  <2>1. data.start \in Int
    BY <1>2
  <2>2. d = Directive(t, bytes, refs)
    BY <1>8
  <2>3. /\ d \in Texts /\ d.ok /\ ~ d.open
        /\ d.bytes = t.bytes \o bytes /\ d.labels = t.labels
        /\ Referring(d.items) = Referring(t.items) \cup Addressed(t, refs)
    <3>1. t \in Texts
      BY <1>6
    <3>2. t.ok
      BY <1>6
    <3>3. ~ t.open
      BY <1>6
    <3> QED
      BY <2>1, <2>2, <3>1, <3>2, <3>3, DirectiveText
  <2> QED
    BY <1>8, <1>10, <2>3
<1>11. {a \in AddressWords : addr <= a /\ a < addr + WordSize} = {addr}
  <2>1. PieceFits
    BY <1>1 DEF TextInv
  <2>2. addr \in AddressWords
    <3>1. addr \in data.start .. data.end - WordSize
      BY <1>1, <1>2, <1>3
    <3>2. ASSUME NEW b \in addr + 1 .. addr + WordSize - 1
          PROVE  b \notin data.labels /\ Offset(b) \notin data.fixups
      <4>1. b \in addr + 1 .. addr + len - 1 /\ b \in Int
        BY <1>1, <1>2, <1>3
      <4> QED
        BY <1>2, <2>1, <4>1, Unmarked DEF PieceFits
    <3> QED
      BY <1>1, <3>1, <3>2 DEF AddressWords
  <2>3. ASSUME NEW a \in AddressWords, addr <= a, a < addr + WordSize PROVE a = addr
    <3>1. a \in Int /\ Offset(a) \in data.fixups
      BY <1>2 DEF AddressWords
    <3>2. a \notin addr + 1 .. addr + len - 1
      BY <1>2, <2>1, <3>1, Unmarked DEF PieceFits
    <3> QED
      BY <1>1, <1>2, <1>3, <2>3, <3>1, <3>2
  <2>4. addr <= addr /\ addr < addr + WordSize
    BY <1>2, <1>3
  <2> QED
    BY <2>2, <2>3, <2>4
<1>12. /\ bytes_in_line' = 0 /\ bytes_in_line' \in 0 .. LineBytes - 1 /\ d.open \in BOOLEAN
       /\ data' = data /\ loop' = loop /\ Advance(WordSize)
  BY <1>1, <1>9, Sizes DEF PrintDirective, Texts
<1>13. Prints(WordSize)
  BY <1>6, <1>7, <1>9, <1>11, <1>12 DEF Prints
<1> QED
  BY <1>1, <1>3, <1>13

-----------------------------------------------------------------------------
(* The invariant.                                                          *)

LEMMA TextStarts == TextInit => TextInv
<1> SUFFICES ASSUME TextInit PROVE TextInv
  OBVIOUS
<1>1. /\ data \in DataRegions /\ loop = "lines" /\ addr = data.start /\ len = 0
      /\ bytes_in_line = 0 /\ text = NoText
  BY DEF TextInit
<1>2. data.start \in Nat /\ data.end \in Nat /\ data.start < data.end
  BY <1>1, DataFacts
<1>3. text \in Texts /\ text.ok /\ ~ text.open /\ text.labels = {} /\ Referring(text.items) = {}
  <2>1. <<>> \in Seq(Items) /\ <<>> \in Seq(0 .. 255) /\ DOMAIN <<>> = {}
    OBVIOUS
  <2> QED
    BY <1>1, <2>1 DEF NoText, Texts, Referring
<1>4. text.bytes = BytesFrom(data.start, addr - data.start)
  <2>1. addr - data.start = 0 /\ 1 .. 0 = {}
    BY <1>1, <1>2
  <2> QED
    BY <1>1, <2>1 DEF BytesFrom, NoText
<1>5. LabelsDefined = {}
  BY <1>1, <1>2 DEF LabelsDefined, LabelsInside
<1>6. {a \in AddressWords : a < addr} = {}
  BY <1>1, <1>2, Sizes DEF AddressWords
<1>7. addr \in data.start .. data.end /\ bytes_in_line \in 0 .. LineBytes - 1
  BY <1>1, <1>2, Sizes
<1> QED
  BY <1>1, <1>3, <1>4, <1>5, <1>6, <1>7 DEF TextInv, Texts

\* What the length of a piece is measured by.
LEMMA PieceLength ==
    ASSUME TextInv, StartPiece
    PROVE  /\ len' \in Nat /\ len' > 0 /\ addr + len' <= data.end
           /\ \A a \in addr + 1 .. addr + len' - 1 : a \notin Marks
           /\ addr + len' \in Marks \cup {data.end}
<1>1. /\ data \in DataRegions /\ data.start \in Nat /\ data.end \in Nat /\ data.base \in Nat
      /\ addr \in data.start .. data.end /\ addr < data.end
      /\ data.labels \subseteq Nat /\ data.fixups \subseteq Nat
  BY DataFacts DEF TextInv, StartPiece
<1>2. PICK S : S = {data.end - addr}
                   \cup {a - addr : a \in {b \in data.labels : b > addr}}
                   \cup {o - Offset(addr) : o \in {p \in data.fixups : p > Offset(addr)}}
  OBVIOUS
<1>3. len' = Nearest(S)
  BY <1>2 DEF StartPiece
<1>4. PICK off \in Nat : off = Offset(addr) /\ addr = data.base + off
  BY <1>1, DataFacts DEF Offset
<1>5. S \subseteq Nat \ {0} /\ data.end - addr \in S
  <2>1. data.end - addr \in Nat \ {0}
    BY <1>1
  <2>2. \A a \in data.labels : a > addr => a - addr \in Nat \ {0}
    BY <1>1
  <2>3. \A o \in data.fixups : o > off => o - off \in Nat \ {0}
    BY <1>1
  <2> QED
    BY <1>2, <1>4, <2>1, <2>2, <2>3
<1>6. len' \in S /\ \A y \in S : len' <= y
  <2>1. S \subseteq Nat /\ S # {}
    BY <1>5
  <2> QED
    BY <1>3, <2>1, NearestOf
<1>7. ASSUME NEW a \in addr + 1 .. addr + len' - 1 PROVE a \notin Marks
  <2>1. PICK l \in Nat : l = len'
    BY <1>5, <1>6
  <2>2. a > addr /\ a - addr < l /\ a \in Int
    <3>1. addr \in Int
      BY <1>1
    <3>2. a \in addr + 1 .. addr + l - 1
      BY <2>1
    <3> QED
      BY <3>1, <3>2
  <2>3. ASSUME a \in data.labels PROVE FALSE
    <3>1. a - addr \in S
      BY <1>2, <2>2, <2>3
    <3>2. l <= a - addr
      BY <1>6, <2>1, <3>1
    <3> QED
      BY <1>1, <2>2, <3>2
  <2>4. ASSUME NEW o \in data.fixups, a = data.base + o PROVE FALSE
    <3>1. o \in Nat
      BY <1>1
    <3>2. o > off /\ o - off = a - addr
      BY <1>1, <1>4, <2>2, <2>4, <3>1
    <3>3. o - off \in S
      BY <1>2, <1>4, <3>2
    <3>4. l <= a - addr
      BY <1>6, <2>1, <3>2, <3>3
    <3> QED
      BY <1>1, <2>2, <3>4
  <2> QED
    BY <2>3, <2>4 DEF Marks
<1>8. addr + len' \in Marks \cup {data.end}
  <2>1. CASE len' = data.end - addr
    BY <1>1, <2>1
  <2>2. CASE \E a \in data.labels : len' = a - addr
    <3>1. PICK a \in data.labels : len' = a - addr
      BY <2>2
    <3>2. addr + len' = a
      BY <1>1, <3>1
    <3> QED
      BY <3>2 DEF Marks
  <2>3. CASE \E o \in data.fixups : len' = o - off
    <3>1. PICK o \in data.fixups : len' = o - off
      BY <2>3
    <3>2. o \in Nat
      BY <1>1
    <3>3. addr + len' = data.base + o
      <4>1. data.base + off + (o - off) = data.base + o
        BY <1>1, <3>2
      <4> QED
        BY <1>4, <3>1, <4>1
    <3> QED
      BY <3>3 DEF Marks
  <2> QED
    BY <1>2, <1>4, <1>6, <2>1, <2>2, <2>3
<1>9. len' \in Nat /\ len' > 0 /\ addr + len' <= data.end
  BY <1>1, <1>5, <1>6
<1> QED
  BY <1>7, <1>8, <1>9

\* In front of a piece, the label that has not been defined before.
LEMMA PieceLabelled ==
    ASSUME TextInv, StartPiece
    PROVE  /\ text' \in Texts /\ text'.ok /\ text'.bytes = text.bytes
           /\ bytes_in_line' \in 0 .. LineBytes - 1
           /\ text'.open = (bytes_in_line' > 0)
           /\ Referring(text'.items) = Referring(text.items)
           /\ text'.labels = text.labels
                             \cup {<<a, a - data.start>> : a \in data.labels \cap {addr}}
<1>1. /\ data \in DataRegions /\ data.start \in Nat /\ data.end \in Nat /\ loop = "lines"
      /\ addr \in data.start .. data.end /\ addr < data.end
      /\ bytes_in_line \in 0 .. LineBytes - 1
      /\ text \in Texts /\ text.ok /\ text.open = (bytes_in_line > 0)
      /\ text.bytes = BytesFrom(data.start, addr - data.start)
      /\ text.labels = {<<a, a - data.start>> : a \in LabelsDefined}
  BY DataFacts DEF TextInv, StartPiece
<1>2. CASE addr \in data.labels
  <2>1. PICK t : t = EndLine(text)
    OBVIOUS
  <2>2. /\ t \in Texts /\ t.ok /\ ~ t.open
        /\ t.bytes = text.bytes /\ t.labels = text.labels /\ t.items = text.items
    BY <1>1, <2>1, EndLineText
  <2>3. text' = print_label(t, addr) /\ bytes_in_line' = 0
    BY <1>2, <2>1 DEF StartPiece
  <2>4. \A l \in t.labels : l[1] # addr
    <3>1. \A a \in LabelsDefined : a \in Int /\ a < addr
      BY <1>1 DEF LabelsDefined, LabelsInside
    <3> QED
      BY <1>1, <2>2, <3>1
  <2>5. PICK d : d = text'
    OBVIOUS
  <2>6. /\ d \in Texts /\ d.ok /\ ~ d.open /\ d.bytes = t.bytes
        /\ d.labels = t.labels \cup {<<addr, Len(t.bytes)>>}
        /\ Referring(d.items) = Referring(t.items)
    <3>1. d = print_label(t, addr) /\ addr \in Int
      BY <1>1, <2>3, <2>5
    <3> QED
      BY <2>2, <2>4, <3>1, LabelText
  <2>7. Len(t.bytes) = addr - data.start
    <3>1. data.start \in data.start .. data.end /\ addr - data.start \in Nat
          /\ data.start + (addr - data.start) <= data.end
      BY <1>1
    <3>2. Len(BytesFrom(data.start, addr - data.start)) = addr - data.start
      BY <1>1, <3>1, BytesOf
    <3> QED
      BY <1>1, <2>2, <3>2
  <2>8. {<<a, a - data.start>> : a \in data.labels \cap {addr}} = {<<addr, addr - data.start>>}
    BY <1>2
  <2>9. bytes_in_line' \in 0 .. LineBytes - 1 /\ d.open = (bytes_in_line' > 0)
    <3>1. bytes_in_line' \in 0 .. LineBytes - 1
      BY <2>3, Sizes
    <3>2. (bytes_in_line' > 0) = FALSE
      BY <2>3
    <3>3. d.open = FALSE
      BY <2>6 DEF Texts
    <3> QED
      BY <3>1, <3>2, <3>3
  <2>10. Referring(d.items) = Referring(text.items)
    BY <2>2, <2>6
  <2>11. d.labels = text.labels \cup {<<a, a - data.start>> : a \in data.labels \cap {addr}}
    BY <2>2, <2>6, <2>7, <2>8
  <2>12. d \in Texts /\ d.ok /\ d.bytes = text.bytes
    BY <2>2, <2>6
  <2> QED
    BY <2>5, <2>9, <2>10, <2>11, <2>12
<1>3. CASE addr \notin data.labels
  <2>1. text' = text /\ bytes_in_line' = bytes_in_line
    BY <1>3 DEF StartPiece
  <2>2. {<<a, a - data.start>> : a \in data.labels \cap {addr}} = {}
    BY <1>3
  <2> QED
    BY <1>1, <2>1, <2>2
<1> QED
  BY <1>2, <1>3

LEMMA PieceStarts ==
    ASSUME TextInv, StartPiece
    PROVE  TextInv'
<1>1. /\ data \in DataRegions /\ data.start \in Nat /\ data.end \in Nat /\ loop = "lines"
      /\ addr \in data.start .. data.end /\ addr < data.end
      /\ text.bytes = BytesFrom(data.start, addr - data.start)
      /\ text.labels = {<<a, a - data.start>> : a \in LabelsDefined}
      /\ Referring(text.items) = {a \in AddressWords : a < addr}
      /\ data' = data /\ addr' = addr /\ loop' = "piece"
  BY DataFacts DEF TextInv, StartPiece
<1>2. /\ len' \in Nat /\ len' > 0 /\ addr + len' <= data.end
      /\ \A a \in addr + 1 .. addr + len' - 1 : a \notin Marks
      /\ addr + len' \in Marks \cup {data.end}
  BY PieceLength
<1>3. PieceFits'
  BY <1>1, <1>2 DEF PieceFits, Marks
<1>4. LabelsDefined' = LabelsDefined \cup (data.labels \cap {addr})
  <2>1. LabelsInside' = LabelsInside /\ LabelsInside = data.labels \cap data.start .. data.end - 1
    BY <1>1 DEF LabelsInside
  <2>2. LabelsDefined = {a \in LabelsInside : a < addr}
    BY <1>1 DEF LabelsDefined
  <2>3. LabelsDefined' = {a \in LabelsInside : a < addr \/ a = addr}
    BY <1>1, <1>2, <2>1 DEF LabelsDefined
  <2>4. addr \in data.start .. data.end - 1
    BY <1>1
  <2> QED
    BY <2>1, <2>2, <2>3, <2>4
<1>5. text'.labels = ({<<a, a - data.start>> : a \in LabelsDefined})'
  <2>1. text'.labels = text.labels \cup {<<a, a - data.start>> : a \in data.labels \cap {addr}}
    BY PieceLabelled
  <2>2. {<<a, a - data.start>> : a \in LabelsDefined \cup (data.labels \cap {addr})}
          = {<<a, a - data.start>> : a \in LabelsDefined}
            \cup {<<a, a - data.start>> : a \in data.labels \cap {addr}}
    OBVIOUS
  <2> QED
    BY <1>1, <1>4, <2>1, <2>2
<1>6. (text.bytes = BytesFrom(data.start, addr - data.start))'
  BY <1>1, PieceLabelled DEF BytesFrom
<1>7. (Referring(text.items) = {a \in AddressWords : a < addr})'
  <2>1. AddressWords' = AddressWords
    BY <1>1 DEF AddressWords, Offset
  <2>2. Referring(text.items)' = Referring(text'.items)
    BY DEF Referring
  <2> QED
    BY <1>1, <2>1, <2>2, PieceLabelled
<1>8. (text.open = (loop # "after" /\ bytes_in_line > 0))'
  BY <1>1, PieceLabelled
<1>9. text' \in Texts /\ text'.ok /\ bytes_in_line' \in 0 .. LineBytes - 1
  BY PieceLabelled
<1> QED
  BY <1>1, <1>2, <1>3, <1>5, <1>6, <1>7, <1>8, <1>9 DEF TextInv

\* The steps that print nothing of the region.
LEMMA OtherSteps ==
    ASSUME TextInv, PieceDone \/ AddressWithoutLabel \/ RegionDone
    PROVE  TextInv' /\ text'.bytes = text.bytes /\ text'.labels = text.labels /\ data' = data
<1>1. /\ data \in DataRegions /\ data.start \in Nat /\ data.end \in Nat
      /\ addr \in data.start .. data.end /\ len \in Nat
      /\ bytes_in_line \in 0 .. LineBytes - 1
      /\ text \in Texts /\ text.ok /\ text.open = (loop # "after" /\ bytes_in_line > 0)
  BY DataFacts DEF TextInv
<1>2. data' = data /\ addr' = addr /\ len' = len
  BY DEF PieceDone, AddressWithoutLabel, RegionDone
<1>3. /\ text' \in Texts /\ text'.ok
      /\ text'.bytes = text.bytes /\ text'.labels = text.labels /\ text'.items = text.items
      /\ text'.open = (loop' # "after" /\ bytes_in_line' > 0)
      /\ bytes_in_line' \in 0 .. LineBytes - 1
  <2>1. CASE PieceDone
    <3>1. text' = text /\ bytes_in_line' = bytes_in_line /\ loop' = "lines" /\ loop = "piece"
      BY <2>1 DEF PieceDone
    <3> QED
      BY <1>1, <3>1
  <2>2. ASSUME AddressWithoutLabel \/ RegionDone
        PROVE  /\ text' \in Texts /\ text'.ok /\ ~ text'.open
               /\ text'.bytes = text.bytes /\ text'.labels = text.labels
               /\ text'.items = text.items
    <3>1. loop # "after" /\ text' = EndLine(text)
      BY <2>2 DEF AddressWithoutLabel, RegionDone
    <3>2. text.open = (bytes_in_line > 0)
      BY <1>1, <3>1
    <3>3. PICK t : t = text'
      OBVIOUS
    <3>4. /\ t \in Texts /\ t.ok /\ ~ t.open
          /\ t.bytes = text.bytes /\ t.labels = text.labels /\ t.items = text.items
      BY <1>1, <3>1, <3>2, <3>3, EndLineText
    <3> QED
      BY <3>3, <3>4
  <2>3. CASE AddressWithoutLabel
    <3>1. bytes_in_line' = 0 /\ 0 \in 0 .. LineBytes - 1 /\ ~ (bytes_in_line' > 0)
      BY <2>3, Sizes DEF AddressWithoutLabel
    <3> QED
      BY <2>2, <2>3, <3>1 DEF Texts
  <2>4. CASE RegionDone
    <3>1. bytes_in_line' = bytes_in_line /\ loop' = "after"
      BY <2>4 DEF RegionDone
    <3> QED
      BY <1>1, <2>2, <2>4, <3>1 DEF Texts
  <2> QED
    BY <2>1, <2>3, <2>4
<1>4. /\ Marks' = Marks /\ AddressWords' = AddressWords /\ LabelsInside' = LabelsInside
      /\ (BytesFrom(data.start, addr - data.start))' = BytesFrom(data.start, addr - data.start)
  BY <1>2 DEF Marks, AddressWords, LabelsInside, Offset, BytesFrom
<1>5. /\ loop' \in {"lines", "piece", "after", "aborted"} /\ loop' # "piece"
      /\ loop' = "lines" => len' = 0
      /\ loop' = "after" => len' = 0 /\ addr' = data.end
      /\ loop' = "aborted" => loop = "piece"
  BY <1>1, <1>2 DEF TextInv, PieceDone, AddressWithoutLabel, RegionDone
<1>6. LabelsDefined' = LabelsDefined
  <2>1. loop' \in {"piece", "aborted"} /\ len' > 0 <=> loop \in {"piece", "aborted"} /\ len > 0
    BY <1>1, <1>2 DEF TextInv, PieceDone, AddressWithoutLabel, RegionDone
  <2> QED
    BY <1>2, <1>4, <2>1 DEF LabelsDefined
<1>7. loop' \in {"piece", "aborted"} => PieceFits'
  BY <1>2, <1>4, <1>5 DEF TextInv, PieceFits
<1>8. (Referring(text.items))' = Referring(text.items)
  BY <1>3 DEF Referring
<1>9. TextInv'
  BY <1>1, <1>2, <1>3, <1>4, <1>5, <1>6, <1>7, <1>8 DEF TextInv
<1> QED
  BY <1>2, <1>3, <1>9

LEMMA TextStutters ==
    ASSUME TextInv, UNCHANGED tvars
    PROVE  TextInv'
BY DEF TextInv, tvars, PieceFits, Marks, LabelsDefined, LabelsInside, AddressWords, Offset,
       BytesFrom, Referring

\* A word, some zeros, a string or a byte are some bytes of a piece.
LEMMA PrintSteps ==
    ASSUME TextInv, PrintAddress \/ PrintZeros \/ PrintString \/ PrintByte
    PROVE  loop = "piece" /\ \E size \in 1 .. len : Prints(size)
<1>1. MinRun .. len \subseteq 1 .. len
  BY Sizes DEF TextInv
<1> QED
  BY <1>1, AddressPrints, ZerosPrint, StringPrints, BytePrints, RunPrints

LEMMA TextStep == TextInv /\ [print_region]_tvars => TextInv'
<1> SUFFICES ASSUME TextInv, [print_region]_tvars PROVE TextInv'
  OBVIOUS
<1>1. CASE StartPiece
  BY <1>1, PieceStarts
<1>2. CASE PrintAddress \/ PrintZeros \/ PrintString \/ PrintByte
  BY <1>2, PrintSteps, Printing
<1>3. CASE PieceDone \/ AddressWithoutLabel \/ RegionDone
  BY <1>3, OtherSteps
<1>4. CASE UNCHANGED tvars
  BY <1>4, TextStutters
<1> QED
  BY <1>1, <1>2, <1>3, <1>4 DEF print_region

\* Whatever a region has, what the printer knows of its piece, its line and
\* the text is right all the time.
THEOREM TextHolds == TextSpec => []TextInv
<1>1. TextInit => TextInv
  BY TextStarts
<1>2. TextInv /\ [print_region]_tvars => TextInv'
  BY TextStep
<1> QED
  BY <1>1, <1>2, PTL DEF TextSpec

\* TextWellFormed: quotes are balanced, labels and directives stand outside
\* them, and at the end the text has the bytes and labels of the region.
THEOREM WellFormed == TextSpec => []TextWellFormed
<1>1. TextInv => TextWellFormed
  <2> SUFFICES ASSUME TextInv PROVE TextWellFormed
    OBVIOUS
  <2>1. text.ok /\ bytes_in_line \in 0 .. LineBytes - 1
    BY DEF TextInv
  <2>2. loop # "after" => text.open = (bytes_in_line > 0)
    BY DEF TextInv
  <2>3. ASSUME loop = "after"
        PROVE  ~ text.open /\ text.bytes = Content /\ {l[1] : l \in text.labels} = LabelsInside
    <3>1. /\ addr = data.end /\ data.start \in Nat /\ data.end \in Nat
          /\ text.labels = {<<a, a - data.start>> : a \in LabelsDefined}
      BY <2>3, DataFacts DEF TextInv
    <3>2. LabelsDefined = LabelsInside
      BY <3>1 DEF LabelsDefined, LabelsInside
    <3>3. {l[1] : l \in text.labels} = LabelsInside
      <4>1. \A a \in LabelsInside : <<a, a - data.start>>[1] = a
        OBVIOUS
      <4>2. \A l \in text.labels : \E a \in LabelsInside : l = <<a, a - data.start>>
        BY <3>1, <3>2
      <4>3. \A a \in LabelsInside : <<a, a - data.start>> \in text.labels
        BY <3>1, <3>2
      <4>4. \A l \in text.labels : l[1] \in LabelsInside
        BY <4>1, <4>2
      <4>5. ASSUME NEW a \in LabelsInside PROVE \E l \in text.labels : a = l[1]
        BY <4>1, <4>3
      <4> QED
        BY <4>4, <4>5
    <3>4. ~ text.open
      BY <2>3 DEF TextInv
    <3> QED
      BY <3>1, <3>3, <3>4 DEF TextInv, Content
  <2> QED
    BY <2>1, <2>2, <2>3 DEF TextWellFormed
<1> QED
  BY <1>1, TextHolds, PTL

\* RelocsWritten: the words written as addresses are those with a relocation
\* and neither a label nor another relocation inside.
THEOREM Relocated == TextSpec => []RelocsWritten
<1>1. TextInv => RelocsWritten
  <2> SUFFICES ASSUME TextInv, loop = "after" PROVE Referring(text.items) = AddressWords
    BY DEF RelocsWritten, Referring, AddressWords
  <2>1. /\ addr = data.end /\ data.start \in Nat /\ data.end \in Nat
        /\ Referring(text.items) = {a \in AddressWords : a < addr}
    BY DataFacts DEF TextInv
  <2>2. \A a \in AddressWords : a < data.end
    BY <2>1, Sizes DEF AddressWords
  <2> QED
    BY <2>1, <2>2
<1> QED
  BY <1>1, TextHolds, PTL

-----------------------------------------------------------------------------
(* The abstract specification.                                             *)

\* What the assembler has of the labels is where they are in the region.
LEMMA DefinedAt ==
    ASSUME TextInv
    PROVE  /\ {l[2] : l \in text.labels} = {a - data.start : a \in LabelsDefined}
           /\ LabelsDefined \subseteq LabelsInside /\ LabelsInside \subseteq Int
           /\ Len(text.bytes) = addr - data.start
<1>1. /\ data \in DataRegions /\ data.start \in Nat /\ data.end \in Nat
      /\ addr \in data.start .. data.end
      /\ text.labels = {<<a, a - data.start>> : a \in LabelsDefined}
      /\ text.bytes = BytesFrom(data.start, addr - data.start)
  BY DataFacts DEF TextInv
<1>2. \A a \in LabelsDefined : <<a, a - data.start>>[2] = a - data.start
  OBVIOUS
<1>3. \A l \in text.labels : \E a \in LabelsDefined : l = <<a, a - data.start>>
  BY <1>1
<1>4. \A a \in LabelsDefined : <<a, a - data.start>> \in text.labels
  BY <1>1
<1>5. \A l \in text.labels : \E a \in LabelsDefined : l[2] = a - data.start
  BY <1>2, <1>3
<1>6. \A a \in LabelsDefined : \E l \in text.labels : l[2] = a - data.start
  BY <1>2, <1>4
<1>7. {l[2] : l \in text.labels} = {a - data.start : a \in LabelsDefined}
  BY <1>5, <1>6
<1>8. Len(text.bytes) = addr - data.start
  <2>1. data.start \in data.start .. data.end /\ addr - data.start \in Nat
        /\ data.start + (addr - data.start) <= data.end
    BY <1>1
  <2>2. Len(BytesFrom(data.start, addr - data.start)) = addr - data.start
    BY <1>1, <2>1, BytesOf
  <2> QED
    BY <1>1, <2>2
<1>9. LabelsDefined \subseteq LabelsInside /\ LabelsInside \subseteq Int
  BY <1>1 DEF LabelsDefined, LabelsInside
<1> QED
  BY <1>7, <1>8, <1>9

LEMMA ContentOf ==
    ASSUME data \in DataRegions
    PROVE  /\ Content \in Seq(0 .. 255) /\ Len(Content) = data.end - data.start
           /\ \A k \in 1 .. data.end - data.start : Content[k] = data.bytes[data.start + k - 1]
<1>1. data.start \in Nat /\ data.end \in Nat /\ data.start < data.end
  BY DataFacts
<1>2. /\ data.start \in data.start .. data.end /\ data.end - data.start \in Nat
      /\ data.start + (data.end - data.start) <= data.end
  BY <1>1
<1> QED
  BY <1>2, BytesOf DEF Content

LEMMA DumpStarts == TextInit => Dumped!Init
<1> SUFFICES ASSUME TextInit PROVE Dumped!Init
  OBVIOUS
<1>1. data \in DataRegions /\ data.start \in Nat /\ data.end \in Nat /\ text = NoText
  BY DataFacts DEF TextInit
<1>2. Content \in Seq(0 .. 255) /\ Len(Content) = data.end - data.start
  BY <1>1, ContentOf
<1>3. {a - data.start : a \in LabelsInside} \subseteq 0 .. Len(Content) - 1
  BY <1>1, <1>2 DEF LabelsInside
<1>4. text.bytes = <<>> /\ {l[2] : l \in text.labels} = {}
  BY <1>1 DEF NoText
<1> QED
  BY <1>2, <1>3, <1>4 DEF Dumped!Init

\* A label in front of a piece is one the region has, and has not been defined.
LEMMA DumpLabel ==
    ASSUME TextInv, StartPiece
    PROVE  [Dumped!Next]_(Dumped!dvars)
<1>1. /\ data \in DataRegions /\ data.start \in Nat /\ data.end \in Nat /\ loop = "lines"
      /\ addr \in data.start .. data.end /\ addr < data.end /\ data' = data
  BY DataFacts DEF TextInv, StartPiece
<1>2. /\ text'.bytes = text.bytes
      /\ text'.labels = text.labels \cup {<<a, a - data.start>> : a \in data.labels \cap {addr}}
  BY PieceLabelled
<1>3. Content' = Content /\ LabelsInside' = LabelsInside
      /\ {a - data.start : a \in LabelsInside}' = {a - data.start : a \in LabelsInside}
  BY <1>1 DEF Content, BytesFrom, LabelsInside
<1>4. CASE addr \in data.labels
  <2>1. addr \in LabelsInside /\ addr \notin LabelsDefined
    BY <1>1, <1>4 DEF LabelsInside, LabelsDefined
  <2>2. text'.labels = text.labels \cup {<<addr, addr - data.start>>}
    BY <1>2, <1>4
  <2>3. {l[2] : l \in text'.labels} = {l[2] : l \in text.labels} \cup {addr - data.start}
    <3>0. PICK m : m = addr - data.start
      OBVIOUS
    <3>1. PICK l : l = <<addr, m>> /\ l[2] = m
      <4>1. <<addr, m>>[2] = m
        OBVIOUS
      <4>2. PICK l : l = <<addr, m>>
        OBVIOUS
      <4> QED
        BY <4>1, <4>2
    <3>2. text'.labels = text.labels \cup {l}
      BY <2>2, <3>0, <3>1
    <3> QED
      BY <3>0, <3>1, <3>2
  <2>4. Len(text.bytes) = addr - data.start
    BY DefinedAt
  <2>5. addr - data.start \notin {l[2] : l \in text.labels}
    <3>1. ASSUME NEW a \in LabelsDefined PROVE a - data.start # addr - data.start
      <4>1. a \in Int /\ a # addr
        BY <2>1, DefinedAt
      <4> QED
        BY <1>1, <4>1
    <3> QED
      BY <3>1, DefinedAt
  <2>6. Len(text.bytes) \in {a - data.start : a \in LabelsInside} \ {l[2] : l \in text.labels}
    BY <2>1, <2>4, <2>5
  <2>7. {l[2] : l \in text.labels}' = {l[2] : l \in text.labels} \cup {Len(text.bytes)}
    BY <2>3, <2>4
  <2>8. Dumped!DefineLabel
    BY <1>2, <1>3, <2>6, <2>7 DEF Dumped!DefineLabel
  <2> QED
    BY <2>8 DEF Dumped!Next
<1>5. CASE addr \notin data.labels
  <2>1. text'.labels = text.labels
    BY <1>2, <1>5
  <2> QED
    BY <1>2, <1>3, <2>1 DEF Dumped!dvars
<1> QED
  BY <1>4, <1>5

\* What is printed of a piece has no label inside it.
LEMMA DumpPiece ==
    ASSUME TextInv, loop = "piece", NEW size \in 1 .. len, Prints(size)
    PROVE  Dumped!DumpBytes
<1>1. /\ data \in DataRegions /\ data.start \in Nat /\ data.end \in Nat /\ len \in Nat
      /\ addr \in data.start .. data.end /\ addr + len <= data.end /\ PieceFits /\ data' = data
      /\ text'.bytes = text.bytes \o BytesFrom(addr, size) /\ text'.labels = text.labels
  BY DataFacts DEF TextInv, PieceFits, Prints
<1>2. PICK n \in Nat : n = Len(text.bytes) /\ addr = data.start + n
  BY <1>1, DefinedAt
<1>3. size \in 1 .. Len(Content) - Len(text.bytes)
  BY <1>1, <1>2, ContentOf, SMTT(60)
<1>4. ASSUME NEW p \in {a - data.start : a \in LabelsInside}, p < Len(text.bytes) + size
      PROVE  p \in {l[2] : l \in text.labels}
  <2>1. PICK a \in LabelsInside : p = a - data.start
    OBVIOUS
  <2>2. a \in Int /\ a < addr + size
    <3>1. a \in Int /\ size \in Int
      BY <1>1, DefinedAt
    <3>2. a - data.start < n + size
      BY <1>2, <1>4, <2>1
    <3> QED
      BY <1>1, <1>2, <3>1, <3>2, SMTT(60)
  <2>3. a \notin addr + 1 .. addr + len - 1
    BY <1>1 DEF PieceFits, Marks, LabelsInside
  <2>4. a < addr \/ a = addr
    BY <1>1, <2>2, <2>3
  <2>5. a \in LabelsDefined
    BY <1>1, <2>4 DEF LabelsDefined
  <2> QED
    BY <2>1, <2>5, DefinedAt
<1>5. SubSeq(Content, Len(text.bytes) + 1, Len(text.bytes) + size) = BytesFrom(addr, size)
  <2>1. /\ Content \in Seq(0 .. 255) /\ Len(Content) = data.end - data.start
        /\ \A k \in 1 .. data.end - data.start : Content[k] = data.bytes[data.start + k - 1]
    BY <1>1, ContentOf
  <2>2. n + size <= data.end - data.start
    BY <1>1, <1>2
  <2>3. SubSeq(Content, n + 1, n + size) = [k \in 1 .. size |-> Content[n + k]]
    BY <2>1, <2>2
  <2>4. ASSUME NEW k \in 1 .. size PROVE Content[n + k] = data.bytes[addr + k - 1]
    <3>1. n + k \in 1 .. data.end - data.start /\ data.start + (n + k) - 1 = addr + k - 1
      <4>1. size \in Nat /\ k \in Nat /\ k <= size /\ k > 0
        BY <1>1
      <4> PICK first \in Nat, last \in Nat : first = data.start /\ last = data.end
        BY <1>1
      <4>2. n + k <= last - first /\ n + k > 0 /\ first + (n + k) - 1 = first + n + k - 1
        BY <2>2, <4>1
      <4>3. n + k \in 1 .. last - first
        BY <4>1, <4>2
      <4> QED
        BY <1>2, <4>2, <4>3
    <3> QED
      BY <2>1, <3>1
  <2> QED
    BY <1>2, <2>3, <2>4 DEF BytesFrom
<1>6. UNCHANGED <<Content, {a - data.start : a \in LabelsInside}, {l[2] : l \in text.labels}>>
  BY <1>1 DEF Content, BytesFrom, LabelsInside
<1> QED
  BY <1>1, <1>3, <1>4, <1>5, <1>6 DEF Dumped!DumpBytes

LEMMA DumpStep == TextInv /\ [print_region]_tvars => [Dumped!Next]_(Dumped!dvars)
<1> SUFFICES ASSUME TextInv, [print_region]_tvars PROVE [Dumped!Next]_(Dumped!dvars)
  OBVIOUS
<1>1. CASE StartPiece
  BY <1>1, DumpLabel
<1>2. CASE PrintAddress \/ PrintZeros \/ PrintString \/ PrintByte
  BY <1>2, PrintSteps, DumpPiece DEF Dumped!Next
<1>3. ASSUME data' = data, text'.bytes = text.bytes, text'.labels = text.labels
      PROVE  UNCHANGED Dumped!dvars
  BY <1>3 DEF Dumped!dvars, Content, BytesFrom, LabelsInside
<1>4. CASE PieceDone \/ AddressWithoutLabel \/ RegionDone
  BY <1>3, <1>4, OtherSteps
<1>5. CASE UNCHANGED tvars
  BY <1>3, <1>5 DEF tvars
<1> QED
  BY <1>1, <1>2, <1>4, <1>5 DEF print_region

\* ImplementsDump: however the region is cut into pieces, lines and
\* directives, an assembler gets its bytes in order, each label at its byte.
THEOREM DumpRefinement == TextSpec => ImplementsDump
<1>1. TextInit => Dumped!Init
  BY DumpStarts
<1>2. TextInv /\ [print_region]_tvars => [Dumped!Next]_(Dumped!dvars)
  BY DumpStep
<1> QED
  BY <1>1, <1>2, TextHolds, PTL DEF TextSpec, ImplementsDump, Dumped!Spec

-----------------------------------------------------------------------------
(* The steps of Printer.                                                   *)

\* What Printer makes of the region: the only one, in the only object.
LEMMA ViewFacts ==
    ASSUME TextInv
    PROVE  /\ Printed!Type = "DATA" /\ Printed!End = data.end
           /\ \A a \in data.start .. data.end : Printed!Offset(a) = Offset(a)
           /\ DOMAIN Printed!ObjectFixups = data.fixups
<1>1. /\ data.base \in Nat /\ data.start \in Nat /\ data.end \in Nat
      /\ data.base <= data.start /\ data.start < data.end /\ data.end < AddrSpace
      /\ AddrSpace \in Nat \ {0}
  BY DataFacts, Sizes DEF TextInv
<1>2. Printed!Type = "DATA"
  BY DEF Printed!Type
<1>3. Printed!End = data.end
  <2>1. Printed!End = (data.start + (data.end - data.start)) % AddrSpace
    BY DEF Printed!End, Printed!get_end_address
  <2>2. data.start + (data.end - data.start) = data.end /\ data.end \in 0 .. AddrSpace - 1
    BY <1>1
  <2> QED
    BY <1>1, <2>1, <2>2, SmallMod
<1>4. Printed!ObjectIndex = 1
  <2>1. /\ DOMAIN PrinterView.objects = {1}
        /\ PrinterView.objects[1].base = data.base
        /\ PrinterView.objects[1].size = data.end - data.base
    <3>1. PrinterView.objects
            = <<[base |-> data.base, size |-> data.end - data.base, exec |-> FALSE]>>
      BY DEF PrinterView
    <3>2. PrinterView.objects[1] = [base |-> data.base, size |-> data.end - data.base, exec |-> FALSE]
      BY <3>1
    <3>3. DOMAIN PrinterView.objects = {1}
      BY <3>1
    <3> QED
      BY <3>2, <3>3
  <2>2. data.start \in data.base .. data.base + (data.end - data.base) - 1
    BY <1>1
  <2>3. \A n \in {1} : data.start \in Printed!ObjectBytes(PrinterView.objects[n])
    BY <2>1, <2>2 DEF Printed!ObjectBytes
  <2>4. Printed!get_object_at_address(data.start)
          = CHOOSE n \in {1} : data.start \in Printed!ObjectBytes(PrinterView.objects[n])
    BY <2>1, <2>3 DEF Printed!get_object_at_address, Printed!Objects
  <2> QED
    BY <2>3, <2>4 DEF Printed!ObjectIndex
<1>5. ASSUME NEW a \in data.start .. data.end PROVE Printed!Offset(a) = Offset(a)
  <2>1. Printed!Offset(a) = (a - data.base) % AddrSpace
    BY <1>4 DEF Printed!Offset, PrinterView
  <2>2. a - data.base \in 0 .. AddrSpace - 1
    BY <1>1
  <2> QED
    BY <1>1, <2>1, <2>2, SmallMod DEF Offset
<1>6. DOMAIN Printed!ObjectFixups = data.fixups
  BY <1>4 DEF Printed!ObjectFixups, PrinterView
<1> QED
  BY <1>2, <1>3, <1>5, <1>6

\* The next key of a map, if there is one.
LEMMA NextKey ==
    ASSUME NEW K, K \subseteq Nat, NEW x \in Int, NEW k, k = Printed!get_next_value(K, x)
    PROVE  /\ k # NULL <=> \E j \in K : j > x
           /\ k # NULL => k \in K /\ k > x /\ \A j \in K : j > x => k <= j
<1> DEFINE Behind == {j \in K : j > x}
<1>1. CASE Behind = {}
  <2>1. ~ \E j \in K : j > x
    BY <1>1
  <2>2. ~ \E j \in K : Printed!IsNext(K, x, j)
    BY <2>1 DEF Printed!IsNext
  <2> QED
    BY <2>1, <2>2 DEF Printed!get_next_value
<1>2. CASE Behind # {}
  <2>1. \E j \in Behind : \A i \in Behind : j <= i
    <3>1. Behind \subseteq Nat
      OBVIOUS
    <3> HIDE DEF Behind
    <3> QED
      BY <1>2, <3>1, LeastNat
  <2>2. \E j \in K : Printed!IsNext(K, x, j)
    BY <2>1 DEF Printed!IsNext
  <2>3. k \in K /\ Printed!IsNext(K, x, k)
    BY <2>2 DEF Printed!get_next_value
  <2>4. k \in Int
    BY <2>3
  <2> QED
    BY <1>2, <2>3, <2>4, NullAssumption DEF Printed!IsNext
<1> QED
  BY <1>1, <1>2

\* Both take a piece to be as long.
LEMMA SameLength ==
    ASSUME TextInv, StartPiece
    PROVE  len' = Printed!Least({Printed!End - addr} \cup Printed!ToNextLabel
                                 \cup Printed!ToNextFixup)
<1>1. /\ data \in DataRegions /\ data.start \in Nat /\ data.end \in Nat /\ data.base \in Nat
      /\ addr \in data.start .. data.end /\ addr < data.end
      /\ data.labels \subseteq Nat /\ data.fixups \subseteq Nat /\ addr \in Int
  BY DataFacts DEF TextInv, StartPiece
<1>2. PICK S : S = {data.end - addr}
                   \cup {a - addr : a \in {b \in data.labels : b > addr}}
                   \cup {o - Offset(addr) : o \in {p \in data.fixups : p > Offset(addr)}}
  OBVIOUS
<1>3. PICK off \in Int : off = Offset(addr)
  BY <1>1 DEF Offset
<1>4. S \subseteq Nat /\ S # {}
  <2>1. data.end - addr \in Nat
    BY <1>1
  <2>2. \A a \in data.labels : a > addr => a - addr \in Nat
    BY <1>1
  <2>3. \A o \in data.fixups : o > off => o - off \in Nat
    BY <1>1
  <2> QED
    BY <1>2, <1>3, <2>1, <2>2, <2>3
<1>5. PICK l \in S : l = len' /\ \A y \in S : l <= y
  <2>1. len' = Nearest(S)
    BY <1>2 DEF StartPiece
  <2> QED
    BY <1>4, <2>1, NearestOf
<1>6. PICK k : k = Printed!get_next_value(data.labels, addr)
  OBVIOUS
<1>7. PICK o : o = Printed!get_next_value(data.fixups, off)
  OBVIOUS
<1>8. /\ k # NULL <=> \E j \in data.labels : j > addr
      /\ k # NULL => k \in data.labels /\ k > addr /\ \A j \in data.labels : j > addr => k <= j
  BY <1>1, <1>6, NextKey, SMTT(60)
<1>9. /\ o # NULL <=> \E j \in data.fixups : j > off
      /\ o # NULL => o \in data.fixups /\ o > off /\ \A j \in data.fixups : j > off => o <= j
  <2>1. data.fixups \subseteq Nat /\ off \in Int
    BY <1>1
  <2> QED
    BY <2>1, <1>7, NextKey, SMTT(60)
<1>10. PICK A : A = {data.end - addr} \cup (IF k = NULL THEN {} ELSE {k - addr})
                    \cup (IF o = NULL THEN {} ELSE {o - off})
  OBVIOUS
<1>11. {Printed!End - addr} \cup Printed!ToNextLabel \cup Printed!ToNextFixup = A
  <2>1. Printed!End = data.end /\ Printed!Offset(addr) = off
        /\ DOMAIN Printed!ObjectFixups = data.fixups
    BY <1>1, <1>3, ViewFacts
  <2>2. Printed!ToNextLabel = IF k = NULL THEN {} ELSE {k - addr}
    BY <1>6 DEF Printed!ToNextLabel
  <2>3. Printed!ToNextFixup = IF o = NULL THEN {} ELSE {o - off}
    BY <1>7, <2>1 DEF Printed!ToNextFixup
  <2> QED
    BY <1>10, <2>1, <2>2, <2>3
<1>12. A \subseteq S
  BY <1>2, <1>3, <1>8, <1>9, <1>10
<1>13. l \in A
  <2>1. CASE l = data.end - addr
    BY <1>10, <2>1
  <2>2. CASE \E a \in data.labels : a > addr /\ l = a - addr
    <3>1. PICK a \in data.labels : a > addr /\ l = a - addr
      BY <2>2
    <3>2. k # NULL /\ k \in data.labels /\ k > addr /\ k <= a
      BY <1>8, <3>1
    <3>3. k - addr \in S
      BY <1>2, <3>2
    <3>4. l <= k - addr /\ k \in Int /\ a \in Int
      BY <1>1, <1>5, <3>1, <3>2, <3>3
    <3>5. k = a
      BY <1>1, <3>1, <3>2, <3>4
    <3> QED
      BY <1>10, <3>1, <3>2, <3>5
  <2>3. CASE \E p \in data.fixups : p > off /\ l = p - off
    <3>1. PICK p \in data.fixups : p > off /\ l = p - off
      BY <2>3
    <3>2. o # NULL /\ o \in data.fixups /\ o > off /\ o <= p
      BY <1>9, <3>1
    <3>3. o - off \in S
      BY <1>2, <1>3, <3>2
    <3>4. l <= o - off /\ o \in Int /\ p \in Int
      BY <1>1, <1>5, <3>1, <3>2, <3>3
    <3>5. o = p
      BY <3>1, <3>2, <3>4
    <3> QED
      BY <1>10, <3>1, <3>2, <3>5
  <2> QED
    BY <1>2, <1>3, <1>5, <2>1, <2>2, <2>3
<1>14. Printed!Least(A) = l
  <2>1. \A y \in A : l <= y
    BY <1>5, <1>12
  <2>2. \A x \in A : (\A y \in A : x <= y) => x = l
    <3>1. A \subseteq Int
      BY <1>4, <1>12
    <3> QED
      BY <1>13, <2>1, <3>1
  <2> QED
    BY <1>13, <2>1, <2>2 DEF Printed!Least
<1> QED
  BY <1>5, <1>11, <1>14

\* What a directive, a byte and a label add to the items.
LEMMA ItemsAdded ==
    ASSUME NEW t \in Texts
    PROVE  /\ \A bytes, refs : Directive(t, bytes, refs).items
                = t.items \o Printed!print_line(data.start + Len(t.bytes), Len(bytes), refs)
           /\ \A byte : QuotedByte(t, byte).items
                = t.items \o Printed!print_line(data.start + Len(t.bytes), 1, {})
           /\ \A a : print_label(t, a).items = t.items \o Printed!print_label(a)
<1>1. t.items \in Seq(Items)
  BY DEF Texts
<1>2. \A e : Append(t.items, e) = t.items \o <<e>>
  BY <1>1, AppendIsConcat
<1>3. \A bytes, refs : Directive(t, bytes, refs).items
                         = Append(t.items, Item(data.start + Len(t.bytes), Len(bytes), refs))
  BY DEF Directive, Texts
<1>4. \A byte : QuotedByte(t, byte).items
                  = Append(t.items, Item(data.start + Len(t.bytes), 1, {}))
  BY DEF QuotedByte, Texts
<1>5. \A a : print_label(t, a).items = Append(t.items, Item(a, 0, {}))
  BY DEF print_label, Texts
<1> QED
  BY <1>2, <1>3, <1>4, <1>5 DEF Item, Printed!print_line, Printed!print_label

\* Both see the same words of a piece.
LEMMA SameWords ==
    ASSUME TextInv, loop = "piece", len > 0
    PROVE  /\ Printed!data_is_address <=> data_is_address
           /\ data_is_address => Printed!read_le(addr) = Word(addr)
<1>1. /\ data.start \in Nat /\ data.end \in Nat /\ addr \in data.start .. data.end
      /\ addr + len <= data.end /\ len \in Nat /\ WordSize \in Nat
  BY PieceFacts, Sizes
<1>2. Printed!Offset(addr) = Offset(addr) /\ DOMAIN Printed!ObjectFixups = data.fixups
  BY <1>1, ViewFacts
<1>3. ASSUME data_is_address PROVE Printed!read_le(addr) = Word(addr)
  <2>1. len >= WordSize
    BY <1>3 DEF data_is_address
  <2>2. addr \in data.start .. data.end - WordSize
    BY <1>1, <2>1
  <2>3. PrinterView.words = [a \in data.start .. data.end - WordSize |-> Word(a)]
    BY DEF PrinterView
  <2>4. PrinterView.words[addr] = Word(addr)
    BY <2>2, <2>3
  <2> QED
    BY <2>4 DEF Printed!read_le
<1> QED
  BY <1>2, <1>3 DEF Printed!data_is_address, data_is_address

\* The same line of bytes, ended or not, has the same items.
LEMMA EndLineItems ==
    ASSUME TextInv, loop # "after"
    PROVE  /\ EndLine(text) \in Texts /\ EndLine(text).items = text.items
           /\ EndLine(text).bytes = text.bytes
<1>1. text \in Texts /\ text.ok /\ text.open = (bytes_in_line > 0)
  BY DEF TextInv
<1>2. PICK t : t = EndLine(text)
  OBVIOUS
<1> QED
  BY <1>1, <1>2, EndLineText

LEMMA DirectiveItems ==
    ASSUME TextInv, loop = "piece", len > 0, NEW bytes, NEW refs,
           text' = Directive(EndLine(text), bytes, refs)
    PROVE  text'.items = text.items \o Printed!print_line(addr, Len(bytes), refs)
<1>1. /\ EndLine(text) \in Texts /\ EndLine(text).items = text.items
      /\ EndLine(text).bytes = text.bytes
  BY EndLineItems
<1>2. data.start + Len(text.bytes) = addr
  BY PieceFacts
<1> QED
  BY <1>1, <1>2, ItemsAdded

-----------------------------------------------------------------------------
(* Each step is one of Printer.                                            *)

LEMMA StartPieceAllowed ==
    ASSUME TextInv, StartPiece
    PROVE  Printed!StartPiece
<1>1. /\ loop = "lines" /\ addr < data.end /\ loop' = "piece" /\ data' = data /\ addr' = addr
      /\ addr \in data.labels => text' = print_label(EndLine(text), addr)
      /\ addr \notin data.labels => text' = text
  BY DEF StartPiece
<1>2. text'.items = text.items \o Printed!print_label_at(addr)
  <2>1. CASE addr \in data.labels
    <3>1. EndLine(text) \in Texts /\ EndLine(text).items = text.items
      BY <1>1, EndLineItems
    <3> QED
      BY <1>1, <2>1, <3>1, ItemsAdded DEF Printed!print_label_at
  <2>2. CASE addr \notin data.labels
    <3>1. text.items \in Seq(Items)
      BY DEF TextInv, Texts
    <3>2. text.items \o <<>> = text.items
      BY <3>1, ConcatEmptySeq
    <3> QED
      BY <1>1, <2>2, <3>2 DEF Printed!print_label_at
  <2> QED
    BY <2>1, <2>2
<1>3. Printed!Type = "DATA" /\ Printed!End = data.end
  BY ViewFacts
<1> QED
  BY <1>1, <1>2, <1>3, SameLength DEF Printed!StartPiece

LEMMA AddressAllowed ==
    ASSUME TextInv, PrintAddress
    PROVE  Printed!PrintAddress
<1>1. /\ loop = "piece" /\ len > 0 /\ data_is_address /\ Word(addr) \in data.labels
      /\ text' = Directive(EndLine(text), WordBytes(Word(addr)), {Word(addr)})
      /\ loop' = loop /\ data' = data /\ addr' = addr + WordSize /\ len' = len - WordSize
  BY DEF PrintAddress, PrintDirective, Advance
<1>2. Len(WordBytes(Word(addr))) = WordSize
  BY Sizes DEF WordBytes
<1>3. text'.items = text.items \o Printed!print_line(addr, WordSize, {Word(addr)})
  BY <1>1, <1>2, DirectiveItems
<1>4. Printed!data_is_address /\ Printed!read_le(addr) = Word(addr)
  BY <1>1, SameWords
<1> QED
  BY <1>1, <1>3, <1>4 DEF Printed!PrintAddress

LEMMA WithoutLabelAllowed ==
    ASSUME TextInv, AddressWithoutLabel
    PROVE  Printed!AddressWithoutLabel
<1>1. /\ loop = "piece" /\ len > 0 /\ data_is_address /\ Word(addr) \notin data.labels
      /\ loop' = "aborted" /\ text' = EndLine(text) /\ data' = data /\ addr' = addr /\ len' = len
  BY DEF AddressWithoutLabel
<1>2. text'.items = text.items
  BY <1>1, EndLineItems
<1>3. Printed!data_is_address /\ Printed!read_le(addr) = Word(addr)
  BY <1>1, SameWords
<1> QED
  BY <1>1, <1>2, <1>3 DEF Printed!AddressWithoutLabel

\* A run of zeros or characters.
LEMMA RunAllowed ==
    ASSUME TextInv, loop = "piece", NEW size \in MinRun .. len, PrintsRun(size)
    PROVE  Printed!PrintData
<1>1. /\ len > 0 /\ ~ data_is_address /\ text' = Directive(EndLine(text), BytesFrom(addr, size), {})
      /\ loop' = loop /\ data' = data /\ addr' = addr + size /\ len' = len - size
  BY DEF PrintsRun, PrintDirective, Advance
<1>2. Len(BytesFrom(addr, size)) = size
  <2>1. size \in Nat
    BY <1>1, PieceFacts, Sizes
  <2> QED
    BY <2>1 DEF BytesFrom
<1>3. text'.items = text.items \o Printed!print_line(addr, size, {})
  BY <1>1, <1>2, DirectiveItems
<1>4. ~ Printed!data_is_address
  BY <1>1, SameWords
<1>5. size \in {1} \cup Printed!RunSizes
  BY DEF Printed!RunSizes
<1> QED
  BY <1>1, <1>3, <1>4, <1>5 DEF Printed!PrintData

LEMMA ByteAllowed ==
    ASSUME TextInv, PrintByte
    PROVE  Printed!PrintData
<1>1. /\ loop = "piece" /\ len > 0 /\ ~ data_is_address /\ text' = ByteWritten
      /\ loop' = loop /\ data' = data /\ addr' = addr + 1 /\ len' = len - 1
  BY DEF PrintByte, Advance
<1>2. PICK t : t = IF bytes_in_line = 0 THEN OpenQuote(text) ELSE text
  OBVIOUS
<1>3. text \in Texts /\ data.start + Len(text.bytes) = addr
  BY <1>1, PieceFacts
<1>4. t \in Texts /\ t.items = text.items /\ t.bytes = text.bytes
  BY <1>2, <1>3 DEF OpenQuote, Texts
<1>5. PICK d : d = QuotedByte(t, data.bytes[addr])
  OBVIOUS
<1>6. d.items = text.items \o Printed!print_line(addr, 1, {})
  BY <1>3, <1>4, <1>5, ItemsAdded
<1>7. text' = IF bytes_in_line + 1 = LineBytes THEN CloseQuote(d) ELSE d
  BY <1>1, <1>2, <1>5 DEF ByteWritten
<1>8. text'.items = d.items
  <2>1. CloseQuote(d).items = d.items
    BY <1>4, <1>5 DEF CloseQuote, QuotedByte, Texts
  <2> QED
    BY <1>7, <2>1
<1>9. ~ Printed!data_is_address
  BY <1>1, SameWords
<1> QED
  BY <1>1, <1>6, <1>8, <1>9 DEF Printed!PrintData

LEMMA PrinterStep ==
    TextInv /\ [print_region]_tvars => [Printed!print_region]_<<loop, addr, len, text.items>>
<1> SUFFICES ASSUME TextInv, [print_region]_tvars
             PROVE  [Printed!print_region]_<<loop, addr, len, text.items>>
  OBVIOUS
<1>1. CASE StartPiece
  BY <1>1, StartPieceAllowed DEF Printed!print_region
<1>2. CASE PieceDone
  BY <1>2 DEF PieceDone, Printed!PieceDone, Printed!print_region
<1>3. CASE PrintAddress
  BY <1>3, AddressAllowed DEF Printed!print_region
<1>4. CASE AddressWithoutLabel
  BY <1>4, WithoutLabelAllowed DEF Printed!print_region
<1>5. CASE PrintZeros \/ PrintString
  BY <1>5, ZerosPrint, StringPrints, RunAllowed DEF Printed!print_region
<1>6. CASE PrintByte
  BY <1>6, ByteAllowed DEF Printed!print_region
<1>7. CASE RegionDone
  <2>1. /\ loop = "lines" /\ addr >= data.end /\ loop' = "after" /\ text' = EndLine(text)
        /\ data' = data /\ addr' = addr /\ len' = len
    BY <1>7 DEF RegionDone
  <2>2. text'.items = text.items
    BY <2>1, EndLineItems
  <2>3. Printed!End = data.end
    BY ViewFacts
  <2> QED
    BY <2>1, <2>2, <2>3 DEF Printed!RegionDone, Printed!print_region
<1>8. CASE UNCHANGED tvars
  BY <1>8 DEF tvars
<1> QED
  BY <1>1, <1>2, <1>3, <1>4, <1>5, <1>6, <1>7, <1>8 DEF print_region

\* ImplementsPrinter: what is shown of Printer, for runs of zeros and characters
\* anywhere, holds for the runs the code finds in the bytes.
THEOREM PrinterRefinement == TextSpec => ImplementsPrinter
<1>1. TextInv /\ [print_region]_tvars => [Printed!print_region]_<<loop, addr, len, text.items>>
  BY PrinterStep
<1> QED
  BY <1>1, TextHolds, PTL DEF TextSpec, ImplementsPrinter

=============================================================================
