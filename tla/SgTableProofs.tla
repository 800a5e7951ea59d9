---------------------------- MODULE SgTableProofs ----------------------------
(* Proofs about SgTable, for any size of pages and integers, any limits of    *)
(* the allocators, any buffers and any choice of failures: what a call holds, *)
(* which pages it has pinned, and which bytes its descriptors move.           *)
EXTENDS SgTable, FiniteSetTheorems, TLAPS

-----------------------------------------------------------------------------
(* Arithmetic.                                                             *)

\* Quotient and remainder.
LEMMA DivMod ==
    ASSUME NEW a \in Int, NEW b \in Nat \ {0}
    PROVE  /\ a \div b \in Int /\ a % b \in Int
           /\ a = (a \div b) * b + (a % b)
           /\ 0 <= a % b /\ a % b < b
BY SMT

\* A multiple of a page, or more, is at least a page.
LEMMA Multiple ==
    ASSUME NEW b \in Nat \ {0}, NEW k \in Int, k >= 1
    PROVE  k * b >= b
<1>1. k * b = (k - 1) * b + b
    OBVIOUS
<1>2. k - 1 \in Nat
    OBVIOUS
<1>3. \A m \in Nat : m * b >= 0
    OBVIOUS
<1> QED
    BY <1>1, <1>2, <1>3

\* A number has one quotient and one remainder.
LEMMA DivUnique ==
    ASSUME NEW b \in Nat \ {0}, NEW k \in Int, NEW r \in Int, 0 <= r, r < b
    PROVE  (k * b + r) \div b = k /\ (k * b + r) % b = r
<1> DEFINE a == k * b + r
           q == a \div b
           s == a % b
<1>1. a \in Int /\ q \in Int /\ s \in Int /\ a = q * b + s /\ 0 <= s /\ s < b
    BY DivMod
<1> HIDE DEF q, s
<1>2. (q - k) * b = r - s
    BY <1>1
<1>3. r - s < b /\ s - r < b
    BY <1>1
<1>4. q = k
  <2>1. CASE q - k >= 1
    <3>1. (q - k) * b >= b
        BY <1>1, <2>1, Multiple
    <3> QED
        BY <1>1, <1>2, <1>3, <3>1
  <2>2. CASE k - q >= 1
    <3>1. (k - q) * b >= b
        BY <1>1, <2>2, Multiple
    <3>2. (k - q) * b = s - r
        BY <1>1
    <3> QED
        BY <1>1, <1>3, <3>1, <3>2
  <2> QED
    BY <1>1, <2>1, <2>2
<1> QED
    BY <1>1, <1>4 DEF q, s

\* A number below the modulus is its own remainder.
LEMMA ModSmall ==
    ASSUME NEW b \in Nat \ {0}, NEW r \in Int, 0 <= r, r < b
    PROVE  r % b = r
<1>1. (0 * b + r) % b = r
    BY DivUnique
<1> QED
    BY <1>1

\* Multiples are ordered like their factors.
LEMMA Monotone ==
    ASSUME NEW b \in Nat \ {0}, NEW j \in Int, NEW k \in Int, j <= k
    PROVE  j * b <= k * b /\ (j < k => j * b + b <= k * b)
<1>1. k * b = j * b + (k - j) * b
    OBVIOUS
<1>2. CASE j = k
    BY <1>2
<1>3. CASE j < k
  <2>1. (k - j) * b >= b
    BY <1>3, Multiple
  <2>2. j * b \in Int /\ k * b \in Int /\ (k - j) * b \in Int
    OBVIOUS
  <2> QED
    BY <1>1, <2>1, <2>2
<1> QED
    BY <1>2, <1>3

\* Division keeps the order.
LEMMA DivMonotone ==
    ASSUME NEW b \in Nat \ {0}, NEW x \in Int, NEW y \in Int, x <= y
    PROVE  x \div b <= y \div b
<1> DEFINE j == x \div b
           k == y \div b
           r == x % b
           s == y % b
<1>1. /\ j \in Int /\ k \in Int /\ r \in Int /\ s \in Int
      /\ x = j * b + r /\ 0 <= r /\ r < b
      /\ y = k * b + s /\ 0 <= s /\ s < b
    BY DivMod
<1> HIDE DEF j, k, r, s
<1>2. CASE k < j
  <2>1. k * b + b <= j * b
    BY <1>1, <1>2, Monotone
  <2> QED
    BY <1>1, <2>1
<1>3. CASE j <= k
    BY <1>3 DEF j, k
<1> QED
    BY <1>1, <1>2, <1>3

\* Where a number of bytes is added to an address, whole pages add up.
LEMMA DivShift ==
    ASSUME NEW b \in Nat \ {0}, NEW x \in Int, NEW k \in Int,
           NEW y \in Int, k * b <= (x % b) + y, (x % b) + y < k * b + b
    PROVE  (x + y) \div b = (x \div b) + k
<1> DEFINE q == x \div b
           r == x % b
           s == r + y - k * b
<1>1. q \in Int /\ r \in Int /\ x = q * b + r
    BY DivMod
<1>2. s \in Int /\ 0 <= s /\ s < b
  <2> DEFINE p == k * b
  <2>1. p \in Int /\ p <= r + y /\ r + y < p + b
    OBVIOUS
  <2> HIDE DEF p, r
  <2>2. r + y - p \in Int /\ 0 <= r + y - p /\ r + y - p < b
    BY <1>1, <2>1
  <2> QED
    BY <2>2 DEF p
<1> HIDE DEF q, r
<1> DEFINE j == q + k
<1>3. x + y = j * b + s /\ j \in Int
    BY <1>1
<1> HIDE DEF s, j
<1>4. (j * b + s) \div b = j
    BY <1>2, <1>3, DivUnique
<1> QED
    BY <1>3, <1>4 DEF q, j
-----------------------------------------------------------------------------
(* The pages of the buffer.                                                *)

\* get_pages_nr() counts the pages that the buffer reaches into, if its
\* difference does not wrap.
LEMMA PagesNr ==
    ASSUME NEW b \in Nat, NEW l \in Nat, (b % PageSize) + l + PageSize - 1 < ULong
    PROVE  /\ get_pages_nr(b, l) \in Int
           /\ (b % PageSize) + l <= get_pages_nr(b, l) * PageSize
           /\ (get_pages_nr(b, l) - 1) * PageSize < (b % PageSize) + l
<1> DEFINE o == b % PageSize
           v == o + l + PageSize - 1
           A == b + l + PageSize - 1
           q == A \div ULong
           d == (A % ULong) - PageStart(b)
<1>1. PageSize \in Nat \ {0} /\ ULong \in Nat \ {0}
    BY SgAssumption
<1>2. o \in Int /\ 0 <= o
    BY <1>1, DivMod
<1>3. A \in Int /\ v \in Int /\ 0 <= v /\ v < ULong
    BY <1>1, <1>2
<1>4. q \in Int /\ A % ULong \in Int /\ A = q * ULong + (A % ULong)
    BY <1>1, <1>3, DivMod
<1>5. d = (-q) * ULong + v /\ -q \in Int
  <2> HIDE DEF q
  <2>1. (-q) * ULong = -(q * ULong)
    BY <1>1, <1>4
  <2>2. A % ULong = A - q * ULong /\ PageStart(b) = b - o
    BY <1>1, <1>4 DEF PageStart
  <2> QED
    BY <1>1, <1>2, <1>4, <2>1, <2>2
<1>6. d % ULong = v
  <2> DEFINE p == -q
  <2>1. p \in Int /\ d = p * ULong + v
    BY <1>5
  <2> HIDE DEF p, v, d
  <2> QED
    BY <1>1, <1>3, <2>1, DivUnique
<1> DEFINE n == v \div PageSize
<1>7. get_pages_nr(b, l) = n
    BY <1>6 DEF get_pages_nr, PagesBetween
<1>8. n \in Int /\ v % PageSize \in Int /\ v = n * PageSize + (v % PageSize)
      /\ 0 <= v % PageSize /\ v % PageSize < PageSize
    BY <1>1, <1>3, DivMod
<1>9. n \in Int /\ n * PageSize <= v /\ v < n * PageSize + PageSize
  <2> HIDE DEF n, v
  <2>1. n * PageSize \in Int
    BY <1>1, <1>8
  <2> QED
    BY <1>1, <1>3, <1>8, <2>1
<1>10. o + l <= n * PageSize /\ (n - 1) * PageSize < o + l
  <2> HIDE DEF n, o
  <2>1. n * PageSize \in Int /\ (n - 1) * PageSize = n * PageSize - PageSize
    BY <1>1, <1>9
  <2> QED
    BY <1>1, <1>2, <1>9, <2>1
<1> QED
    BY <1>7, <1>9, <1>10

\* So it is the number of different pages that hold a byte of the buffer.
LEMMA TouchedPages ==
    ASSUME NEW b \in Nat, NEW l \in Nat \ {0}, NEW n \in Nat,
           (b % PageSize) + l <= n * PageSize,
           (n - 1) * PageSize < (b % PageSize) + l
    PROVE  Cardinality({a \div PageSize : a \in b .. b + l - 1}) = n
<1> DEFINE P == PageSize
           o == b % P
           q == b \div P
           Pages == {a \div P : a \in b .. b + l - 1}
<1>1. P \in Nat \ {0}
    BY SgAssumption
<1>2. q \in Int /\ o \in Int /\ b = q * P + o /\ 0 <= o /\ o < P
    BY <1>1, DivMod
<1>3. (b + (l - 1)) \div P = q + (n - 1)
  <2> DEFINE k == n - 1
             y == l - 1
  <2>1. k \in Int /\ y \in Int
    OBVIOUS
  <2>2. k * P <= o + y /\ o + y < k * P + P
    <3>1. k * P \in Int /\ k * P < o + l /\ n * P = k * P + P
        BY <1>1
    <3> HIDE DEF k, o
    <3> QED
        BY <1>1, <1>2, <3>1
  <2> HIDE DEF k, y
  <2>3. (b + y) \div P = q + k
    BY <1>1, <2>1, <2>2, DivShift
  <2> QED
    BY <2>3 DEF k, y
<1>4. b + l - 1 = b + (l - 1) /\ b + l - 1 \in Int
    OBVIOUS
<1>5. ASSUME NEW a \in b .. b + l - 1
      PROVE  a \div P \in q .. q + n - 1
  <2>1. a \in Int /\ a \div P \in Int /\ b <= a /\ a <= b + l - 1
    BY <1>1, DivMod
  <2>2. q <= a \div P /\ a \div P <= (b + l - 1) \div P
    BY <1>1, <1>4, <2>1, DivMonotone
  <2> HIDE DEF q
  <2> QED
    BY <1>2, <1>3, <1>4, <2>1, <2>2
<1>6. ASSUME NEW k \in q .. q + n - 1
      PROVE  \E a \in b .. b + l - 1 : k = a \div P
  <2>0. k \in Int /\ q <= k /\ k <= q + n - 1
    BY <1>2
  <2>1. CASE k = q
    BY <2>1
  <2>2. CASE k > q
    <3>1. k * P \in Int /\ (q + n - 1) * P \in Int
        BY <1>1, <1>2, <2>0
    <3>2. (k * P) \div P = k
      <4>1. (k * P + 0) \div P = k
        BY <1>1, <2>0, DivUnique
      <4> QED
        BY <3>1, <4>1
    <3> HIDE DEF q, o
    <3>3. q * P + P <= k * P
        BY <1>1, <1>2, <2>0, <2>2, Monotone
    <3>4. k * P <= (q + n - 1) * P
      <4> DEFINE j == q + n - 1
      <4>1. j \in Int /\ k <= j
        BY <1>2, <2>0
      <4> HIDE DEF j
      <4>2. k * P <= j * P
        BY <1>1, <2>0, <4>1, Monotone
      <4> QED
        BY <4>2 DEF j
    <3>5. (q + n - 1) * P = q * P + (n - 1) * P
        BY <1>1, <1>2
    <3>6. (n - 1) * P < o + l
        BY DEF o
    <3>7. q * P \in Int /\ (n - 1) * P \in Int
        BY <1>1, <1>2
    <3>8. k * P \in b .. b + l - 1
        BY <1>1, <1>2, <3>1, <3>3, <3>4, <3>5, <3>6, <3>7
    <3> QED
        BY <3>2, <3>8
  <2> QED
    BY <1>2, <2>0, <2>1, <2>2
<1>7. Pages = q .. q + n - 1
    BY <1>5, <1>6
<1>8. Cardinality(q .. q + n - 1) = n
  <2> HIDE DEF q
  <2>1. q + n - 1 \in Int
    BY <1>2
  <2> QED
    BY <1>2, <2>1, FS_Interval
<1> QED
    BY <1>7, <1>8
\* The buffer begins Off bytes into its first page.  A short list is one that
\* kmalloc() gives the memory for: its bytes can be counted in 32 bits.
Off == buf % PageSize
Small == NoWrap /\ ListFits

-----------------------------------------------------------------------------
(* The inductive invariant.                                                *)

\* Nothing is released that is not held, unless the array of pages was never
\* filled in.
WrongInv == wrong => wild

\* What the call holds at each of its steps.
HeldInv ==
    /\ pc = "get_pages" => held = {"args"}
    /\ pc \in {"pages_tmp", "sgt"} => held = {"args", "blocks"}
    /\ pc = "pin" => held = {"args", "blocks", "pages"}
    /\ pc = "table" => held = {"args", "blocks", "sgt"}
    /\ pc \in {"fill", "map"} => held = {"args", "blocks", "sgt", "table"}
    /\ pc \in {"set_desc", "teardown_sg"} =>
          held = {"args", "blocks", "sgt", "table", "sgmap"}
    /\ pc = "map_desc" => held = {"args", "blocks", "sgt", "table", "sgmap", "descs"}
    /\ pc \in {"elements", "run"} =>
          held = {"args", "blocks", "sgt", "table", "sgmap", "descs", "single"}
    /\ pc = "kfree" => "args" \in held /\ held \subseteq {"args", "sgmap"}
    /\ pc = "user" => held \subseteq {"sgmap"} \/ (held = {"args"} /\ blocks_nr = 0)

\* References to pages are held from the pinning to the teardown.
PinInv ==
    /\ pc \in {"user", "get_pages", "pages_tmp", "pin", "kfree"} => pinned = 0
    /\ pc \in Using \cup {"teardown_sg"} /\ ~wild => pinned = blocks_nr

\* blocks_nr is the number of pages that the buffer reaches into.
Counted == {"pages_tmp", "pin", "teardown_sg"} \cup Using
NrInv ==
    /\ pc = "get_pages" => blocks_nr = 0
    /\ pc \in Counted => blocks_nr > 0
    /\ pc \in Counted /\ NoWrap =>
          /\ Off + len <= blocks_nr * PageSize
          /\ (blocks_nr - 1) * PageSize < Off + len

\* The lists grow with the index of the loop that builds them.
Mapped == {"set_desc", "map_desc", "elements", "run"}
LenInv ==
    /\ pc \in {"get_pages", "pages_tmp", "pin", "sgt", "table"} => i = 0 /\ sg = <<>>
    /\ pc \in {"get_pages", "pages_tmp", "pin", "sgt", "table", "fill"} => dma = <<>>
    /\ pc \in {"get_pages", "pages_tmp", "pin", "sgt", "table", "fill", "map",
               "set_desc", "map_desc"} => descs = <<>>
    /\ pc = "fill" => Len(sg) = i
    /\ pc \in {"map"} \cup Mapped => Len(sg) = blocks_nr
    /\ pc = "map" => Len(dma) <= i /\ (i > 0 => Len(dma) > 0)
    /\ pc \in Mapped => Len(dma) = blocks_nr
    /\ pc = "elements" => Len(descs) = i
    /\ pc = "run" => Len(descs) = blocks_nr
    /\ pc \in {"map_desc", "elements", "run"} => ListFits

\* The buffer's bytes that lie before page k of it, and its scatter list.
Start(k) == IF k = 0 THEN 0 ELSE IF k = blocks_nr THEN len ELSE k * PageSize - Off
FilledUpTo(m) ==
    \A k \in 1 .. m : /\ sg[k].pos = Off + Start(k - 1)
                      /\ sg[k].len = Start(k) - Start(k - 1)

FillInv ==
    /\ pc = "fill" /\ Small => count = len - Start(i) /\ FilledUpTo(i)
    /\ pc = "map" /\ Small => FilledUpTo(blocks_nr)

\* The first m entries of list d are the e bytes from position o, without gaps.
Contiguous(d, m, o, e) ==
    /\ m > 0 => d[1].pos = o /\ d[m].pos + d[m].len = o + e
    /\ \A k \in 1 .. m - 1 : d[k].pos + d[k].len = d[k + 1].pos
    /\ \A k \in 1 .. m : o <= d[k].pos /\ d[k].pos + d[k].len <= o + e

\* Those of the mapped list are the first e bytes of the buffer.
Covers(m, e) == Contiguous(dma, m, Off, e)
CoversAll(m) == Covers(m, len) /\ \A k \in m + 1 .. blocks_nr : dma[k].len = 0

MapInv ==
    /\ pc = "map" /\ Small => Covers(Len(dma), Start(i))
    /\ pc \in {"set_desc", "map_desc"} /\ Small =>
          \E m \in 1 .. blocks_nr : CoversAll(m)
    /\ pc \in {"elements", "run"} /\ Small =>
          \E m \in 1 .. blocks_nr :
              /\ CoversAll(m)
              /\ xfer_len = IF i < m THEN dma[i + 1].pos - Off ELSE len

\* The elements so far move the first xfer_len bytes of the buffer.
ElementsInv ==
    /\ pc = "run" => i = blocks_nr
    /\ pc \in {"elements", "run"} =>
          \A k \in 1 .. i : descs[k].ie <=> k = blocks_nr
    /\ pc \in {"elements", "run"} /\ Small =>
          \A k \in 1 .. i :
              /\ descs[k].len > 0 => descs[k].host = Off + descs[k].dev
              /\ descs[k].dev + descs[k].len = IF k = i THEN xfer_len ELSE descs[k + 1].dev

SgInv ==
    /\ TypeOK /\ WrongInv /\ HeldInv /\ PinInv
    /\ NrInv /\ LenInv /\ FillInv /\ MapInv /\ ElementsInv
-----------------------------------------------------------------------------
(* Type correctness.                                                       *)

\* An element at the end of a sequence.
LEMMA AppendFacts ==
    ASSUME NEW S, NEW s \in Seq(S), NEW e \in S
    PROVE  /\ Append(s, e) \in Seq(S)
           /\ Len(s) \in Nat /\ Len(Append(s, e)) = Len(s) + 1
           /\ \A k \in 1 .. Len(s) : Append(s, e)[k] = s[k]
           /\ Append(s, e)[Len(s) + 1] = e
OBVIOUS

\* An entry joined to the last one of a list.
LEMMA JoinFacts ==
    ASSUME NEW d \in Seq(Entries), Len(d) > 0, NEW l \in Nat,
           NEW e, e = [d EXCEPT ![Len(d)].len = @ + l]
    PROVE  /\ e \in Seq(Entries) /\ Len(e) = Len(d)
           /\ \A k \in 1 .. Len(d) : e[k].pos = d[k].pos
           /\ \A k \in 1 .. Len(d) : k # Len(d) => e[k].len = d[k].len
           /\ e[Len(d)].len = d[Len(d)].len + l
<1> DEFINE m == Len(d)
           x == d[m]
           y == [pos |-> x.pos, len |-> x.len + l]
<1>1. m \in Nat /\ m \in 1 .. m /\ d \in [1 .. m -> Entries]
    OBVIOUS
<1>2. e = [d EXCEPT ![m] = [x EXCEPT !.len = x.len + l]]
    OBVIOUS
<1>3. x \in Entries
    BY <1>1
<1> HIDE DEF m, x
<1>4. [x EXCEPT !.len = x.len + l] = y
    BY <1>3 DEF Entries
<1>5. y \in Entries /\ y.pos = x.pos /\ y.len = x.len + l
    BY <1>3 DEF Entries
<1> HIDE DEF y
<1>6. e = [d EXCEPT ![m] = y]
    BY <1>2, <1>4
<1>7. e \in [1 .. m -> Entries] /\ e[m] = y /\ \A k \in 1 .. m : k # m => e[k] = d[k]
    BY <1>1, <1>5, <1>6
<1>8. e \in Seq(Entries) /\ Len(e) = m
    BY <1>1, <1>7
<1>9. \A k \in 1 .. m : e[k].pos = d[k].pos
    BY <1>5, <1>7 DEF x
<1>10. e[m].len = d[m].len + l
    BY <1>5, <1>7 DEF x
<1> QED
    BY <1>7, <1>8, <1>9, <1>10 DEF m

\* What the loop over the pages enters is within the page and the bytes left.
LEMMA NbytesType ==
    ASSUME TypeOK
    PROVE  /\ (buf + len - count) % PageSize \in 0 .. PageSize - 1
           /\ Nbytes((buf + len - count) % PageSize) \in 0 .. count
<1> DEFINE off == (buf + len - count) % PageSize
           c == count % UInt
<1>1. PageSize \in Nat \ {0} /\ UInt \in Nat \ {0}
    BY SgAssumption
<1>2. buf \in Nat /\ len \in Nat /\ count \in 0 .. len /\ count \in Int
    BY DEF TypeOK
<1>3. off \in Int /\ 0 <= off /\ off < PageSize
    BY <1>1, <1>2, DivMod
<1>4. c \in Int /\ 0 <= c /\ c <= count
  <2>1. c \in Int /\ 0 <= c /\ c < UInt
    BY <1>1, <1>2, DivMod
  <2>2. CASE count < UInt
    BY <1>1, <1>2, <2>1, <2>2, ModSmall
  <2>3. CASE count >= UInt
    <3> HIDE DEF c
    <3> QED
        BY <1>1, <1>2, <2>1, <2>3
  <2> QED
    BY <1>1, <1>2, <2>2, <2>3
<1> HIDE DEF off, c
<1>5. Nbytes(off) = IF PageSize - off < c THEN PageSize - off ELSE c
    BY DEF Nbytes, c
<1>6. off \in 0 .. PageSize - 1 /\ Nbytes(off) \in 0 .. count
    BY <1>1, <1>2, <1>3, <1>4, <1>5
<1> QED
    BY <1>6 DEF off

\* An element of the list of descriptors.
Elements == [host : Nat, dev : Nat, len : 0 .. UInt - 1, ie : BOOLEAN]

\* set_data_element() makes one.
LEMMA ElementType ==
    ASSUME NEW h \in Nat, NEW d \in Nat, NEW l \in Nat, NEW last \in BOOLEAN
    PROVE  set_data_element(h, d, l, last) \in Elements
<1>1. UInt \in Nat \ {0}
    BY SgAssumption
<1>2. l % UInt \in 0 .. UInt - 1
    BY <1>1, DivMod
<1> QED
    BY <1>2, Zenon DEF set_data_element, Elements

\* The parts of the type invariant, and the names of its sets.
Locations == {"user", "oops", "get_pages", "pages_tmp", "pin", "sgt", "table", "fill",
              "map", "set_desc", "map_desc", "elements", "run", "teardown_sg", "kfree"}
Resources == {"args", "blocks", "pages", "sgt", "table", "sgmap", "descs", "single"}
NumbersOK ==
    /\ buf \in Nat /\ len \in Nat
    /\ blocks_nr \in 0 .. VmallocMax /\ i \in 0 .. blocks_nr
    /\ count \in 0 .. len /\ xfer_len \in Nat
ListsOK == sg \in Seq(Entries) /\ dma \in Seq(Entries) /\ descs \in Seq(Elements)
MemoryOK ==
    /\ pinned \in 0 .. VmallocMax /\ wild \in BOOLEAN /\ wrong \in BOOLEAN
    /\ held \subseteq Resources

\* Together they are the type invariant.
LEMMA TypeParts == TypeOK <=> pc \in Locations /\ NumbersOK /\ ListsOK /\ MemoryOK
BY Zenon DEF TypeOK, Locations, NumbersOK, ListsOK, MemoryOK, Resources, Elements


\* Every step keeps the types of the numbers.
LEMMA StepNumbersOK ==
    ASSUME TypeOK, LenInv, Next
    PROVE  NumbersOK'
<1>0. PageSize \in Nat \ {0} /\ UInt \in Nat \ {0} /\ VmallocMax \in Nat /\ VmallocMax < UInt
    BY SgAssumption
<1>01. NumbersOK
    BY TypeParts
<1>1. ASSUME UNCHANGED <<args, blocks_nr, i, count, xfer_len>>
      PROVE  NumbersOK'
    BY <1>01, <1>1 DEF NumbersOK, args
<1>2. CASE eon_hdma
  <2>1. buf' \in Nat /\ len' \in Nat
    BY <1>2, SgAssumption DEF eon_hdma
  <2> QED
    BY <1>0, <1>2, <2>1 DEF eon_hdma, NumbersOK
<1>3. CASE vmalloc_blocks
  <2>1. CASE blocks_nr' = blocks_nr
    BY <1>1, <1>3, <2>1 DEF vmalloc_blocks
  <2>2. CASE /\ Goto("get_pages", "pages_tmp")
             /\ get_pages_nr(buf, len) \in 1 .. VmallocMax
             /\ blocks_nr' = get_pages_nr(buf, len) % UInt
    <3>1. blocks_nr' \in 0 .. VmallocMax /\ i = 0
        BY <1>0, <2>2, ModSmall DEF LenInv, Goto
    <3> QED
        BY <1>01, <1>3, <3>1 DEF vmalloc_blocks, NumbersOK, args
  <2> QED
    BY <1>3, <2>1, <2>2 DEF vmalloc_blocks
<1>4. ASSUME UNCHANGED <<args, blocks_nr>>,
             i' \in {i, 0} \/ (i < blocks_nr /\ i' = i + 1),
             count' \in 0 .. len, xfer_len' \in Nat
      PROVE  NumbersOK'
    BY <1>01, <1>4 DEF NumbersOK, args
<1>5. CASE sg_alloc_table
    BY <1>01, <1>4, <1>5 DEF sg_alloc_table, dpu_put_pages, NumbersOK
<1>6. CASE fill_sg
  <2> DEFINE n == Nbytes((buf + len - count) % PageSize)
  <2>1. n \in 0 .. count
    BY NbytesType
  <2> HIDE DEF n
  <2>2. count' \in {count, count - n}
    BY <1>6 DEF fill_sg, n
  <2>3. count' \in 0 .. len
    BY <1>01, <2>1, <2>2 DEF NumbersOK
  <2> QED
    BY <1>01, <1>4, <1>6, <2>3 DEF fill_sg, NumbersOK
<1>7. CASE pci_map_sg
    BY <1>01, <1>4, <1>7 DEF pci_map_sg, dpu_put_pages, NumbersOK
<1>8. CASE pci_map_single
    BY <1>01, <1>4, <1>8 DEF pci_map_single, NumbersOK
<1>9. CASE next_element
  <2>1. i + 1 \in 1 .. Len(dma) /\ dma \in Seq(Entries)
    BY <1>01, <1>9, TypeParts DEF next_element, LenInv, Mapped, Goto, NumbersOK, ListsOK
  <2>2. dma[i + 1] \in Entries
    BY <2>1
  <2>3. dma[i + 1].len \in Nat
    BY <2>2 DEF Entries
  <2> QED
    BY <1>01, <1>4, <1>9, <2>3 DEF next_element, NumbersOK
<1>10. CASE \/ vmalloc_pages \/ get_user_pages_fast \/ kzalloc_sgt \/ set_hdma_desc
            \/ set_link_element \/ teardown_dma_desc \/ dpu_teardown_sg \/ kfree
    BY <1>1, <1>10, Zenon
    DEF vmalloc_pages, get_user_pages_fast, kzalloc_sgt, set_hdma_desc,
        set_link_element, teardown_dma_desc, dpu_teardown_sg, dpu_put_pages, kfree
<1> QED
    BY <1>2, <1>3, <1>5, <1>6, <1>7, <1>8, <1>9, <1>10 DEF Next

\* Every step keeps the types of the lists.
LEMMA StepListsOK ==
    ASSUME TypeOK, LenInv, Next
    PROVE  ListsOK'
<1>0. PageSize \in Nat \ {0} /\ NumbersOK /\ ListsOK
    BY SgAssumption, TypeParts
<1>1. ASSUME UNCHANGED lists
      PROVE  ListsOK'
    BY <1>0, <1>1 DEF ListsOK, lists
<1>2. CASE eon_hdma
    BY <1>2 DEF eon_hdma, ListsOK
<1>3. CASE fill_sg
  <2> DEFINE off == (buf + len - count) % PageSize
             e == [pos |-> i * PageSize + off, len |-> Nbytes(off)]
  <2>1. CASE sg' = Append(sg, e)
    <3>1. off \in 0 .. PageSize - 1 /\ Nbytes(off) \in 0 .. count
        BY NbytesType
    <3> HIDE DEF off
    <3>2. i * PageSize \in Nat /\ off \in Nat /\ Nbytes(off) \in Nat
        BY <1>0, <3>1 DEF NumbersOK
    <3>3. i * PageSize + off \in Nat
        BY <3>2
    <3>4. e \in Entries
        BY <3>2, <3>3 DEF Entries
    <3> HIDE DEF e
    <3>5. sg' \in Seq(Entries)
        BY <1>0, <2>1, <3>4, AppendFacts DEF ListsOK
    <3> QED
        BY <1>0, <1>3, <3>5 DEF fill_sg, ListsOK
  <2>2. CASE sg' = sg
    BY <1>1, <1>3, <2>2 DEF fill_sg, lists
  <2> QED
    BY <1>3, <2>1, <2>2 DEF fill_sg
<1>4. CASE pci_map_sg
  <2>1. CASE UNCHANGED lists
    BY <1>1, <2>1
  <2>2. CASE /\ i < blocks_nr /\ Goto("map", "map") /\ UNCHANGED <<sg, descs>>
             /\ \/ dma' = Append(dma, sg[i + 1])
                \/ /\ Joins(sg[i + 1], dma)
                   /\ dma' = [dma EXCEPT ![Len(dma)].len = @ + sg[i + 1].len]
    <3>1. i + 1 \in 1 .. Len(sg)
        BY <1>0, <2>2 DEF LenInv, Goto, NumbersOK
    <3>2. sg[i + 1] \in Entries
        BY <1>0, <3>1 DEF ListsOK
    <3>3. dma' \in Seq(Entries)
      <4>1. CASE dma' = Append(dma, sg[i + 1])
        BY <1>0, <3>2, <4>1, AppendFacts DEF ListsOK
      <4>2. CASE /\ Joins(sg[i + 1], dma)
                 /\ dma' = [dma EXCEPT ![Len(dma)].len = @ + sg[i + 1].len]
        <5>1. dma \in Seq(Entries) /\ Len(dma) > 0
            BY <1>0, <4>2 DEF ListsOK, Joins
        <5>2. sg[i + 1].len \in Nat
            BY <3>2 DEF Entries
        <5> QED
            BY <4>2, <5>1, <5>2, JoinFacts
      <4> QED
        BY <2>2, <4>1, <4>2
    <3> QED
        BY <1>0, <2>2, <3>3 DEF ListsOK
  <2>3. CASE /\ UNCHANGED <<sg, descs>>
             /\ dma' = [k \in 1 .. blocks_nr |->
                          IF k <= Len(dma) THEN dma[k] ELSE [pos |-> 0, len |-> 0]]
    <3>1. [pos |-> 0, len |-> 0] \in Entries
        BY DEF Entries
    <3>2. \A k \in 1 .. blocks_nr : k <= Len(dma) => dma[k] \in Entries
        BY <1>0 DEF ListsOK, NumbersOK
    <3>3. dma' \in [1 .. blocks_nr -> Entries] /\ blocks_nr \in Nat
        BY <1>0, <2>3, <3>1, <3>2 DEF NumbersOK
    <3>4. dma' \in Seq(Entries)
        BY <3>3
    <3> QED
        BY <1>0, <2>3, <3>4 DEF ListsOK
  <2> QED
    BY <1>4, <2>1, <2>2, <2>3, Zenon DEF pci_map_sg, dpu_put_pages, lists
<1>5. CASE next_element
  <2>1. i + 1 \in 1 .. Len(dma)
    BY <1>0, <1>5 DEF next_element, LenInv, Mapped, Goto, NumbersOK
  <2>2. dma[i + 1] \in Entries
    BY <1>0, <2>1 DEF ListsOK
  <2>3. dma[i + 1].pos \in Nat /\ dma[i + 1].len \in Nat /\ xfer_len \in Nat
    BY <1>0, <2>2 DEF Entries, NumbersOK
  <2>4. PICK e \in Elements : descs' = Append(descs, e)
    BY <1>5, <2>3, ElementType, Zenon DEF next_element
  <2>5. descs' \in Seq(Elements)
    BY <1>0, <2>4, AppendFacts DEF ListsOK
  <2> QED
    BY <1>0, <1>5, <2>5 DEF next_element, ListsOK
<1>6. CASE \/ vmalloc_blocks \/ vmalloc_pages \/ get_user_pages_fast \/ kzalloc_sgt
           \/ sg_alloc_table \/ set_hdma_desc \/ pci_map_single \/ set_link_element
           \/ teardown_dma_desc \/ dpu_teardown_sg \/ kfree
    BY <1>1, <1>6, Zenon
    DEF vmalloc_blocks, vmalloc_pages, get_user_pages_fast, kzalloc_sgt, sg_alloc_table,
        set_hdma_desc, pci_map_single, set_link_element, teardown_dma_desc,
        dpu_teardown_sg, dpu_put_pages, kfree
<1> QED
    BY <1>2, <1>3, <1>4, <1>5, <1>6 DEF Next

\* Every step keeps the types of the memory.
LEMMA StepMemoryOK ==
    ASSUME TypeOK, Next
    PROVE  MemoryOK'
<1>0. MemoryOK /\ 0 \in 0 .. VmallocMax /\ blocks_nr \in 0 .. VmallocMax
    BY TypeParts, SgAssumption DEF NumbersOK
<1>1. pinned' \in 0 .. VmallocMax
  <2>1. pinned' \in {pinned, 0, blocks_nr}
    BY Zenon
    DEF Next, eon_hdma, vmalloc_blocks, vmalloc_pages, get_user_pages_fast, PartialPins,
        kzalloc_sgt, sg_alloc_table, fill_sg, pci_map_sg, set_hdma_desc, pci_map_single,
        next_element, set_link_element, teardown_dma_desc, dpu_teardown_sg, kfree,
        dpu_put_pages, memory
  <2> QED
    BY <1>0, <2>1 DEF MemoryOK
<1>2. wild' \in BOOLEAN
  <2>1. wild' = wild \/ wild' = TRUE \/ wild' = FALSE
    BY Zenon
    DEF Next, eon_hdma, vmalloc_blocks, vmalloc_pages, get_user_pages_fast,
        kzalloc_sgt, sg_alloc_table, fill_sg, pci_map_sg, set_hdma_desc, pci_map_single,
        next_element, set_link_element, teardown_dma_desc, dpu_teardown_sg, kfree,
        dpu_put_pages, memory
  <2> QED
    BY <1>0, <2>1, Zenon DEF MemoryOK
<1>3. wrong' \in BOOLEAN
  <2>1. wrong' = wrong \/ wrong' \in BOOLEAN
    BY Zenon
    DEF Next, eon_hdma, vmalloc_blocks, vmalloc_pages, get_user_pages_fast,
        kzalloc_sgt, sg_alloc_table, fill_sg, pci_map_sg, set_hdma_desc, pci_map_single,
        next_element, set_link_element, teardown_dma_desc, dpu_teardown_sg, kfree,
        dpu_put_pages, memory, Release
  <2> QED
    BY <1>0, <2>1, Zenon DEF MemoryOK
<1>4. held' \subseteq Resources
  <2>1. held' \subseteq held \cup Resources
    BY DEF Next, eon_hdma, vmalloc_blocks, vmalloc_pages, get_user_pages_fast,
        kzalloc_sgt, sg_alloc_table, fill_sg, pci_map_sg, set_hdma_desc, pci_map_single,
        next_element, set_link_element, teardown_dma_desc, dpu_teardown_sg, kfree,
        dpu_put_pages, memory, Release, Resources
  <2> QED
    BY <1>0, <2>1 DEF MemoryOK
<1> QED
    BY <1>1, <1>2, <1>3, <1>4, Zenon DEF MemoryOK

\* Every step keeps the types.
LEMMA StepTypeOK ==
    ASSUME TypeOK, LenInv, [Next]_vars
    PROVE  TypeOK'
<1>1. CASE UNCHANGED vars
    BY <1>1, Zenon DEF vars, args, lists, memory, TypeOK
<1>2. CASE Next
  <2>1. pc' \in Locations
    BY <1>2, TypeParts
    DEF Next, eon_hdma, vmalloc_blocks, vmalloc_pages, get_user_pages_fast,
        kzalloc_sgt, sg_alloc_table, fill_sg, pci_map_sg, set_hdma_desc, pci_map_single,
        next_element, set_link_element, teardown_dma_desc, dpu_teardown_sg, kfree,
        dpu_put_pages, Goto, Locations
  <2>2. NumbersOK' /\ ListsOK' /\ MemoryOK'
    BY <1>2, StepNumbersOK, StepListsOK, StepMemoryOK
  <2> QED
    BY <2>1, <2>2, Zenon
    DEF TypeOK, Locations, NumbersOK, ListsOK, MemoryOK, Resources, Elements
<1> QED
    BY <1>1, <1>2

-----------------------------------------------------------------------------
(* What the call holds.                                                    *)

\* dpu_put_pages() gives back all but the arguments and the mapping.
LEMMA PutHeld ==
    ASSUME HeldInv, NEW from, NEW what, dpu_put_pages(from, what),
           \/ from = "sgt" /\ what = {}
           \/ from = "table" /\ what = {"sgt"}
           \/ from = "map" /\ what = {"sgt", "table"}
           \/ from = "teardown_sg" /\ what = {"sgt", "table"}
    PROVE  HeldInv' /\ what \cup {"blocks"} \subseteq held
<1>1. pc = from /\ what \cup {"blocks"} \subseteq held
    BY DEF HeldInv, dpu_put_pages, Goto
<1>2. CASE pc' = "kfree" /\ held' = held \ (what \cup {"blocks"})
    BY <1>1, <1>2 DEF HeldInv
<1>3. CASE pc' = "oops"
    BY <1>1, <1>3 DEF HeldInv
<1> QED
    BY <1>1, <1>2, <1>3 DEF dpu_put_pages, Goto, Release

\* Every step keeps account of what is held.
LEMMA StepHeldInv ==
    ASSUME HeldInv, [Next]_vars
    PROVE  HeldInv'
<1>1. CASE eon_hdma
    BY <1>1 DEF eon_hdma, HeldInv
<1>2. CASE vmalloc_blocks
    BY <1>2 DEF vmalloc_blocks, Goto, HeldInv
<1>3. CASE vmalloc_pages
    BY <1>3 DEF vmalloc_pages, Goto, Release, HeldInv
<1>4. CASE get_user_pages_fast
    BY <1>4 DEF get_user_pages_fast, Goto, Release, HeldInv
<1>5. CASE kzalloc_sgt
  <2>1. CASE dpu_put_pages("sgt", {})
    BY <2>1, PutHeld
  <2>2. CASE Goto("sgt", "table") /\ held' = held \cup {"sgt"}
    BY <2>2 DEF Goto, HeldInv
  <2> QED
    BY <1>5, <2>1, <2>2 DEF kzalloc_sgt
<1>6. CASE sg_alloc_table
  <2>1. CASE dpu_put_pages("table", {"sgt"})
    BY <2>1, PutHeld
  <2>2. CASE Goto("table", "fill") /\ held' = held \cup {"table"}
    BY <2>2 DEF Goto, HeldInv
  <2> QED
    BY <1>6, <2>1, <2>2 DEF sg_alloc_table
<1>7. CASE fill_sg
    BY <1>7 DEF fill_sg, Goto, HeldInv, memory
<1>8. CASE pci_map_sg
  <2>1. CASE dpu_put_pages("map", {"sgt", "table"})
    BY <2>1, PutHeld
  <2>2. CASE Goto("map", "map") /\ held' = held
    BY <2>2 DEF Goto, HeldInv
  <2>3. CASE Goto("map", "set_desc") /\ held' = held \cup {"sgmap"}
    BY <2>3 DEF Goto, HeldInv
  <2>4. CASE Goto("map", "oops")
    BY <2>4 DEF Goto, HeldInv
  <2> QED
    BY <1>8, <2>1, <2>2, <2>3, <2>4 DEF pci_map_sg, memory
<1>9. CASE set_hdma_desc
    BY <1>9 DEF set_hdma_desc, Goto, HeldInv
<1>10. CASE pci_map_single
    BY <1>10 DEF pci_map_single, Goto, Release, HeldInv
<1>11. CASE next_element \/ set_link_element
    BY <1>11 DEF next_element, set_link_element, Goto, HeldInv, memory
<1>12. CASE teardown_dma_desc
    BY <1>12 DEF teardown_dma_desc, Goto, Release, HeldInv
<1>13. CASE dpu_teardown_sg
    BY <1>13, PutHeld DEF dpu_teardown_sg
<1>14. CASE kfree
    BY <1>14 DEF kfree, Goto, Release, HeldInv
<1>15. CASE UNCHANGED vars
    BY <1>15 DEF vars, memory, HeldInv
<1> QED
    BY <1>1, <1>2, <1>3, <1>4, <1>5, <1>6, <1>7, <1>8, <1>9, <1>10, <1>11, <1>12,
       <1>13, <1>14, <1>15
    DEF Next

\* Every release is of something that is held.
LEMMA StepWrongInv ==
    ASSUME TypeOK, HeldInv, WrongInv, [Next]_vars
    PROVE  WrongInv'
<1>0. ASSUME NEW what, what \subseteq held, Release(what), wild => wild'
      PROVE  WrongInv'
    BY <1>0, Zenon DEF Release, WrongInv
<1>1. ASSUME wrong' = wrong, wild => wild'
      PROVE  WrongInv'
    BY <1>1, Zenon DEF WrongInv
<1>2. ASSUME NEW from, NEW what, dpu_put_pages(from, what),
             what \cup {"blocks"} \subseteq held
      PROVE  WrongInv'
  <2>1. wild' = wild
    BY <1>2 DEF dpu_put_pages
  <2>2. \/ Release(what \cup {"blocks"}) \/ wild \/ wrong' = wrong
    BY <1>2, Zenon DEF dpu_put_pages
  <2> QED
    BY <1>0, <1>1, <1>2, <2>1, <2>2, Zenon DEF WrongInv
<1>3. CASE eon_hdma
    BY <1>3, Zenon DEF eon_hdma, WrongInv
<1>4. CASE vmalloc_pages
  <2>1. wild' = wild
    BY <1>4 DEF vmalloc_pages
  <2>2. pc = "pages_tmp" /\ (Release({"blocks"}) \/ wrong' = wrong)
    BY <1>4, Zenon DEF vmalloc_pages, Goto
  <2>3. {"blocks"} \subseteq held
    BY <2>2 DEF HeldInv
  <2> QED
    BY <1>0, <1>1, <2>1, <2>2, <2>3
<1>5. CASE get_user_pages_fast
  <2>1. pc = "pin" /\ (Release({"pages"}) \/ Release({"pages", "blocks"}))
    BY <1>5, Zenon DEF get_user_pages_fast, Goto
  <2>2. {"pages"} \subseteq held /\ {"pages", "blocks"} \subseteq held
    BY <2>1 DEF HeldInv
  <2>3. wild => wild'
    BY <1>5, Zenon DEF get_user_pages_fast
  <2> QED
    BY <1>0, <2>1, <2>2, <2>3
<1>6. CASE \/ dpu_put_pages("sgt", {}) \/ dpu_put_pages("table", {"sgt"})
           \/ dpu_put_pages("map", {"sgt", "table"}) \/ dpu_teardown_sg
    BY <1>2, <1>6, PutHeld, Zenon DEF dpu_teardown_sg
<1>7. CASE pci_map_single
  <2>1. pc = "map_desc" /\ (Release({"descs"}) \/ wrong' = wrong) /\ wild' = wild
    BY <1>7, Zenon DEF pci_map_single, Goto
  <2>2. {"descs"} \subseteq held
    BY <2>1 DEF HeldInv
  <2> QED
    BY <1>0, <1>1, <2>1, <2>2
<1>8. CASE teardown_dma_desc
  <2>1. pc = "run" /\ Release({"descs", "single"}) /\ wild' = wild
    BY <1>8, Zenon DEF teardown_dma_desc, Goto
  <2>2. {"descs", "single"} \subseteq held
    BY <2>1 DEF HeldInv
  <2> QED
    BY <1>0, <2>1, <2>2
<1>9. CASE kfree
  <2>1. pc = "kfree" /\ Release({"args"}) /\ wild' = wild
    BY <1>9, Zenon DEF kfree, Goto
  <2>2. {"args"} \subseteq held
    BY <2>1 DEF HeldInv
  <2> QED
    BY <1>0, <2>1, <2>2
<1>10. CASE wrong' = wrong /\ wild' = wild
    BY <1>1, <1>10
<1> QED
    BY <1>3, <1>4, <1>5, <1>6, <1>7, <1>8, <1>9, <1>10, Zenon
    DEF Next, vmalloc_blocks, kzalloc_sgt, sg_alloc_table, fill_sg, pci_map_sg,
        set_hdma_desc, next_element, set_link_element, memory, vars

\* Pages are pinned by get_user_pages_fast() and put by dpu_put_pages().
LEMMA StepPinInv ==
    ASSUME TypeOK, PinInv, [Next]_vars
    PROVE  PinInv'
<1>0. ASSUME UNCHANGED <<pinned, blocks_nr, wild>>,
             \/ /\ pc \in {"user", "get_pages", "pages_tmp", "pin", "kfree"}
                /\ pc' \in {"user", "get_pages", "pages_tmp", "pin", "kfree"}
             \/ /\ pc \in Using \cup {"teardown_sg"}
                /\ pc' \in Using \cup {"teardown_sg", "oops"}
             \/ pc' = pc
      PROVE  PinInv'
    BY <1>0 DEF PinInv, Using
<1>1. CASE eon_hdma
    BY <1>1 DEF eon_hdma, PinInv, Using
<1>2. CASE vmalloc_blocks
    BY <1>2 DEF vmalloc_blocks, Goto, PinInv, Using
<1>3. CASE vmalloc_pages \/ kfree
    BY <1>0, <1>3 DEF vmalloc_pages, kfree, Goto
<1>4. CASE get_user_pages_fast
  <2>1. CASE pc' = "sgt" /\ pinned' = blocks_nr /\ blocks_nr' = blocks_nr
    BY <2>1 DEF PinInv, Using
  <2>2. CASE pc' = "kfree" /\ pinned' = 0
    BY <2>2 DEF PinInv, Using
  <2>3. CASE pc' = "sgt" /\ wild'
    BY <2>3 DEF PinInv, Using
  <2> QED
    BY <1>4, <2>1, <2>2, <2>3, Zenon DEF get_user_pages_fast, Goto, PartialPins
<1>5. ASSUME NEW from, NEW what, dpu_put_pages(from, what)
      PROVE  PinInv'
    BY <1>5 DEF dpu_put_pages, Goto, PinInv, Using
<1>6. CASE \/ fill_sg \/ set_hdma_desc \/ pci_map_single \/ next_element
           \/ set_link_element \/ teardown_dma_desc
    BY <1>0, <1>6
    DEF fill_sg, set_hdma_desc, pci_map_single, next_element, set_link_element,
        teardown_dma_desc, Goto, memory, Using
<1>7. CASE kzalloc_sgt \/ sg_alloc_table \/ pci_map_sg \/ dpu_teardown_sg
    BY <1>0, <1>5, <1>7
    DEF kzalloc_sgt, sg_alloc_table, pci_map_sg, dpu_teardown_sg, Goto, memory, Using
<1>8. CASE UNCHANGED vars
    BY <1>0, <1>8 DEF vars, memory
<1> QED
    BY <1>1, <1>2, <1>3, <1>4, <1>6, <1>7, <1>8 DEF Next


-----------------------------------------------------------------------------
(* The number of pages and the lengths of the lists.                       *)

\* The number of pages is computed once, and right if nothing wraps.
LEMMA StepNrInv ==
    ASSUME TypeOK, NrInv, [Next]_vars
    PROVE  NrInv'
<1>0. ASSUME UNCHANGED <<args, blocks_nr>>,
             pc' \in Counted => pc \in Counted, pc' = "get_pages" => pc = "get_pages"
      PROVE  NrInv'
  <2>1. Off' = Off /\ len' = len /\ NoWrap' = NoWrap
    BY <1>0 DEF args, Off, NoWrap
  <2> QED
    BY <1>0, <2>1 DEF NrInv
<1>1. CASE eon_hdma
    BY <1>1 DEF eon_hdma, NrInv, Counted, Using
<1>2. CASE vmalloc_blocks
  <2>1. CASE Goto("get_pages", "kfree")
    BY <2>1 DEF Goto, NrInv, Counted, Using
  <2>2. CASE /\ Goto("get_pages", "pages_tmp")
             /\ get_pages_nr(buf, len) \in 1 .. VmallocMax
             /\ blocks_nr' = get_pages_nr(buf, len) % UInt
    <3> DEFINE n == get_pages_nr(buf, len)
    <3>1. UInt \in Nat \ {0} /\ VmallocMax \in Nat /\ VmallocMax < UInt
        BY SgAssumption
    <3>2. n \in Nat /\ n > 0 /\ n < UInt
        BY <2>2, <3>1
    <3>3. blocks_nr' = n
        BY <2>2, <3>1, <3>2, ModSmall
    <3>4. buf' = buf /\ len' = len /\ Off' = Off /\ NoWrap' = NoWrap
        BY <1>2 DEF vmalloc_blocks, args, Off, NoWrap
    <3>5. NoWrap => /\ Off + len <= n * PageSize
                    /\ (n - 1) * PageSize < Off + len
        BY PagesNr DEF NoWrap, Off, TypeOK
    <3> HIDE DEF n
    <3> QED
        BY <2>2, <3>2, <3>3, <3>4, <3>5 DEF NrInv, Goto
  <2> QED
    BY <1>2, <2>1, <2>2 DEF vmalloc_blocks
<1>3. CASE \/ vmalloc_pages \/ get_user_pages_fast \/ kzalloc_sgt \/ sg_alloc_table
           \/ fill_sg \/ pci_map_sg \/ set_hdma_desc \/ pci_map_single \/ next_element
           \/ set_link_element \/ teardown_dma_desc \/ dpu_teardown_sg \/ kfree
  <2>1. UNCHANGED <<args, blocks_nr>>
    BY <1>3, Zenon
    DEF vmalloc_pages, get_user_pages_fast, kzalloc_sgt, sg_alloc_table, fill_sg,
        pci_map_sg, set_hdma_desc, pci_map_single, next_element, set_link_element,
        teardown_dma_desc, dpu_teardown_sg, dpu_put_pages, kfree
  <2>2. (pc' \in Counted => pc \in Counted) /\ (pc' = "get_pages" => pc = "get_pages")
    BY <1>3
    DEF vmalloc_pages, get_user_pages_fast, kzalloc_sgt, sg_alloc_table, fill_sg,
        pci_map_sg, set_hdma_desc, pci_map_single, next_element, set_link_element,
        teardown_dma_desc, dpu_teardown_sg, dpu_put_pages, kfree, Goto, Counted, Using
  <2> QED
    BY <1>0, <2>1, <2>2
<1>4. CASE UNCHANGED vars
    BY <1>0, <1>4 DEF vars
<1> QED
    BY <1>1, <1>2, <1>3, <1>4 DEF Next

\* The lists have the lengths that their readers expect.
LEMMA StepLenInv ==
    ASSUME TypeOK, NrInv, LenInv, [Next]_vars
    PROVE  LenInv'
<1> DEFINE Empty == {"get_pages", "pages_tmp", "pin", "sgt", "table"}
<1>0. NumbersOK /\ ListsOK
    BY TypeParts
\* A step between two locations of which the same is said.
<1>1. ASSUME UNCHANGED <<blocks_nr, i, lists>>,
             \/ pc' \in {"user", "oops", "kfree", "teardown_sg"}
             \/ pc \in Empty /\ pc' \in Empty
             \/ pc = "table" /\ pc' = "fill"
             \/ pc = "set_desc" /\ pc' = "map_desc" /\ ListFits
             \/ pc' = pc
      PROVE  LenInv'
  <2>1. sg' = sg /\ dma' = dma /\ descs' = descs /\ (ListFits' <=> ListFits)
    BY <1>1 DEF lists, ListFits
  <2>2. Len(<<>>) = 0
    OBVIOUS
  <2> QED
    BY <1>1, <2>1, <2>2 DEF LenInv, Mapped
<1>2. CASE eon_hdma
    BY <1>2 DEF eon_hdma, LenInv, Mapped
<1>3. CASE vmalloc_blocks
  <2>1. UNCHANGED <<i, lists>> /\ pc = "get_pages" /\ pc' \in {"kfree", "pages_tmp"}
    BY <1>3, Zenon DEF vmalloc_blocks, Goto
  <2> QED
    BY <2>1 DEF LenInv, Mapped, lists
<1>4. ASSUME NEW from, NEW what, dpu_put_pages(from, what)
      PROVE  LenInv'
    BY <1>1, <1>4 DEF dpu_put_pages, Goto
<1>5. CASE \/ vmalloc_pages \/ get_user_pages_fast \/ set_hdma_desc
           \/ teardown_dma_desc \/ kfree
    BY <1>1, <1>5
    DEF vmalloc_pages, get_user_pages_fast, set_hdma_desc, teardown_dma_desc, kfree, Goto
<1>6. CASE kzalloc_sgt \/ dpu_teardown_sg
    BY <1>1, <1>4, <1>6 DEF kzalloc_sgt, dpu_teardown_sg, Goto
<1>7. CASE sg_alloc_table
  <2>1. CASE dpu_put_pages("table", {"sgt"})
    BY <1>4, <2>1
  <2>2. CASE Goto("table", "fill") /\ i' = 0 /\ UNCHANGED <<blocks_nr, lists>>
    <3>1. i' = i
        BY <2>2 DEF LenInv, Goto
    <3> QED
        BY <1>1, <2>2, <3>1 DEF Goto
  <2> QED
    BY <1>7, <2>1, <2>2 DEF sg_alloc_table
<1>8. CASE fill_sg
  <2>1. UNCHANGED <<blocks_nr, dma, descs>> /\ pc = "fill" /\ Len(sg) = i
        /\ dma = <<>> /\ descs = <<>>
    BY <1>8 DEF fill_sg, LenInv, Goto
  <2>2. CASE pc' = "fill" /\ i' = i + 1 /\ \E e : sg' = Append(sg, e)
    <3>1. Len(sg') = i'
      <4>1. sg \in Seq(Entries)
        BY <1>0 DEF ListsOK
      <4> QED
        BY <2>1, <2>2, <4>1
    <3> QED
        BY <2>1, <2>2, <3>1 DEF LenInv, Mapped
  <2>3. CASE pc' = "map" /\ i = blocks_nr /\ i' = 0 /\ sg' = sg
    BY <2>1, <2>3 DEF LenInv, Mapped
  <2> QED
    BY <1>8, <2>2, <2>3, Zenon DEF fill_sg, Goto
<1>9. CASE pci_map_sg
  <2>1. CASE dpu_put_pages("map", {"sgt", "table"})
    BY <1>4, <2>1
  <2>2. CASE Goto("map", "oops")
    BY <2>2 DEF LenInv, Mapped, Goto
  <2>3. CASE /\ i < blocks_nr /\ Goto("map", "map") /\ i' = i + 1
             /\ UNCHANGED <<blocks_nr, sg, descs>>
             /\ \/ dma' = Append(dma, sg[i + 1])
                \/ /\ Joins(sg[i + 1], dma)
                   /\ dma' = [dma EXCEPT ![Len(dma)].len = @ + sg[i + 1].len]
    <3>1. /\ dma \in Seq(Entries) /\ Len(dma) \in Nat /\ Len(dma) <= i /\ i \in Nat
          /\ Len(sg) = blocks_nr /\ descs = <<>> /\ blocks_nr \in Nat
        BY <1>0, <2>3 DEF LenInv, Goto, ListsOK, NumbersOK
    <3>2. sg[i + 1] \in Entries
        BY <1>0, <2>3, <3>1 DEF ListsOK
    <3>3. Len(dma') <= i' /\ Len(dma') > 0
      <4>1. CASE dma' = Append(dma, sg[i + 1])
        BY <2>3, <3>1, <3>2, <4>1, AppendFacts
      <4>2. CASE /\ Joins(sg[i + 1], dma)
                 /\ dma' = [dma EXCEPT ![Len(dma)].len = @ + sg[i + 1].len]
        <5>1. Len(dma) > 0
            BY <3>1, <4>2 DEF Joins
        <5>2. sg[i + 1].len \in Nat
            BY <3>2 DEF Entries
        <5>3. Len(dma') = Len(dma)
            BY <3>1, <4>2, <5>1, <5>2, JoinFacts
        <5> QED
            BY <2>3, <3>1, <5>1, <5>3
      <4> QED
        BY <2>3, <4>1, <4>2
    <3> QED
        BY <2>3, <3>1, <3>3 DEF LenInv, Mapped, Goto
  <2>4. CASE /\ i = blocks_nr /\ Goto("map", "set_desc")
             /\ UNCHANGED <<blocks_nr, i, sg, descs>>
             /\ dma' = [k \in 1 .. blocks_nr |->
                          IF k <= Len(dma) THEN dma[k] ELSE [pos |-> 0, len |-> 0]]
    <3>1. Len(dma') = blocks_nr
        BY <1>0, <2>4 DEF NumbersOK
    <3> QED
        BY <2>4, <3>1 DEF LenInv, Mapped, Goto
  <2> QED
    BY <1>9, <2>1, <2>2, <2>3, <2>4 DEF pci_map_sg
<1>10. CASE pci_map_single
  <2>1. UNCHANGED <<blocks_nr, sg, dma, descs>> /\ pc = "map_desc" /\ i' = 0
        /\ pc' \in {"teardown_sg", "elements"} /\ (ListFits' <=> ListFits)
    BY <1>10 DEF pci_map_single, lists, Goto, ListFits
  <2> QED
    BY <2>1 DEF LenInv, Mapped
<1>11. CASE next_element
  <2>1. /\ UNCHANGED <<blocks_nr, sg, dma>> /\ pc = "elements" /\ pc' = "elements"
        /\ i' = i + 1 /\ (ListFits' <=> ListFits)
    BY <1>11 DEF next_element, Goto, ListFits
  <2>2. PICK e : descs' = Append(descs, e)
    BY <1>11, Zenon DEF next_element
  <2>3. Len(descs') = Len(descs) + 1
    BY <1>0, <2>2 DEF ListsOK
  <2> QED
    BY <2>1, <2>3 DEF LenInv, Mapped
<1>12. CASE set_link_element
  <2>1. /\ UNCHANGED <<blocks_nr, i, sg, dma, descs>> /\ pc = "elements" /\ pc' = "run"
        /\ i = blocks_nr /\ (ListFits' <=> ListFits)
    BY <1>12 DEF set_link_element, lists, Goto, ListFits
  <2> QED
    BY <2>1 DEF LenInv, Mapped
<1>13. CASE UNCHANGED vars
    BY <1>1, <1>13 DEF vars
<1> QED
    BY <1>2, <1>3, <1>5, <1>6, <1>7, <1>8, <1>9, <1>10, <1>11, <1>12, <1>13 DEF Next

-----------------------------------------------------------------------------
(* The scatter list.                                                       *)

\* The first byte is in the first page.
LEMMA OffType ==
    ASSUME TypeOK
    PROVE  PageSize \in Nat \ {0} /\ Off \in Nat /\ Off < PageSize
<1>1. PageSize \in Nat \ {0} /\ buf \in Nat
    BY SgAssumption DEF TypeOK
<1>2. buf % PageSize \in Int /\ 0 <= buf % PageSize /\ buf % PageSize < PageSize
    BY <1>1, DivMod
<1> QED
    BY <1>1, <1>2 DEF Off

\* The bytes of a short list can be counted in 32 bits.
LEMMA ShortLen ==
    ASSUME TypeOK, NrInv, pc \in Counted, Small
    PROVE  len < UInt
<1> DEFINE n == blocks_nr
<1>1. /\ PageSize \in Nat \ {0} /\ KmallocMax \in Nat /\ UInt \in Nat
      /\ KmallocMax * PageSize < UInt
    BY SgAssumption
<1>2. n \in Nat /\ n <= KmallocMax /\ len \in Nat /\ Off \in Nat
    BY <1>1, OffType DEF TypeOK, Small, ListFits
<1>3. Off + len <= n * PageSize
    BY DEF NrInv, Small
<1> HIDE DEF n
<1>4. n * PageSize <= KmallocMax * PageSize
    BY <1>1, <1>2, Monotone
<1>5. n * PageSize \in Nat /\ KmallocMax * PageSize \in Nat
    BY <1>1, <1>2
<1> QED
    BY <1>1, <1>2, <1>3, <1>4, <1>5

\* Where the pages of the buffer begin and end.
LEMMA StartFacts ==
    ASSUME TypeOK, NrInv, pc \in Counted, NoWrap
    PROVE  /\ Start(0) = 0 /\ Start(blocks_nr) = len
           /\ \A k \in 0 .. blocks_nr : Start(k) \in Nat /\ Start(k) <= len
           /\ \A k \in 0 .. blocks_nr - 1 :
                /\ Start(k) <= Start(k + 1) /\ Start(k + 1) - Start(k) <= PageSize
                /\ k > 0 => k * PageSize = Off + Start(k)
                /\ k + 1 < blocks_nr =>
                     Start(k + 1) - Start(k) = PageSize - (IF k = 0 THEN Off ELSE 0)
                /\ k + 1 < blocks_nr => Start(k + 1) < len
                /\ k + 1 = blocks_nr =>
                     len - Start(k) <= PageSize - (IF k = 0 THEN Off ELSE 0)
<1> DEFINE n == blocks_nr
           P == PageSize
<1>0. P \in Nat \ {0} /\ Off \in Nat /\ Off < P
    BY OffType
<1>1. n \in Nat /\ n > 0 /\ len \in Nat /\ Off + len <= n * P /\ (n - 1) * P < Off + len
    BY DEF TypeOK, NrInv
<1>2. Start(0) = 0 /\ Start(n) = len
    BY <1>1 DEF Start
\* The positions of the page boundaries.
<1>3. ASSUME NEW k \in 1 .. n - 1
      PROVE  /\ k * P \in Nat /\ Start(k) = k * P - Off
             /\ P <= k * P /\ k * P < Off + len
  <2>1. k \in Int /\ 1 <= k /\ k <= n - 1 /\ n - 1 \in Int
    BY <1>1
  <2>2. k * P \in Nat /\ P <= k * P
    BY <1>0, <2>1, Multiple
  <2>3. k * P <= (n - 1) * P
    <3> DEFINE j == n - 1
    <3>1. j \in Int /\ k <= j
        BY <2>1
    <3> HIDE DEF j
    <3>2. k * P <= j * P
        BY <1>0, <2>1, <3>1, Monotone
    <3> QED
        BY <3>2 DEF j
  <2>4. (n - 1) * P \in Int
    BY <1>0, <1>1
  <2>5. Start(k) = k * P - Off
    BY <1>1, <2>1 DEF Start
  <2> HIDE DEF n
  <2> QED
    BY <1>0, <1>1, <2>2, <2>3, <2>4, <2>5
<1>4. ASSUME NEW k \in 0 .. n
      PROVE  Start(k) \in Nat /\ Start(k) <= len
  <2>1. CASE k = 0 \/ k = n
    BY <1>1, <1>2, <2>1
  <2>2. CASE k \in 1 .. n - 1
    <3>1. k * P \in Nat /\ Start(k) = k * P - Off /\ P <= k * P /\ k * P < Off + len
        BY <1>3, <2>2
    <3> QED
        BY <1>0, <1>1, <3>1
  <2> QED
    BY <1>1, <2>1, <2>2
<1>5. ASSUME NEW k \in 0 .. n - 1
      PROVE  /\ Start(k) <= Start(k + 1) /\ Start(k + 1) - Start(k) <= P
             /\ k > 0 => k * P = Off + Start(k)
             /\ k + 1 < n => Start(k + 1) - Start(k) = P - (IF k = 0 THEN Off ELSE 0)
             /\ k + 1 < n => Start(k + 1) < len
             /\ k + 1 = n => len - Start(k) <= P - (IF k = 0 THEN Off ELSE 0)
  <2>0. k \in Nat /\ k + 1 \in Nat /\ k <= n - 1
    BY <1>1
  <2>1. k > 0 => /\ k * P \in Nat /\ Start(k) = k * P - Off
                 /\ P <= k * P /\ k * P < Off + len
    BY <1>1, <1>3, <2>0
  <2>2. k + 1 < n => /\ (k + 1) * P \in Nat /\ Start(k + 1) = (k + 1) * P - Off
                     /\ (k + 1) * P < Off + len
    BY <1>1, <1>3, <2>0
  <2>3. (k + 1) * P = k * P + P /\ k * P \in Nat /\ (k = 0 => k * P = 0)
    BY <1>0, <2>0
  <2>4. k + 1 = n => Off + len <= k * P + P /\ Start(k + 1) = len
    BY <1>1, <1>2, <2>3
  <2>5. k = 0 => Start(k) = 0
    BY <1>2
  <2> HIDE DEF n
  <2>6. k + 1 < n \/ k + 1 = n
    BY <1>1, <2>0
  <2>7. CASE k = 0 /\ k + 1 < n
    BY <1>0, <1>1, <2>0, <2>2, <2>3, <2>5, <2>7
  <2>8. CASE k = 0 /\ k + 1 = n
    BY <1>0, <1>1, <2>0, <2>3, <2>4, <2>5, <2>8
  <2>9. CASE k > 0 /\ k + 1 < n
    BY <1>0, <1>1, <2>0, <2>1, <2>2, <2>3, <2>9
  <2>10. CASE k > 0 /\ k + 1 = n
    BY <1>0, <1>1, <2>0, <2>1, <2>3, <2>4, <2>10
  <2> QED
    BY <2>0, <2>6, <2>7, <2>8, <2>9, <2>10
<1> QED
    BY <1>2, <1>4, <1>5

\* What the loop enters for page i: the bytes of the buffer in that page.
LEMMA FillStep ==
    ASSUME TypeOK, NrInv, pc \in Counted, Small, i < blocks_nr, count = len - Start(i)
    PROVE  LET off == (buf + len - count) % PageSize
           IN  /\ i * PageSize + off = Off + Start(i)
               /\ Nbytes(off) = Start(i + 1) - Start(i)
<1> DEFINE off == (buf + len - count) % PageSize
           P == PageSize
           n == blocks_nr
<1>0. /\ P \in Nat \ {0} /\ UInt \in Nat \ {0} /\ Off \in Nat /\ Off < P /\ NoWrap
      /\ n \in Nat /\ i \in Nat /\ buf \in Nat /\ len \in Nat
    BY OffType, SgAssumption DEF TypeOK, Small
<1>1. /\ Start(i) \in Nat /\ Start(i + 1) \in Nat /\ Start(i + 1) <= len
      /\ Start(i) <= len /\ Start(n) = len /\ Start(0) = 0
    BY <1>0, StartFacts
<1>2. /\ i > 0 => i * P = Off + Start(i)
      /\ i + 1 < n => Start(i + 1) - Start(i) = P - (IF i = 0 THEN Off ELSE 0)
      /\ i + 1 < n => Start(i + 1) < len
      /\ i + 1 = n => len - Start(i) <= P - (IF i = 0 THEN Off ELSE 0)
    BY <1>0, StartFacts
<1>3. buf + len - count = buf + Start(i)
    BY <1>0, <1>1
<1>4. off = IF i = 0 THEN Off ELSE 0
  <2>1. CASE i = 0
    BY <1>0, <1>1, <1>3, <2>1 DEF Off
  <2>2. CASE i > 0
    <3> DEFINE q == buf \div P
               j == q + i
    <3>1. q \in Int /\ buf = q * P + Off
        BY <1>0, DivMod DEF Off
    <3> HIDE DEF q
    <3>2. j \in Int /\ j * P = q * P + i * P
        BY <1>0, <3>1
    <3>3. q * P \in Int /\ i * P \in Int
        BY <1>0, <3>1
    <3>4. buf + Start(i) = j * P + 0
        BY <1>0, <1>1, <1>2, <2>2, <3>1, <3>2, <3>3
    <3>5. P \in Nat \ {0} /\ j \in Int /\ 0 \in Int /\ 0 < P
        BY <1>0, <3>2
    <3> HIDE DEF j, P
    <3>6. (j * P + 0) % P = 0
        BY <3>5, DivUnique
    <3> QED
        BY <1>0, <1>3, <2>2, <3>4, <3>6 DEF P
  <2> QED
    BY <1>0, <2>1, <2>2
<1>5. count % UInt = count
  <2>1. count \in Int /\ 0 <= count /\ count < UInt
    BY <1>0, <1>1, ShortLen
  <2> QED
    BY <1>0, <2>1, ModSmall
<1> HIDE DEF off
<1>6. i * P + off = Off + Start(i)
    BY <1>0, <1>1, <1>2, <1>4
<1>7. Nbytes(off) = IF P - off < count THEN P - off ELSE count
    BY <1>5 DEF Nbytes
<1>8. Nbytes(off) = Start(i + 1) - Start(i)
  <2>1. CASE i + 1 < n
    BY <1>0, <1>1, <1>2, <1>4, <1>7, <2>1
  <2>2. CASE i + 1 = n
    BY <1>0, <1>1, <1>2, <1>4, <1>7, <2>2
  <2> QED
    BY <1>0, <2>1, <2>2
<1> QED
    BY <1>6, <1>8 DEF off

\* A step within the call keeps the buffer and what is computed from it.
LEMMA ParamFrame ==
    ASSUME UNCHANGED <<args, blocks_nr>>
    PROVE  /\ buf' = buf /\ len' = len /\ Off' = Off /\ (Small' <=> Small)
           /\ (NoWrap' <=> NoWrap) /\ \A k : Start(k)' = Start(k)
BY DEF args, Off, Small, NoWrap, ListFits, Start

\* The loop over the pages enters the buffer page by page.
LEMMA StepFillInv ==
    ASSUME TypeOK, NrInv, LenInv, FillInv, [Next]_vars
    PROVE  FillInv'
<1>0. /\ PageSize \in Nat \ {0} /\ Off \in Nat /\ len \in Nat /\ i \in Nat
      /\ blocks_nr \in Nat /\ i <= blocks_nr /\ sg \in Seq(Entries)
    BY OffType DEF TypeOK
<1>1. CASE sg_alloc_table /\ pc' = "fill"
  <2>1. UNCHANGED <<args, blocks_nr>> /\ pc = "table" /\ i' = 0 /\ count' = len
    BY <1>1 DEF sg_alloc_table, Goto, dpu_put_pages
  <2>2. len' = len /\ Start(0)' = 0
    BY <2>1, ParamFrame DEF Start
  <2> QED
    BY <1>0, <1>1, <2>1, <2>2 DEF FillInv, FilledUpTo
<1>2. CASE fill_sg
  <2>1. UNCHANGED <<args, blocks_nr>> /\ pc = "fill"
    BY <1>2 DEF fill_sg, Goto
  <2>2. /\ len' = len /\ Off' = Off /\ (Small' <=> Small) /\ \A k : Start(k)' = Start(k)
    BY <2>1, ParamFrame
  <2>3. Small => count = len - Start(i) /\ FilledUpTo(i)
    BY <2>1 DEF FillInv
  <2>4. CASE i = blocks_nr /\ pc' = "map" /\ sg' = sg
    BY <2>1, <2>2, <2>3, <2>4 DEF FillInv, FilledUpTo
  <2>5. CASE i < blocks_nr /\ pc' = "fill" /\ i' = i + 1
    <3> SUFFICES ASSUME Small PROVE count' = len - Start(i + 1) /\ FilledUpTo(i)'
        BY <2>2, <2>5 DEF FillInv
    <3> DEFINE off == (buf + len - count) % PageSize
               e == [pos |-> i * PageSize + off, len |-> Nbytes(off)]
    <3>1. sg' = Append(sg, e) /\ count' = count - Nbytes(off)
        BY <1>0, <1>2, <2>5 DEF fill_sg
    <3>2. i * PageSize + off = Off + Start(i) /\ Nbytes(off) = Start(i + 1) - Start(i)
        BY <2>1, <2>3, <2>5, FillStep DEF Counted, Using
    <3>3. Start(i) \in Nat /\ Start(i + 1) \in Nat /\ Start(i) <= Start(i + 1)
        BY <1>0, <2>1, <2>5, StartFacts DEF Small, Counted, Using
    <3>4. e.pos = Off + Start(i) /\ e.len = Start(i + 1) - Start(i)
        BY <3>2
    <3>5. e \in Entries
        BY <1>0, <3>2, <3>3 DEF Entries
    <3>6. count' = len - Start(i + 1)
        BY <1>0, <2>3, <3>1, <3>2, <3>3
    <3> HIDE DEF e
    <3>7. Len(sg) = i
        BY <2>1 DEF LenInv
    <3>8. (\A k \in 1 .. i : sg'[k] = sg[k]) /\ sg'[i + 1] = e
        BY <1>0, <3>1, <3>5, <3>7, AppendFacts
    <3>9. ASSUME NEW k \in 1 .. i + 1
          PROVE  sg'[k].pos = Off + Start(k - 1) /\ sg'[k].len = Start(k) - Start(k - 1)
      <4>1. CASE k \in 1 .. i
        BY <2>3, <3>8, <4>1 DEF FilledUpTo
      <4>2. CASE k = i + 1
        <5>1. k - 1 = i
            BY <1>0, <4>2
        <5> QED
            BY <3>4, <3>8, <4>2, <5>1
      <4> QED
        BY <1>0, <4>1, <4>2
    <3> QED
        BY <2>2, <2>5, <3>6, <3>9 DEF FilledUpTo
  <2> QED
    BY <1>2, <2>4, <2>5 DEF fill_sg, Goto
<1>3. CASE pci_map_sg /\ pc' = "map"
  <2>1. UNCHANGED <<args, blocks_nr, sg>> /\ pc = "map"
    BY <1>3 DEF pci_map_sg, Goto, dpu_put_pages
  <2>2. /\ Off' = Off /\ (Small' <=> Small) /\ \A k : Start(k)' = Start(k)
    BY <2>1, ParamFrame
  <2> QED
    BY <1>3, <2>1, <2>2 DEF FillInv, FilledUpTo
<1>4. CASE pc' \notin {"fill", "map"}
    BY <1>4 DEF FillInv
<1>5. CASE UNCHANGED vars
  <2>1. UNCHANGED <<pc, args, blocks_nr, i, count, sg>>
    BY <1>5 DEF vars, lists
  <2>2. /\ len' = len /\ Off' = Off /\ (Small' <=> Small) /\ \A k : Start(k)' = Start(k)
    BY <2>1, ParamFrame
  <2> QED
    BY <2>1, <2>2 DEF FillInv, FilledUpTo
<1> QED
    BY <1>1, <1>2, <1>3, <1>4, <1>5
    DEF Next, eon_hdma, vmalloc_blocks, vmalloc_pages, get_user_pages_fast,
        kzalloc_sgt, sg_alloc_table, pci_map_sg, set_hdma_desc, pci_map_single,
        next_element, set_link_element, teardown_dma_desc, dpu_teardown_sg, kfree,
        dpu_put_pages, Goto

-----------------------------------------------------------------------------
(* The mapped list.                                                        *)

\* The bytes from p to the end of what is covered.
LEMMA Extend ==
    ASSUME NEW p \in Int, NEW q \in Int, NEW o \in Int, NEW a \in Int, NEW b \in Int,
           p + q = o + a
    PROVE  /\ p + (q + (b - a)) = o + b
           /\ (p - o) + q = a
OBVIOUS

\* An entry that follows the last one without a gap extends what is covered.
LEMMA CoverAppend ==
    ASSUME NEW d \in Seq(Entries), NEW e \in Entries, NEW o \in Nat,
           NEW a \in Nat, NEW b \in Nat, a <= b, e.pos = o + a, e.len = b - a,
           Len(d) = 0 => a = 0, Contiguous(d, Len(d), o, a), NEW f, f = Append(d, e)
    PROVE  Contiguous(f, Len(f), o, b)
<1> DEFINE m == Len(d)
<1>1. /\ m \in Nat /\ Len(f) = m + 1 /\ f[m + 1] = e
      /\ \A k \in 1 .. m : f[k] = d[k]
    BY AppendFacts
<1>2. ASSUME NEW k \in 1 .. m
      PROVE  d[k].pos \in Nat /\ d[k].len \in Nat
  <2>1. d[k] \in Entries
    OBVIOUS
  <2> QED
    BY <2>1 DEF Entries
<1>3. e.pos \in Nat /\ e.len \in Nat /\ e.pos + e.len = o + b
    BY DEF Entries
<1>4. f[1].pos = o
  <2>1. CASE m = 0
    BY <1>1, <2>1
  <2>2. CASE m > 0
    BY <1>1, <2>2 DEF Contiguous
  <2> QED
    BY <1>1, <2>1, <2>2
<1>5. ASSUME NEW k \in 1 .. m
      PROVE  f[k].pos + f[k].len = f[k + 1].pos
  <2>1. CASE k = m
    BY <1>1, <2>1 DEF Contiguous
  <2>2. CASE k \in 1 .. m - 1
    <3>1. d[k].pos + d[k].len = d[k + 1].pos
        BY <2>2 DEF Contiguous
    <3>2. f[k] = d[k] /\ f[k + 1] = d[k + 1]
        BY <1>1, <2>2
    <3> QED
        BY <3>1, <3>2
  <2> QED
    BY <1>1, <2>1, <2>2
<1>6. ASSUME NEW k \in 1 .. m + 1
      PROVE  o <= f[k].pos /\ f[k].pos + f[k].len <= o + b
  <2>1. CASE k = m + 1
    BY <1>1, <1>3, <2>1
  <2>2. CASE k \in 1 .. m
    <3>1. o <= d[k].pos /\ d[k].pos + d[k].len <= o + a /\ f[k] = d[k]
        BY <1>1, <2>2 DEF Contiguous
    <3> QED
        BY <1>2, <2>2, <3>1
  <2> QED
    BY <1>1, <2>1, <2>2
<1>7. f[m + 1].pos + f[m + 1].len = o + b
    BY <1>1, <1>3
<1> HIDE DEF m
<1> QED
    BY <1>1, <1>4, <1>5, <1>6, <1>7 DEF Contiguous

\* So does an entry that is joined to the last one.
LEMMA CoverJoin ==
    ASSUME NEW d \in Seq(Entries), NEW l \in Nat, NEW o \in Nat,
           NEW a \in Nat, NEW b \in Nat, l = b - a, Len(d) > 0,
           Contiguous(d, Len(d), o, a),
           NEW f, Len(f) = Len(d), \A k \in 1 .. Len(d) : f[k].pos = d[k].pos,
           \A k \in 1 .. Len(d) : k # Len(d) => f[k].len = d[k].len,
           f[Len(d)].len = d[Len(d)].len + l
    PROVE  Contiguous(f, Len(f), o, b)
<1> DEFINE m == Len(d)
<1>1. /\ m \in Nat /\ m > 0 /\ m \in 1 .. m
      /\ \A k \in 1 .. m : f[k].pos = d[k].pos
      /\ \A k \in 1 .. m : k # m => f[k].len = d[k].len
      /\ f[m].len = d[m].len + l
    OBVIOUS
<1>2. ASSUME NEW k \in 1 .. m
      PROVE  d[k].pos \in Nat /\ d[k].len \in Nat
  <2>1. d[k] \in Entries
    OBVIOUS
  <2> QED
    BY <2>1 DEF Entries
<1> DEFINE p == d[m].pos
           q == d[m].len
<1>3. p \in Nat /\ q \in Nat /\ f[m].pos = p /\ f[m].len = q + l
    BY <1>1, <1>2
<1>4. p + q = o + a
    BY <1>1 DEF Contiguous
<1>5. Contiguous(d, m, o, a) /\ Len(f) = m
    OBVIOUS
<1> HIDE DEF m, p, q
<1>6. f[m].pos + f[m].len = o + b
  <2>1. p \in Int /\ q \in Int
    BY <1>3
  <2>2. p + (q + (b - a)) = o + b
    BY <1>4, <2>1, Extend
  <2> QED
    BY <1>3, <2>2
<1>7. ASSUME NEW k \in 1 .. m - 1
      PROVE  f[k].pos + f[k].len = f[k + 1].pos
  <2>1. k \in 1 .. m /\ k + 1 \in 1 .. m /\ k # m
    BY <1>1
  <2>2. f[k].pos = d[k].pos /\ f[k].len = d[k].len /\ f[k + 1].pos = d[k + 1].pos
    BY <1>1, <2>1
  <2> QED
    BY <1>5, <2>2 DEF Contiguous
<1>8. ASSUME NEW k \in 1 .. m
      PROVE  o <= f[k].pos /\ f[k].pos + f[k].len <= o + b
  <2>1. o <= d[k].pos /\ d[k].pos + d[k].len <= o + a /\ f[k].pos = d[k].pos
    BY <1>1, <1>5 DEF Contiguous
  <2>2. CASE k = m
    BY <1>3, <1>6, <2>1, <2>2
  <2>3. CASE k # m
    <3>1. f[k].len = d[k].len
        BY <1>1, <2>3
    <3>2. d[k].pos \in Nat /\ d[k].len \in Nat
        BY <1>2
    <3> QED
        BY <2>1, <3>1, <3>2
  <2> QED
    BY <2>2, <2>3
<1>9. f[1].pos = o
    BY <1>1, <1>5 DEF Contiguous
<1> QED
    BY <1>1, <1>5, <1>6, <1>7, <1>8, <1>9 DEF Contiguous

\* A step that keeps the mapped list keeps what it covers.
LEMMA CoversFrame ==
    ASSUME UNCHANGED <<args, blocks_nr, dma>>
    PROVE  \A m, e : (Covers(m, e)' <=> Covers(m, e)) /\ (CoversAll(m)' <=> CoversAll(m))
BY DEF args, Covers, CoversAll, Contiguous, Off

\* The mapped list covers the buffer, however many of its entries were joined.
LEMMA StepMapInv ==
    ASSUME TypeOK, NrInv, LenInv, FillInv, MapInv, [Next]_vars
    PROVE  MapInv'
<1> DEFINE n == blocks_nr
<1>0. /\ Off \in Nat /\ len \in Nat /\ i \in Nat /\ n \in Nat /\ i <= n
      /\ sg \in Seq(Entries) /\ dma \in Seq(Entries) /\ Len(dma) \in Nat
    BY OffType DEF TypeOK
<1>1. CASE fill_sg /\ pc' = "map"
  <2>1. dma' = <<>>
    BY <1>1 DEF fill_sg, Goto, LenInv
  <2>2. Len(dma)' = 0
    BY <2>1
  <2> QED
    BY <1>1, <2>2 DEF MapInv, Covers, Contiguous
<1>2. CASE pci_map_sg /\ pc' = "map"
  <2>1. UNCHANGED <<args, blocks_nr, sg>> /\ pc = "map" /\ i < n /\ i' = i + 1
    BY <1>2 DEF pci_map_sg, Goto, dpu_put_pages
  <2>2. /\ len' = len /\ Off' = Off /\ (Small' <=> Small)
        /\ \A k : Start(k)' = Start(k)
    BY <2>1, ParamFrame
  <2> DEFINE a == Start(i)
             b == Start(i + 1)
             f == dma'
             e == sg[i + 1]
  <2> SUFFICES ASSUME Small PROVE Contiguous(f, Len(f), Off, b)
    BY <1>2, <2>1, <2>2 DEF MapInv, Covers
  <2>3. a \in Nat /\ b \in Nat /\ a <= b /\ (i = 0 => a = 0)
    BY <1>0, <2>1, StartFacts DEF Small, Counted, Using
  <2>4. Len(sg) = n /\ (i > 0 => Len(dma) > 0)
    BY <2>1 DEF LenInv
  <2>5. e \in Entries
    BY <1>0, <2>1, <2>4
  <2>6. e.pos = Off + a /\ e.len = b - a
    <3>1. FilledUpTo(n)
        BY <2>1 DEF FillInv
    <3>2. i + 1 \in 1 .. n /\ (i + 1) - 1 = i
        BY <1>0, <2>1
    <3>3. e.pos = Off + Start((i + 1) - 1) /\ e.len = Start(i + 1) - Start((i + 1) - 1)
        BY <3>1, <3>2 DEF FilledUpTo
    <3> QED
        BY <3>2, <3>3
  <2>7. Contiguous(dma, Len(dma), Off, a)
    BY <2>1 DEF MapInv, Covers
  <2>9. Len(dma) = 0 => a = 0
    BY <1>0, <2>3, <2>4
  <2>10. \/ f = Append(dma, e)
         \/ Joins(e, dma) /\ f = [dma EXCEPT ![Len(dma)].len = @ + e.len]
    BY <1>0, <1>2, <2>1 DEF pci_map_sg, Goto, dpu_put_pages
  <2> HIDE DEF a, b, e, f
  <2>11. CASE f = Append(dma, e)
    BY <1>0, <2>3, <2>5, <2>6, <2>7, <2>9, <2>11, CoverAppend
  <2>12. CASE Joins(e, dma) /\ f = [dma EXCEPT ![Len(dma)].len = @ + e.len]
    <3>1. Len(dma) > 0
        BY <1>0, <2>12 DEF Joins
    <3>2. e.len \in Nat
        BY <2>5 DEF Entries
    <3>3. f = [dma EXCEPT ![Len(dma)].len = @ + e.len]
        BY <2>12
    <3>4. f \in Seq(Entries) /\ Len(f) = Len(dma)
        BY <1>0, <3>1, <3>2, <3>3, JoinFacts
    <3>5. \A k \in 1 .. Len(dma) : f[k].pos = dma[k].pos
        BY <1>0, <3>1, <3>2, <3>3, JoinFacts
    <3>6. \A k \in 1 .. Len(dma) : k # Len(dma) => f[k].len = dma[k].len
        BY <1>0, <3>1, <3>2, <3>3, JoinFacts
    <3>7. f[Len(dma)].len = dma[Len(dma)].len + e.len
        BY <1>0, <3>1, <3>2, <3>3, JoinFacts
    <3> QED
        BY <1>0, <2>3, <2>6, <2>7, <3>1, <3>2, <3>4, <3>5, <3>6, <3>7, CoverJoin
  <2> QED
    BY <2>10, <2>11, <2>12
<1>3. CASE pci_map_sg /\ pc' = "set_desc"
  <2>1. UNCHANGED <<args, blocks_nr>> /\ pc = "map" /\ i = n
    BY <1>3 DEF pci_map_sg, Goto, dpu_put_pages
  <2>2. /\ len' = len /\ Off' = Off /\ (Small' <=> Small)
    BY <2>1, ParamFrame
  <2> DEFINE m == Len(dma)
  <2>3. dma' = [k \in 1 .. n |-> IF k <= m THEN dma[k] ELSE [pos |-> 0, len |-> 0]]
    BY <1>3 DEF pci_map_sg, Goto, dpu_put_pages
  <2>4. n > 0 /\ m <= n /\ m > 0
    BY <1>0, <2>1 DEF NrInv, LenInv, Counted, Using
  <2>5. (\A k \in 1 .. m : dma'[k] = dma[k]) /\ \A k \in m + 1 .. n : dma'[k].len = 0
    BY <1>0, <2>3, <2>4
  <2>6. Small => Covers(m, len)
    <3>1. Small => Start(n) = len
        BY <2>1, StartFacts DEF Small, Counted, Using
    <3> QED
        BY <2>1, <3>1 DEF MapInv
  <2>7. PICK j \in 1 .. n : j = m
    BY <1>0, <2>4
  <2> HIDE DEF m
  <2> SUFFICES ASSUME Small PROVE CoversAll(j)'
    BY <1>3, <2>1, <2>2 DEF MapInv
  <2>8. Contiguous(dma, j, Off, len)
    BY <2>6, <2>7 DEF Covers
  <2>9. j \in 1 .. j /\ 1 \in 1 .. j /\ \A k \in 1 .. j - 1 : k \in 1 .. j /\ k + 1 \in 1 .. j
    BY <1>0
  <2>10. (\A k \in 1 .. j : dma'[k] = dma[k]) /\ \A k \in j + 1 .. n : dma'[k].len = 0
    BY <2>5, <2>7
  <2>11. Contiguous(dma', j, Off, len)
    BY <2>8, <2>9, <2>10 DEF Contiguous
  <2> QED
    BY <2>1, <2>2, <2>10, <2>11 DEF CoversAll, Covers
<1>4. CASE set_hdma_desc /\ pc' = "map_desc"
  <2>1. UNCHANGED <<args, blocks_nr, dma>> /\ pc = "set_desc"
    BY <1>4 DEF set_hdma_desc, Goto, lists
  <2>2. (Small' <=> Small) /\ \A m : CoversAll(m)' <=> CoversAll(m)
    BY <2>1, ParamFrame, CoversFrame
  <2> QED
    BY <1>4, <2>1, <2>2 DEF MapInv
<1>5. CASE pci_map_single /\ pc' = "elements"
  <2>1. /\ UNCHANGED <<args, blocks_nr, dma>> /\ pc = "map_desc"
        /\ i' = 0 /\ xfer_len' = 0
    BY <1>5 DEF pci_map_single, Goto, lists
  <2>2. /\ Off' = Off /\ (Small' <=> Small) /\ blocks_nr' = blocks_nr /\ dma' = dma
        /\ \A m : CoversAll(m)' <=> CoversAll(m)
    BY <2>1, ParamFrame, CoversFrame
  <2> SUFFICES ASSUME Small
               PROVE  \E m \in 1 .. n : /\ CoversAll(m)'
                                        /\ 0 = IF 0 < m THEN dma[0 + 1].pos - Off ELSE len'
    BY <1>5, <2>1, <2>2 DEF MapInv
  <2>3. PICK m \in 1 .. n : CoversAll(m)
    BY <2>1 DEF MapInv
  <2>4. 0 < m
    BY <1>0
  <2>5. dma[1].pos = Off
    BY <2>3, <2>4 DEF CoversAll, Covers, Contiguous
  <2> WITNESS m \in 1 .. n
  <2> QED
    BY <1>0, <2>2, <2>3, <2>4, <2>5
<1>6. CASE next_element
  <2>1. /\ UNCHANGED <<args, blocks_nr, dma>> /\ pc = "elements" /\ pc' = "elements"
        /\ i < n /\ i' = i + 1 /\ xfer_len' = xfer_len + dma[i + 1].len
    BY <1>6 DEF next_element, Goto
  <2>2. /\ Off' = Off /\ (Small' <=> Small) /\ blocks_nr' = blocks_nr /\ dma' = dma
        /\ len' = len /\ \A m : CoversAll(m)' <=> CoversAll(m)
    BY <2>1, ParamFrame, CoversFrame
  <2> DEFINE x == xfer_len + dma[i + 1].len
  <2> SUFFICES ASSUME Small
               PROVE  \E m \in 1 .. n :
                         /\ CoversAll(m)'
                         /\ x = IF i + 1 < m THEN dma[i + 1 + 1].pos - Off ELSE len
    BY <2>1, <2>2 DEF MapInv
  <2>3. PICK m \in 1 .. n : /\ CoversAll(m)
                            /\ xfer_len = IF i < m THEN dma[i + 1].pos - Off ELSE len
    BY <2>1 DEF MapInv
  <2>4. Len(dma) = n
    BY <2>1 DEF LenInv, Mapped
  <2>5. ASSUME NEW k \in 1 .. n PROVE dma[k].pos \in Nat /\ dma[k].len \in Nat
    <3>1. dma[k] \in Entries
        BY <1>0, <2>4
    <3> QED
        BY <3>1 DEF Entries
  <2>6. m \in Nat /\ m > 0 /\ m <= n /\ i + 1 \in 1 .. n
    BY <1>0, <2>1
  <2>7. x = IF i + 1 < m THEN dma[i + 1 + 1].pos - Off ELSE len
    <3>0. /\ \A k \in 1 .. m - 1 : dma[k].pos + dma[k].len = dma[k + 1].pos
          /\ dma[m].pos + dma[m].len = Off + len
          /\ \A k \in m + 1 .. n : dma[k].len = 0
        BY <2>3, <2>6 DEF CoversAll, Covers, Contiguous
    <3>1. CASE i + 1 < m
      <4>1. i + 1 \in 1 .. m - 1 /\ i + 1 + 1 \in 1 .. n
        BY <1>0, <2>6, <3>1
      <4>2. dma[i + 1].pos + dma[i + 1].len = dma[i + 1 + 1].pos
        BY <3>0, <4>1
      <4>3. dma[i + 1].pos \in Nat /\ dma[i + 1].len \in Nat /\ dma[i + 1 + 1].pos \in Nat
        BY <2>5, <2>6, <4>1
      <4>4. xfer_len = dma[i + 1].pos - Off
        BY <1>0, <2>3, <2>6, <3>1
      <4> DEFINE p == dma[i + 1].pos
                 q == dma[i + 1].len
                 r == dma[i + 1 + 1].pos
      <4>5. /\ p \in Nat /\ q \in Nat /\ r \in Nat /\ p + q = r
            /\ xfer_len = p - Off /\ x = xfer_len + q
        BY <4>2, <4>3, <4>4
      <4> HIDE DEF p, q, r, x
      <4>6. x = r - Off
        BY <1>0, <4>5
      <4> QED
        BY <3>1, <4>6 DEF r
    <3>2. CASE i + 1 = m
      <4>1. dma[i + 1].pos \in Nat /\ dma[i + 1].len \in Nat
        BY <2>5, <2>6
      <4>2. xfer_len = dma[i + 1].pos - Off
        BY <1>0, <2>3, <2>6, <3>2
      <4> DEFINE p == dma[i + 1].pos
                 q == dma[i + 1].len
      <4>3. /\ p \in Nat /\ q \in Nat /\ p + q = Off + len
            /\ xfer_len = p - Off /\ x = xfer_len + q
        BY <3>0, <3>2, <4>1, <4>2
      <4> HIDE DEF p, q, x
      <4>4. x = len
        BY <1>0, <4>3
      <4> QED
        BY <1>0, <2>6, <3>2, <4>4
    <3>3. CASE i >= m
      <4>1. i + 1 \in m + 1 .. n
        BY <1>0, <2>6, <3>3
      <4>2. dma[i + 1].len = 0 /\ xfer_len = len
        BY <1>0, <2>3, <2>6, <3>0, <3>3, <4>1
      <4> QED
        BY <1>0, <2>6, <3>3, <4>2
    <3> QED
        BY <1>0, <2>6, <3>1, <3>2, <3>3
  <2> HIDE DEF x
  <2> WITNESS m \in 1 .. n
  <2> QED
    BY <2>2, <2>3, <2>7
<1>7. CASE set_link_element
  <2>1. /\ UNCHANGED <<args, blocks_nr, dma, i, xfer_len>> /\ pc = "elements"
    BY <1>7 DEF set_link_element, Goto, lists
  <2>2. /\ Off' = Off /\ (Small' <=> Small) /\ blocks_nr' = blocks_nr /\ dma' = dma
        /\ len' = len /\ i' = i /\ xfer_len' = xfer_len
        /\ \A m : CoversAll(m)' <=> CoversAll(m)
    BY <2>1, ParamFrame, CoversFrame
  <2>3. pc' = "run"
    BY <1>7 DEF set_link_element, Goto
  <2> QED
    BY <2>1, <2>2, <2>3 DEF MapInv
<1>8. CASE pc' \notin {"map"} \cup Mapped
    BY <1>8 DEF MapInv, Mapped
<1>9. CASE UNCHANGED vars
  <2>1. UNCHANGED <<pc, args, blocks_nr, i, xfer_len, dma>>
    BY <1>9 DEF vars, lists
  <2>2. /\ Off' = Off /\ (Small' <=> Small) /\ blocks_nr' = blocks_nr /\ dma' = dma
        /\ len' = len /\ i' = i /\ xfer_len' = xfer_len /\ pc' = pc
        /\ (\A k : Start(k)' = Start(k)) /\ \A m, e : Covers(m, e)' <=> Covers(m, e)
        /\ \A m : CoversAll(m)' <=> CoversAll(m)
    BY <2>1, ParamFrame, CoversFrame
  <2> QED
    BY <2>2 DEF MapInv
<1> QED
    BY <1>1, <1>2, <1>3, <1>4, <1>5, <1>6, <1>7, <1>8, <1>9
    DEF Mapped, Next, eon_hdma, vmalloc_blocks, vmalloc_pages, get_user_pages_fast,
        kzalloc_sgt, sg_alloc_table, fill_sg, pci_map_sg, set_hdma_desc, pci_map_single,
        teardown_dma_desc, dpu_teardown_sg, kfree, dpu_put_pages, Goto

-----------------------------------------------------------------------------
(* The data elements.                                                      *)

\* The fields of a data element.
LEMMA ElementFields ==
    ASSUME NEW h, NEW d, NEW l, NEW last
    PROVE  LET e == set_data_element(h, d, l, last)
           IN  e.host = h /\ e.dev = d /\ e.len = l % UInt
BY DEF set_data_element

\* Only the last element reports.
LEMMA ElementReports ==
    ASSUME NEW h, NEW d, NEW l, NEW last \in BOOLEAN
    PROVE  set_data_element(h, d, l, last).ie <=> last
BY Zenon DEF set_data_element

\* The entry that the next element is made of: its length is not cut, and it
\* begins where the elements before it end.
LEMMA NextEntry ==
    ASSUME TypeOK, NrInv, LenInv, MapInv, pc = "elements", Small, i < blocks_nr
    PROVE  /\ dma[i + 1].pos \in Nat /\ dma[i + 1].len \in Nat
           /\ dma[i + 1].len % UInt = dma[i + 1].len
           /\ dma[i + 1].len > 0 => dma[i + 1].pos = Off + xfer_len
<1> DEFINE n == blocks_nr
           p == dma[i + 1].pos
           q == dma[i + 1].len
<1>0. /\ Off \in Nat /\ len \in Nat /\ i \in Nat /\ n \in Nat /\ UInt \in Nat \ {0}
      /\ dma \in Seq(Entries) /\ Len(dma) = n
    BY OffType, SgAssumption DEF TypeOK, LenInv, Mapped
<1>1. p \in Nat /\ q \in Nat
  <2>1. dma[i + 1] \in Entries
    BY <1>0
  <2> QED
    BY <2>1 DEF Entries
<1>2. PICK m \in 1 .. n : /\ CoversAll(m)
                          /\ xfer_len = IF i < m THEN p - Off ELSE len
    BY DEF MapInv
<1>3. len < UInt
    BY ShortLen DEF Counted, Using
<1>4. CASE i < m
  <2>1. i + 1 \in 1 .. m
    BY <1>0, <1>4
  <2>2. Off <= p /\ p + q <= Off + len
    BY <1>2, <2>1 DEF CoversAll, Covers, Contiguous
  <2>3. xfer_len = p - Off
    BY <1>2, <1>4
  <2> HIDE DEF p, q
  <2>4. q < UInt /\ p = Off + xfer_len
    BY <1>0, <1>1, <1>3, <2>2, <2>3
  <2>5. q % UInt = q
    BY <1>0, <1>1, <2>4, ModSmall
  <2> QED
    BY <1>1, <2>4, <2>5 DEF p, q
<1>5. CASE m <= i
  <2>1. i + 1 \in m + 1 .. n
    BY <1>0, <1>5
  <2>2. q = 0
    BY <1>2, <2>1 DEF CoversAll
  <2> HIDE DEF p, q
  <2>3. q % UInt = q
    BY <1>0, <1>3, <2>2, ModSmall
  <2>4. ~(q > 0)
    BY <2>2
  <2> QED
    BY <1>1, <2>3, <2>4 DEF p, q
<1> QED
    BY <1>0, <1>4, <1>5

\* The elements follow one another, each to its place on the device.
LEMMA StepElementsInv ==
    ASSUME TypeOK, NrInv, LenInv, MapInv, ElementsInv, [Next]_vars
    PROVE  ElementsInv'
<1> DEFINE n == blocks_nr
<1>0. i \in Nat /\ n \in Nat /\ i <= n /\ xfer_len \in Nat /\ Off \in Nat
    BY OffType DEF TypeOK
<1>1. CASE pci_map_single /\ pc' = "elements"
  <2>1. i' = 0
    BY <1>1 DEF pci_map_single
  <2> QED
    BY <1>1, <2>1 DEF ElementsInv
<1>2. CASE next_element
  <2> DEFINE E == set_data_element(dma[i + 1].pos, xfer_len, dma[i + 1].len, i = n - 1)
  <2>1. /\ UNCHANGED <<args, blocks_nr>> /\ pc = "elements" /\ pc' = "elements"
        /\ i < n /\ i' = i + 1
    BY <1>2 DEF next_element, Goto
  <2>2. Off' = Off /\ (Small' <=> Small) /\ blocks_nr' = n
    BY <2>1, ParamFrame
  <2>3. descs' = Append(descs, E) /\ xfer_len' = xfer_len + dma[i + 1].len
    BY <1>2 DEF next_element
  <2>4. /\ E.dev = xfer_len /\ E.len = dma[i + 1].len % UInt /\ E.host = dma[i + 1].pos
    BY ElementFields
  <2>5. E.ie <=> i = n - 1
    BY ElementReports, Zenon
  <2>6. descs \in Seq(Elements) /\ Len(descs) = i
    BY <2>1, TypeParts DEF ListsOK, LenInv
  <2>7. E \in Elements
    <3>1. dma[i + 1] \in Entries
        BY <1>0, <2>1, TypeParts DEF ListsOK, LenInv, Mapped
    <3>2. dma[i + 1].pos \in Nat /\ dma[i + 1].len \in Nat
        BY <3>1 DEF Entries
    <3>3. (i = n - 1) \in BOOLEAN
        OBVIOUS
    <3> QED
        BY <1>0, <3>2, <3>3, ElementType
  <2> HIDE DEF E
  <2>8. (\A k \in 1 .. i : descs'[k] = descs[k]) /\ descs'[i + 1] = E
    BY <2>3, <2>6, <2>7, AppendFacts
  <2>9. ASSUME NEW k \in 1 .. i + 1
        PROVE  descs'[k].ie <=> k = n
    <3>1. CASE k \in 1 .. i
      <4>1. descs'[k] = descs[k]
        BY <2>8, <3>1
      <4>2. descs[k].ie <=> k = n
        BY <2>1, <3>1 DEF ElementsInv
      <4> QED
        BY <4>1, <4>2, Zenon
    <3>2. CASE k = i + 1
      <4>1. descs'[k] = E
        BY <2>8, <3>2
      <4>2. (k = n) <=> (i = n - 1)
        BY <1>0, <3>2
      <4> QED
        BY <2>5, <4>1, <4>2, Zenon
    <3> QED
        BY <1>0, <3>1, <3>2
  <2>10. ASSUME Small, NEW k \in 1 .. i + 1
         PROVE  /\ descs'[k].len > 0 => descs'[k].host = Off + descs'[k].dev
                /\ descs'[k].dev + descs'[k].len =
                      IF k = i + 1 THEN xfer_len' ELSE descs'[k + 1].dev
    <3>0. \A j \in 1 .. i :
              /\ descs[j].len > 0 => descs[j].host = Off + descs[j].dev
              /\ descs[j].dev + descs[j].len = IF j = i THEN xfer_len ELSE descs[j + 1].dev
        BY <2>1, <2>10 DEF ElementsInv
    <3>1. CASE k \in 1 .. i - 1
      <4>1. k \in 1 .. i /\ k + 1 \in 1 .. i /\ k # i /\ k # i + 1
        BY <1>0, <3>1
      <4>2. descs'[k] = descs[k] /\ descs'[k + 1] = descs[k + 1]
        BY <2>8, <4>1
      <4> QED
        BY <3>0, <4>1, <4>2
    <3>2. CASE k = i
      <4>1. k \in 1 .. i /\ k # i + 1
        BY <1>0, <3>2
      <4>2. descs'[k] = descs[k] /\ descs'[k + 1] = E
        BY <2>8, <3>2, <4>1
      <4> QED
        BY <2>4, <3>0, <3>2, <4>1, <4>2
    <3>3. CASE k = i + 1
      <4>1. descs'[k] = E
        BY <2>8, <3>3
      <4>2. /\ dma[i + 1].pos \in Nat /\ dma[i + 1].len \in Nat
            /\ dma[i + 1].len % UInt = dma[i + 1].len
            /\ dma[i + 1].len > 0 => dma[i + 1].pos = Off + xfer_len
        BY <2>1, <2>10, NextEntry
      <4>3. E.len = dma[i + 1].len /\ E.dev + E.len = xfer_len'
        BY <2>3, <2>4, <4>2
      <4>4. E.len > 0 => E.host = Off + E.dev
        BY <2>4, <4>2, <4>3
      <4> QED
        BY <3>3, <4>1, <4>3, <4>4
    <3> QED
        BY <1>0, <3>1, <3>2, <3>3
  <2>11. pc' # "run"
    BY <2>1
  <2>12. \A k \in 1 .. i' : descs'[k].ie <=> k = blocks_nr'
    BY <2>1, <2>2, <2>9, Zenon
  <2>13. Small' => \A k \in 1 .. i' :
              /\ descs'[k].len > 0 => descs'[k].host = Off' + descs'[k].dev
              /\ descs'[k].dev + descs'[k].len =
                    IF k = i' THEN xfer_len' ELSE descs'[k + 1].dev
    BY <2>1, <2>2, <2>10, Zenon
  <2> QED
    BY <2>11, <2>12, <2>13, Zenon DEF ElementsInv
<1>3. CASE set_link_element
  <2>1. UNCHANGED <<args, blocks_nr, descs, i, xfer_len>> /\ pc = "elements" /\ i = n
    BY <1>3 DEF set_link_element, Goto, lists
  <2>2. Off' = Off /\ (Small' <=> Small)
    BY <2>1, ParamFrame
  <2>3. i' = i /\ blocks_nr' = n /\ descs' = descs /\ xfer_len' = xfer_len
    BY <2>1
  <2>4. /\ \A k \in 1 .. i : descs[k].ie <=> k = n
        /\ Small => \A k \in 1 .. i :
              /\ descs[k].len > 0 => descs[k].host = Off + descs[k].dev
              /\ descs[k].dev + descs[k].len = IF k = i THEN xfer_len ELSE descs[k + 1].dev
    BY <2>1, Zenon DEF ElementsInv
  <2>5. i' = blocks_nr'
    BY <2>1
  <2>6. /\ \A k \in 1 .. i' : descs'[k].ie <=> k = blocks_nr'
        /\ Small' => \A k \in 1 .. i' :
              /\ descs'[k].len > 0 => descs'[k].host = Off' + descs'[k].dev
              /\ descs'[k].dev + descs'[k].len =
                    IF k = i' THEN xfer_len' ELSE descs'[k + 1].dev
    BY <2>2, <2>3, <2>4, Zenon
  <2> QED
    BY <2>5, <2>6, Zenon DEF ElementsInv
<1>4. CASE pc' \notin {"elements", "run"}
    BY <1>4 DEF ElementsInv
<1>5. CASE UNCHANGED vars
  <2>1. UNCHANGED <<pc, args, blocks_nr, descs, i, xfer_len>>
    BY <1>5 DEF vars, lists
  <2>2. Off' = Off /\ (Small' <=> Small)
    BY <2>1, ParamFrame
  <2>3. pc' = pc /\ i' = i /\ blocks_nr' = n /\ descs' = descs /\ xfer_len' = xfer_len
    BY <2>1
  <2> QED
    BY <2>2, <2>3, Zenon DEF ElementsInv
<1> QED
    BY <1>1, <1>2, <1>3, <1>4, <1>5
    DEF Next, eon_hdma, vmalloc_blocks, vmalloc_pages, get_user_pages_fast,
        kzalloc_sgt, sg_alloc_table, fill_sg, pci_map_sg, set_hdma_desc, pci_map_single,
        teardown_dma_desc, dpu_teardown_sg, kfree, dpu_put_pages, Goto

-----------------------------------------------------------------------------
(* The theorems.                                                           *)

\* The invariant holds before the first call.
LEMMA InitSg == Init => SgInv
<1> SUFFICES ASSUME Init PROVE SgInv
    OBVIOUS
<1>0. VmallocMax \in Nat
    BY SgAssumption
<1>1. TypeOK
  <2>1. pc \in Locations
    BY DEF Init, Locations
  <2>2. NumbersOK
    BY <1>0 DEF Init, NumbersOK
  <2>3. ListsOK
    BY DEF Init, ListsOK
  <2>4. MemoryOK
    <3>1. pinned \in 0 .. VmallocMax
        BY <1>0 DEF Init
    <3>2. wild \in BOOLEAN /\ wrong \in BOOLEAN /\ held \subseteq Resources
        BY Zenon DEF Init
    <3> QED
        BY <3>1, <3>2, Zenon DEF MemoryOK
  <2> QED
    BY <2>1, <2>2, <2>3, <2>4, TypeParts, Zenon
<1>2. pc = "user" /\ held = {} /\ pinned = 0
    BY DEF Init
<1>3. WrongInv
    BY DEF Init, WrongInv
<1>4. HeldInv /\ PinInv
    BY <1>2 DEF HeldInv, PinInv, Using
<1>5. NrInv /\ LenInv /\ FillInv /\ MapInv
    BY <1>2 DEF NrInv, LenInv, FillInv, MapInv, Counted, Using, Mapped
<1>6. ElementsInv
    BY <1>2 DEF ElementsInv
<1> QED
    BY <1>1, <1>3, <1>4, <1>5, <1>6 DEF SgInv

\* Every step of a call keeps it.
LEMMA StepSg ==
    ASSUME SgInv, [Next]_vars
    PROVE  SgInv'
<1>1. /\ TypeOK /\ WrongInv /\ HeldInv /\ PinInv
      /\ NrInv /\ LenInv /\ FillInv /\ MapInv /\ ElementsInv
    BY DEF SgInv
<1>2. TypeOK' /\ WrongInv' /\ HeldInv' /\ PinInv'
    BY <1>1, StepTypeOK, StepWrongInv, StepHeldInv, StepPinInv, Zenon
<1>3. NrInv' /\ LenInv' /\ FillInv' /\ MapInv' /\ ElementsInv'
    BY <1>1, StepNrInv, StepLenInv, StepFillInv, StepMapInv, StepElementsInv, Zenon
<1> QED
    BY <1>2, <1>3 DEF SgInv

\* The invariant of the calls, of their loops and of their lists.
THEOREM SgInvariance == Spec => []SgInv
<1>1. Init => SgInv
    BY InitSg
<1>2. SgInv /\ [Next]_vars => SgInv'
    BY StepSg
<1> QED
    BY <1>1, <1>2, PTL DEF Spec

\* Type correctness: the index stays within the list, the bytes yet to be
\* entered never go below zero, and every length of an element fits 32 bits.
THEOREM SgTyped == Spec => []TypeOK
<1>1. SgInv => TypeOK
    BY DEF SgInv
<1> QED
    BY <1>1, SgInvariance, PTL

\* From get_user_pages_fast() to the end of the transfer the call holds the
\* pages that its buffer reaches into, for any buffer and size of pages: the
\* number that get_pages_nr() computes is the number of those pages.
THEOREM PinSafety == Spec => []PagesHeld
<1>1. SgInv => PagesHeld
  <2> SUFFICES ASSUME SgInv, pc \in Using, ~wild
               PROVE  /\ pinned = blocks_nr
                      /\ NoWrap /\ len > 0 => pinned = Cardinality(Touched)
    BY DEF PagesHeld
  <2>1. pinned = blocks_nr
    BY DEF SgInv, PinInv
  <2>2. ASSUME NoWrap, len > 0
        PROVE  blocks_nr = Cardinality(Touched)
    <3>1. buf \in Nat /\ len \in Nat \ {0} /\ blocks_nr \in Nat
        BY <2>2 DEF SgInv, TypeOK
    <3>2. /\ (buf % PageSize) + len <= blocks_nr * PageSize
          /\ (blocks_nr - 1) * PageSize < (buf % PageSize) + len
        BY <2>2 DEF SgInv, NrInv, Counted, Off
    <3> QED
        BY <3>1, <3>2, TouchedPages DEF Touched
  <2> QED
    BY <2>1, <2>2
<1> QED
    BY <1>1, SgInvariance, PTL

\* The list that set_hdma_desc() hands to the engine moves every byte of the
\* buffer once and to its place, however pci_map_sg() joined the pages, and
\* only its last element reports.
THEOREM ListCoversBuffer == Spec => []ListCovers
<1>1. SgInv => ListCovers
  <2> SUFFICES ASSUME SgInv, pc = "run", NoWrap
               PROVE  /\ Len(descs) = blocks_nr /\ xfer_len = len
                      /\ \A k \in 1 .. Len(descs) :
                            /\ descs[k].len > 0 =>
                                  descs[k].host = (buf % PageSize) + descs[k].dev
                            /\ descs[k].dev + descs[k].len =
                                  IF k = Len(descs) THEN len ELSE descs[k + 1].dev
                            /\ descs[k].ie <=> k = Len(descs)
    BY Zenon DEF ListCovers
  <2>1. LenInv /\ ElementsInv /\ MapInv /\ i \in Nat /\ blocks_nr \in Nat
    BY DEF SgInv, TypeOK
  <2>2. Len(descs) = blocks_nr /\ i = blocks_nr
    BY <2>1 DEF LenInv, ElementsInv
  <2>3. Small
    BY <2>1 DEF LenInv, Small
  <2>4. xfer_len = len
    <3>1. PICK m \in 1 .. blocks_nr : xfer_len = IF i < m THEN dma[i + 1].pos - Off ELSE len
        BY <2>1, <2>3 DEF MapInv
    <3>2. ~(i < m)
        BY <2>1, <2>2
    <3> QED
        BY <3>1, <3>2
  <2>5. \A k \in 1 .. i : descs[k].ie <=> k = blocks_nr
    BY <2>1, Zenon DEF ElementsInv
  <2>6. \A k \in 1 .. i :
           /\ descs[k].len > 0 => descs[k].host = Off + descs[k].dev
           /\ descs[k].dev + descs[k].len = IF k = i THEN xfer_len ELSE descs[k + 1].dev
    BY <2>1, <2>3 DEF ElementsInv
  <2> QED
    BY <2>2, <2>4, <2>5, <2>6, Zenon DEF Off
<1> QED
    BY <1>1, SgInvariance, PTL

\* Whatever fails, a call releases what it holds and nothing twice: at its end
\* no page is pinned, and what stays is the mapping of the scatter list, or
\* the arguments of a call with a wrong hdma_id.
THEOREM CleanupSafety == Spec => []NothingLeft
<1>1. SgInv => NothingLeft
  <2>1. SgInv => WrongInv /\ HeldInv /\ PinInv
    BY DEF SgInv
  <2>2. WrongInv => (~wild => ~wrong)
    BY Zenon DEF WrongInv
  <2>3. HeldInv /\ PinInv /\ pc = "user" =>
           /\ pinned = 0
           /\ held \subseteq {"sgmap"} \/ (held = {"args"} /\ blocks_nr = 0)
    BY DEF HeldInv, PinInv
  <2> QED
    BY <2>1, <2>2, <2>3, Zenon DEF NothingLeft
<1> QED
    BY <1>1, SgInvariance, PTL

=============================================================================
