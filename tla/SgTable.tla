------------------------------- MODULE SgTable -------------------------------
(***************************************************************************)
(* The memory of one EON_IOCTL_HDMA after the other: the user's pages are  *)
(* pinned, a scatter list of them is built and mapped, the list of         *)
(* descriptors is built from the mapped one, the transfer runs, and all is *)
(* taken down.  Every allocation, the pinning and the mappings may fail.   *)
(* Loops go entry by entry.  Positions in the buffer stand for addresses:  *)
(* byte o of page i of the buffer, or what it is mapped to, is at          *)
(* i * PageSize + o; a device address is an offset from device_addr.       *)
(***************************************************************************)
EXTENDS Integers, Sequences, FiniteSets

CONSTANTS
    PageSize,
    UInt, ULong,    \* 2^32 and 2^64
    VmallocMax,     \* the largest array of pages that vmalloc() gives
    KmallocMax,     \* the largest list of descriptors that kmalloc() gives
    Bufs, Lens      \* host_addr and mem_size of the calls

\* In the code: 2^32 pages would take 64 GiB for their array, and a list in the
\* 4 MiB of kmalloc() covers less than 1 GiB.
ASSUME SgAssumption ==
    /\ PageSize \in Nat \ {0} /\ UInt \in Nat /\ ULong \in Nat
    /\ VmallocMax \in Nat /\ VmallocMax < UInt
    /\ KmallocMax \in Nat /\ KmallocMax * PageSize < UInt /\ PageSize < UInt
    /\ UInt <= ULong /\ ULong % PageSize = 0
    /\ Bufs \subseteq 0 .. ULong - 1 /\ Lens \subseteq 0 .. ULong - 1

VARIABLES
    pc,             \* the step of the call, "user" outside, or "oops"
    buf, len,       \* its arguments
    blocks_nr,      \* number of pages
    i,              \* index of the loop the call is in
    count,          \* bytes that the loop over the pages has yet to enter
    xfer_len,       \* bytes that the loop over the mapped list has entered
    sg, dma,        \* the scatter list; as mapped: of each entry, the position
                    \* pos of its first byte and its length
    descs,          \* the data elements: host position, device offset, length,
                    \* and LIE and RIE
    pinned,         \* pages that the call has references to
    wild,           \* the array of pages was never filled in
    held,           \* what the call has allocated or mapped
    wrong           \* something was released that was not held

args == <<buf, len>>
lists == <<sg, dma, descs>>
memory == <<pinned, wild, held, wrong>>
vars == <<pc, args, blocks_nr, i, count, xfer_len, lists, memory>>

Init ==
    /\ pc = "user" /\ buf = 0 /\ len = 0 /\ blocks_nr = 0
    /\ i = 0 /\ count = 0 /\ xfer_len = 0
    /\ sg = <<>> /\ dma = <<>> /\ descs = <<>>
    /\ pinned = 0 /\ wild = FALSE /\ held = {} /\ wrong = FALSE

Goto(from, to) == pc = from /\ pc' = to

Release(what) ==
    /\ held' = held \ what
    /\ wrong' = (wrong \/ ~(what \subseteq held))

-----------------------------------------------------------------------------
\* eon_hdma(): the arguments are copied in, unless there is no memory or the
\* copy fails.  A wrong hdma_id returns at once, an unknown op does nothing.
eon_hdma ==
    /\ pc \in {"user", "oops"}
    /\ \E b \in Bufs, l \in Lens :
        /\ buf' = b /\ len' = l
        /\ \/ pc' = "user" /\ held' = {}
           \/ pc' = "user" /\ held' = {"args"}
           \/ pc' \in {"kfree", "get_pages"} /\ held' = {"args"}
    /\ blocks_nr' = 0 /\ i' = 0 /\ count' = 0 /\ xfer_len' = 0
    /\ sg' = <<>> /\ dma' = <<>> /\ descs' = <<>>
    /\ pinned' = 0 /\ wild' = FALSE /\ wrong' = FALSE

PagesBetween(from, to) == ((to - from) % ULong) \div PageSize
PageStart(b) == b - (b % PageSize)
PagesNotRounded(b, l) == PagesBetween(PageStart(b), (b + l) % ULong)
get_pages_nr(b, l) == PagesBetween(PageStart(b), (b + l + PageSize - 1) % ULong)

\* dpu_get_pages(): an array of the pages and one for get_user_pages_fast().
vmalloc_blocks ==
    /\ \/ Goto("get_pages", "kfree") /\ UNCHANGED <<blocks_nr, held>>
       \/ /\ Goto("get_pages", "pages_tmp")
          /\ get_pages_nr(buf, len) \in 1 .. VmallocMax
          /\ blocks_nr' = get_pages_nr(buf, len) % UInt
          /\ held' = held \cup {"blocks"}
    /\ UNCHANGED <<args, i, count, xfer_len, lists, pinned, wild, wrong>>

vmalloc_pages ==
    /\ \/ Goto("pages_tmp", "kfree") /\ Release({"blocks"})
       \/ Goto("pages_tmp", "pin") /\ held' = held \cup {"pages"} /\ UNCHANGED wrong
    /\ UNCHANGED <<args, blocks_nr, i, count, xfer_len, lists, pinned, wild>>

\* All pages are pinned, or some, or the call fails.  Some is an error, and
\* they are released.  A failure is a negative number, which as an unsigned one
\* is not below blocks_nr: the call goes on with an array of pages that has
\* whatever was in its memory.
PartialKept(n) == n
PartialPins(n) == 0

get_user_pages_fast ==
    /\ \/ /\ Goto("pin", "sgt") /\ Release({"pages"})
          /\ pinned' = blocks_nr /\ UNCHANGED wild
       \/ /\ Goto("pin", "kfree") /\ Release({"pages", "blocks"})
          /\ \E n \in 0 .. blocks_nr - 1 : pinned' = PartialPins(n)
          /\ UNCHANGED wild
       \/ /\ Goto("pin", "sgt") /\ Release({"pages"})
          /\ wild' = TRUE /\ UNCHANGED pinned
    /\ UNCHANGED <<args, blocks_nr, i, count, xfer_len, lists>>

\* dpu_put_pages().  Of an array that was never filled in it puts nothing, or
\* pages that are not its own, or the pointers lead nowhere.
dpu_put_pages(from, what) ==
    /\ \/ Goto(from, "kfree") /\ Release(what \cup {"blocks"})
       \/ /\ wild /\ Goto(from, "kfree")
          /\ wrong' = TRUE /\ held' = held \ (what \cup {"blocks"})
       \/ wild /\ Goto(from, "oops") /\ UNCHANGED <<held, wrong>>
    /\ pinned' = 0
    /\ UNCHANGED <<args, blocks_nr, i, count, xfer_len, lists, wild>>

\* dpu_setup_sg(): the table, its list, and the error label of each.
kzalloc_sgt ==
    \/ /\ Goto("sgt", "table") /\ held' = held \cup {"sgt"}
       /\ UNCHANGED <<args, blocks_nr, i, count, xfer_len, lists, pinned, wild, wrong>>
    \/ dpu_put_pages("sgt", {})

sg_alloc_table ==
    \/ /\ Goto("table", "fill") /\ held' = held \cup {"table"}
       /\ i' = 0 /\ count' = len
       /\ UNCHANGED <<args, blocks_nr, xfer_len, lists, pinned, wild, wrong>>
    \/ dpu_put_pages("table", {"sgt"})

\* The loop over the pages.  min_t() compares as unsigned int.
NbytesWhole(off) == PageSize - off
Nbytes(off) ==
    LET size == PageSize - off IN
    IF size < count % UInt THEN size ELSE count % UInt

fill_sg ==
    /\ \/ /\ i < blocks_nr /\ Goto("fill", "fill")
          /\ LET off == (buf + len - count) % PageSize IN
              /\ sg' = Append(sg, [pos |-> i * PageSize + off, len |-> Nbytes(off)])
              /\ count' = count - Nbytes(off)
          /\ i' = i + 1
       \/ /\ i = blocks_nr /\ Goto("fill", "map")
          /\ i' = 0
          /\ UNCHANGED <<sg, count>>
    /\ UNCHANGED <<args, blocks_nr, xfer_len, dma, descs, memory>>

\* External: pci_map_sg() maps each entry, or joins it to the one before if
\* that leaves no gap.  Entries that it saves are left at the end, empty.
Joins(e, d) == d # <<>> /\ d[Len(d)].pos + d[Len(d)].len = e.pos /\ e.len > 0

pci_map_sg ==
    \/ /\ i < blocks_nr /\ Goto("map", "map")
       /\ i' = i + 1
       /\ \/ dma' = Append(dma, sg[i + 1])
          \/ /\ Joins(sg[i + 1], dma)
             /\ dma' = [dma EXCEPT ![Len(dma)].len = @ + sg[i + 1].len]
       /\ UNCHANGED <<args, blocks_nr, count, xfer_len, sg, descs, memory>>
    \/ /\ i = blocks_nr /\ Goto("map", "set_desc")
       /\ dma' = [k \in 1 .. blocks_nr |->
                    IF k <= Len(dma) THEN dma[k] ELSE [pos |-> 0, len |-> 0]]
       /\ held' = held \cup {"sgmap"}
       /\ UNCHANGED <<args, blocks_nr, i, count, xfer_len, sg, descs, pinned, wild, wrong>>
    \/ dpu_put_pages("map", {"sgt", "table"})
    \/ /\ wild /\ Goto("map", "oops")
       /\ UNCHANGED <<args, blocks_nr, i, count, xfer_len, lists, memory>>

\* set_hdma_desc(): an element for each entry, and the link element.
NoLimit == TRUE
ListFits == blocks_nr + 1 <= KmallocMax

set_hdma_desc ==
    /\ \/ Goto("set_desc", "teardown_sg") /\ UNCHANGED held
       \/ Goto("set_desc", "map_desc") /\ ListFits /\ held' = held \cup {"descs"}
    /\ UNCHANGED <<args, blocks_nr, i, count, xfer_len, lists, pinned, wild, wrong>>

pci_map_single ==
    /\ \/ Goto("map_desc", "teardown_sg") /\ Release({"descs"})
       \/ Goto("map_desc", "elements") /\ held' = held \cup {"single"} /\ UNCHANGED wrong
    /\ i' = 0 /\ xfer_len' = 0
    /\ UNCHANGED <<args, blocks_nr, count, lists, pinned, wild>>

set_data_element(h, d, l, last) == [host |-> h, dev |-> d, len |-> l % UInt, ie |-> last]

next_element ==
    /\ i < blocks_nr /\ Goto("elements", "elements")
    /\ descs' = Append(descs, set_data_element(dma[i + 1].pos, xfer_len, dma[i + 1].len,
                                               i = blocks_nr - 1))
    /\ xfer_len' = xfer_len + dma[i + 1].len
    /\ i' = i + 1
    /\ UNCHANGED <<args, blocks_nr, count, sg, dma, memory>>

set_link_element ==
    /\ i = blocks_nr /\ Goto("elements", "run")
    /\ UNCHANGED <<args, blocks_nr, i, count, xfer_len, lists, memory>>

\* The two phases have ended, well or not (see HdmaTransfer).
teardown_dma_desc ==
    /\ Goto("run", "teardown_sg")
    /\ Release({"descs", "single"})
    /\ UNCHANGED <<args, blocks_nr, i, count, xfer_len, lists, pinned, wild>>

\* The list is freed; pci_unmap_sg() is not called.
dpu_teardown_sg == dpu_put_pages("teardown_sg", {"sgt", "table"})

\* The end of eon_hdma().
kfree ==
    /\ Goto("kfree", "user")
    /\ Release({"args"})
    /\ UNCHANGED <<args, blocks_nr, i, count, xfer_len, lists, pinned, wild>>

Next ==
    \/ eon_hdma \/ vmalloc_blocks \/ vmalloc_pages \/ get_user_pages_fast
    \/ kzalloc_sgt \/ sg_alloc_table \/ fill_sg \/ pci_map_sg
    \/ set_hdma_desc \/ pci_map_single \/ next_element \/ set_link_element
    \/ teardown_dma_desc \/ dpu_teardown_sg \/ kfree

Spec == Init /\ [][Next]_vars

-----------------------------------------------------------------------------
(* Properties.                                                             *)

Entries == [pos : Nat, len : Nat]

TypeOK ==
    /\ pc \in {"user", "oops", "get_pages", "pages_tmp", "pin", "sgt", "table", "fill",
               "map", "set_desc", "map_desc", "elements", "run", "teardown_sg", "kfree"}
    /\ buf \in Nat /\ len \in Nat
    /\ blocks_nr \in 0 .. VmallocMax /\ i \in 0 .. blocks_nr
    /\ count \in 0 .. len /\ xfer_len \in Nat
    /\ sg \in Seq(Entries) /\ dma \in Seq(Entries)
    /\ descs \in Seq([host : Nat, dev : Nat, len : 0 .. UInt - 1, ie : BOOLEAN])
    /\ pinned \in 0 .. VmallocMax /\ wild \in BOOLEAN /\ wrong \in BOOLEAN
    /\ held \subseteq {"args", "blocks", "pages", "sgt", "table", "sgmap", "descs", "single"}

\* The difference that get_pages_nr() forms does not wrap: the buffer is not
\* as large as the address space.
NoWrap == (buf % PageSize) + len + PageSize - 1 < ULong

Using == {"sgt", "table", "fill", "map", "set_desc", "map_desc", "elements", "run"}
Touched == {a \div PageSize : a \in buf .. buf + len - 1}

\* From the pinning to the end of the transfer the call holds a reference to
\* each page of its buffer, and to no other.  Excepted is the failure of the
\* pinning that goes unnoticed.
PagesHeld ==
    pc \in Using /\ ~wild =>
        /\ pinned = blocks_nr
        /\ NoWrap /\ len > 0 => pinned = Cardinality(Touched)

\* The list that is handed to the engine moves the whole buffer, every byte
\* once and to its place, however pages were joined by the mapping, and only
\* its last element reports: no length is cut short on the way, although three
\* of them are held in 32 bits.
ListCovers ==
    pc = "run" /\ NoWrap =>
        /\ Len(descs) = blocks_nr /\ xfer_len = len
        /\ \A k \in 1 .. Len(descs) :
              /\ descs[k].len > 0 => descs[k].host = (buf % PageSize) + descs[k].dev
              /\ descs[k].dev + descs[k].len =
                    IF k = Len(descs) THEN len ELSE descs[k + 1].dev
              /\ descs[k].ie <=> k = Len(descs)

\* Whatever fails, the call gives back every page and every allocation, once.
\* Two things stay: the mapping of the scatter list, which nobody undoes, and
\* the arguments of a call with a wrong hdma_id.  Excepted is the failure of
\* the pinning that goes unnoticed.
NothingLeft ==
    ~wild =>
        /\ ~wrong
        /\ pc = "user" =>
              /\ pinned = 0
              /\ held \subseteq {"sgmap"} \/ (held = {"args"} /\ blocks_nr = 0)

\* "failed to get user page" is noticed: a call does not go on without its pages.
PinFailureNoticed == pc \in Using => pinned = blocks_nr

=============================================================================
