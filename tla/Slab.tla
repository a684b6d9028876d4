--------------------------------- MODULE Slab ---------------------------------
(***************************************************************************)
(* The heap (src/slab.c).  Pages are handed out in runs, first fit, from a *)
(* list ordered by address; a freed run is joined with its neighbours.     *)
(* Blocks smaller than the zone limit are chunks of zones, each zone with  *)
(* chunks of one size; larger ones are runs of pages.                      *)
(*                                                                         *)
(* Each operator below is a section between a take and a release of        *)
(* heap_sem, as a function on the record of the heap's globals; a call of  *)
(* rt_malloc or rt_free is one or two of them.  A zone header is           *)
(* heap.zone[z], memusage is heap.kup.  An address is PAGE times its page  *)
(* plus the place in the page; the zone header is at the start of a zone.  *)
(***************************************************************************)
EXTENDS Integers, SequencesExt

CONSTANTS Pages,               \* pages of the heap
          zone_page_cnt,       \* pages of a zone
          ChunkSize,           \* the sizes of small blocks
          z_nmax,              \* chunks of each size in a zone
          ZONE_RELEASE_THRESH  \* free zones kept

PAGE == 4096

ASSUME SlabAssumption ==
    /\ Pages \in Nat \ {0} /\ zone_page_cnt \in Nat \ {0}
    /\ z_nmax \in [ChunkSize -> 2 .. PAGE - 1]
    /\ ZONE_RELEASE_THRESH \in Nat

NULL == 0
PageNo == 1 .. Pages

FREE == [type |-> "free", size |-> 0]
NoZone == [size |-> NULL, nfree |-> 0, uindex |-> 0, freechunk |-> <<>>]

Run(start, page) == [start |-> start, page |-> page]
After(run) == run.start + run.page

HeapInit ==
    [page_list  |-> <<Run(1, Pages)>>,
     kup        |-> [p \in PageNo |-> FREE],
     zone       |-> [p \in PageNo |-> NoZone],
     zone_array |-> [s \in ChunkSize |-> <<>>],
     zone_free  |-> <<>>]
-----------------------------------------------------------------------------
(* Pages.                                                                  *)

Fits(h, n) == {i \in DOMAIN h.page_list : h.page_list[i].page >= n}

FirstFit(h, n) == CHOOSE i \in Fits(h, n) : \A j \in Fits(h, n) : i <= j

PageFound(h, n) == IF Fits(h, n) = {} THEN NULL ELSE h.page_list[FirstFit(h, n)].start

\* the first pages of the run are taken, the rest stays in its place
rt_page_alloc(h, n) ==
    IF Fits(h, n) = {} THEN h
    ELSE LET i == FirstFit(h, n)
             b == h.page_list[i]
         IN  [h EXCEPT !.page_list = IF b.page = n
                                     THEN RemoveAt(@, i)
                                     ELSE [@ EXCEPT ![i] = Run(b.start + n, b.page - n)]]

\* the place of the first run behind page p
Behind(h, p) ==
    Min({i \in 1 .. Len(h.page_list) : h.page_list[i].start > p} \cup {Len(h.page_list) + 1})

\* BUG: a run is joined with the one before it only
BugPageFree(h, p, n) ==
    LET l == h.page_list
        i == Behind(h, p)
        lower == i > 1 /\ After(l[i - 1]) = p
    IN  [h EXCEPT !.page_list =
            SubSeq(l, 1, IF lower THEN i - 2 ELSE i - 1)
                \o <<IF lower THEN Run(l[i - 1].start, l[i - 1].page + n) ELSE Run(p, n)>>
                \o SubSeq(l, i, Len(l))]

\* joined with the run that ends at it, and with the one that begins where it ends
rt_page_free(h, p, n) ==
    LET l == h.page_list
        i == Behind(h, p)
        lower == i > 1 /\ After(l[i - 1]) = p
        upper == i <= Len(l) /\ l[i].start = p + n
    IN  [h EXCEPT !.page_list =
            SubSeq(l, 1, IF lower THEN i - 2 ELSE i - 1)
                \o <<Run(IF lower THEN l[i - 1].start ELSE p,
                         n + (IF lower THEN l[i - 1].page ELSE 0)
                           + (IF upper THEN l[i].page ELSE 0))>>
                \o SubSeq(l, IF upper THEN i + 1 ELSE i, Len(l))]

\* the block of n pages at p is a large one
Large(h, p, n) == [h EXCEPT !.kup[p] = [type |-> "large", size |-> n]]

\* rt_free of a large block: the size is read and cleared, the type stays
LargeFreed(h, p) == [h EXCEPT !.kup[p].size = 0]
-----------------------------------------------------------------------------
(* Zones.                                                                  *)

\* the address of chunk c of zone z: the chunks are spread over its pages
ChunkAt(z, s, c) == PAGE * (z + (c * zone_page_cnt) \div z_nmax[s]) + c + 1

ZoneOf(h, ptr) == ptr \div PAGE - h.kup[ptr \div PAGE].size

ChunkOf(ptr) == (ptr % PAGE) - 1

\* chunks never used come before freed ones
ChunkFound(h, s) ==
    LET z == Head(h.zone_array[s])
        zone == h.zone[z]
    IN  ChunkAt(z, s, IF zone.uindex + 1 # z_nmax[s] THEN zone.uindex + 1
                                                     ELSE Head(zone.freechunk))

ChunkTaken(h, s) ==
    LET z == Head(h.zone_array[s])
        zone == h.zone[z]
        left == [zone EXCEPT !.nfree = @ - 1]
    IN  [h EXCEPT
           !.zone[z] = IF zone.uindex + 1 # z_nmax[s]
                       THEN [left EXCEPT !.uindex = @ + 1]
                       ELSE [left EXCEPT !.freechunk = Tail(@)],
           !.zone_array[s] = IF zone.nfree = 1 THEN Tail(@) ELSE @]

\* a zone of chunks of size s, its first chunk taken
ZoneMade(h, z, s) ==
    [h EXCEPT !.zone[z] = [size |-> s, nfree |-> z_nmax[s] - 1, uindex |-> 0,
                           freechunk |-> <<>>],
              !.zone_array[s] = <<z>> \o @]

PagesOf(z) == z .. z + zone_page_cnt - 1

SetUsage(h, z) ==
    [h EXCEPT !.kup = [p \in PageNo |-> IF p \in PagesOf(z)
                                        THEN [type |-> "small", size |-> p - z]
                                        ELSE @[p]]]

ClearUsage(h, z) ==
    [h EXCEPT !.kup = [p \in PageNo |-> IF p \in PagesOf(z) THEN FREE ELSE @[p]]]

Back(zone, c) == [zone EXCEPT !.freechunk = <<c>> \o @, !.nfree = @ + 1]

\* the chunk goes to its zone, the zone, if it was full, to the zones of its size
ChunkReturned(h, ptr) ==
    LET z == ZoneOf(h, ptr)
    IN  [h EXCEPT !.zone[z] = Back(@, ChunkOf(ptr)),
                  !.zone_array[h.zone[z].size] = IF h.zone[z].nfree = 0 THEN <<z>> \o @ ELSE @]

\* a zone of free chunks, if not the only one of its size, goes to the free zones
ChunkFreed(h, ptr) ==
    LET z == ZoneOf(h, ptr)
        s == h.zone[z].size
        g == ChunkReturned(h, ptr)
    IN  IF g.zone[z].nfree = z_nmax[s] /\ Len(g.zone_array[s]) > 1
        THEN [g EXCEPT !.zone_array[s] = RemoveFirst(@, z), !.zone_free = <<z>> \o @]
        ELSE g

TooManyFree(h) == Len(h.zone_free) > ZONE_RELEASE_THRESH

\* one free zone too many leaves the free zones; its pages are freed afterwards
ZoneReleased(h) ==
    [ClearUsage(h, Head(h.zone_free)) EXCEPT !.zone_free = Tail(@)]
-----------------------------------------------------------------------------
(* What is allocated.                                                      *)

Zones(h) == {z \in PageNo : h.kup[z] = [type |-> "small", size |-> 0]}

Chunks(h, z) == {ChunkAt(z, h.zone[z].size, c) : c \in
                   {c \in 0 .. h.zone[z].uindex : ~Contains(h.zone[z].freechunk, c)}}

\* the small blocks malloc has returned, and the large ones
SmallBlocks(h) == UNION {Chunks(h, z) : z \in {z \in Zones(h) : ~Contains(h.zone_free, z)}}

LargeBlocks(h) == {p \in PageNo : h.kup[p].type = "large" /\ h.kup[p].size > 0}

-----------------------------------------------------------------------------
(* The runs of pages, each with what it is: free, a zone, a large block or *)
(* one of those that callers hold.                                         *)

PagesIn(run) == run.start .. After(run) - 1

Tiles(h, held) ==
    {<<"free", run>> : run \in Range(h.page_list)}
        \cup {<<"zone", Run(z, zone_page_cnt)>> : z \in Zones(h)}
        \cup {<<"large", Run(p, h.kup[p].size)>> : p \in LargeBlocks(h)}
        \cup {<<"held", run>> : run \in held}
=============================================================================
