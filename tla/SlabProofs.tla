------------------------------ MODULE SlabProofs ------------------------------
(***************************************************************************)
(* The heap stays whole: a section of slab.c that begins with every page   *)
(* in one place and every zone in order ends so, and the blocks that are   *)
(* out are the ones it says.  HeapOK(h, H) is what holds between two       *)
(* sections, with the runs of pages H in the hands of callers; Slab's      *)
(* operators are proved one after the other, from the list of free runs to *)
(* rt_free of a chunk.                                                     *)
(***************************************************************************)
EXTENDS Slab, KernelProofs, FiniteSetTheorems

(* The list of free runs.                                                  *)

Runs == [start : Nat \ {0}, page : Nat \ {0}]

Gapped(l) == \A i, j \in DOMAIN l : i < j => After(l[i]) < l[j].start

PageList(l) == l \in Seq(Runs) /\ Gapped(l)

LEMMA RunIs ==
    ASSUME NEW p, NEW n
    PROVE  /\ Run(p, n).start = p /\ Run(p, n).page = n
           /\ p \in Nat \ {0} /\ n \in Nat \ {0} => Run(p, n) \in Runs
           /\ \A q, m : Run(p, n) = Run(q, m) <=> p = q /\ n = m
  BY DEF Run, Runs

LEMMA PagesInRun ==
    ASSUME NEW r \in Runs, NEW p
    PROVE  p \in PagesIn(r) <=> p \in Nat /\ r.start <= p /\ p < r.start + r.page
  BY DEF PagesIn, Runs, After

LEMMA RunEnds ==
    ASSUME NEW r \in Runs
    PROVE  r.start \in Nat \ {0} /\ After(r) \in Nat
  BY DEF Runs, After

LEMMA RunOf ==
    ASSUME NEW r \in Runs
    PROVE  /\ r.start \in Nat \ {0} /\ r.page \in Nat \ {0}
           /\ After(r) = r.start + r.page
           /\ r.start \in PagesIn(r)
           /\ r = Run(r.start, r.page)
  BY DEF PagesIn, Runs, After, Run

Spliced(l, a, r, b) == SubSeq(l, 1, a) \o <<r>> \o SubSeq(l, b, Len(l))

\* Between the first a of a list and those from b on, another is put.
IsSplice(s, l, a, r, b) ==
    /\ s \in Seq(Runs) /\ Len(s) = a + 1 + (Len(l) + 1 - b)
    /\ \A i \in 1 .. a : s[i] = l[i]
    /\ s[a + 1] = r
    /\ \A i \in b .. Len(l) : s[a + 2 + (i - b)] = l[i]

LEMMA Splice ==
    ASSUME NEW l \in Seq(Runs), NEW r \in Runs, NEW a \in Nat, NEW b \in Nat,
           a < b, b <= Len(l) + 1, NEW s, s = Spliced(l, a, r, b)
    PROVE  IsSplice(s, l, a, r, b)
<1> DEFINE x == SubSeq(l, 1, a)
           y == <<r>>
           z == SubSeq(l, b, Len(l))
<1>1. Len(l) \in Nat /\ a <= Len(l)
  BY LenProperties
<1>2. /\ x \in Seq(Runs) /\ Len(x) = a
      /\ \A i \in 1 .. a : x[i] = l[i]
  BY <1>1, SubSeqProperties
<1>3. /\ y \in Seq(Runs) /\ Len(y) = 1 /\ y[1] = r
  OBVIOUS
<1>4. /\ z \in Seq(Runs) /\ Len(z) = Len(l) + 1 - b
      /\ \A i \in 1 .. Len(l) + 1 - b : z[i] = l[b + i - 1]
  <2>1. CASE b <= Len(l)
    BY <1>1, <2>1, SubSeqProperties
  <2>2. CASE b = Len(l) + 1
    BY <1>1, <2>2, SubSeqProperties
  <2> QED
    BY <1>1, <2>1, <2>2
<1> HIDE DEF x, y, z
<1>5. PICK xy : xy = x \o y
  OBVIOUS
<1>6. /\ xy \in Seq(Runs) /\ Len(xy) = a + 1
      /\ \A i \in 1 .. a + 1 : xy[i] = IF i <= a THEN x[i] ELSE y[i - a]
  <2>1. /\ x \o y \in Seq(Runs) /\ Len(x \o y) = Len(x) + Len(y)
        /\ \A i \in 1 .. Len(x) + Len(y) :
              (x \o y)[i] = IF i <= Len(x) THEN x[i] ELSE y[i - Len(x)]
    BY <1>2, <1>3, ConcatProperties
  <2> QED
    BY <1>2, <1>3, <1>5, <2>1
<1>10. PICK xyz : xyz = xy \o z
  OBVIOUS
<1>11. /\ xyz \in Seq(Runs) /\ Len(xyz) = a + 1 + Len(z) /\ Len(z) \in Nat
       /\ \A i \in 1 .. a + 1 + Len(z) :
             xyz[i] = IF i <= a + 1 THEN xy[i] ELSE z[i - (a + 1)]
  <2>1. /\ xy \o z \in Seq(Runs) /\ Len(xy \o z) = Len(xy) + Len(z)
        /\ \A i \in 1 .. Len(xy) + Len(z) :
              (xy \o z)[i] = IF i <= Len(xy) THEN xy[i] ELSE z[i - Len(xy)]
    BY <1>4, <1>6, ConcatProperties
  <2> QED
    BY <1>4, <1>6, <1>10, <2>1, LenProperties
<1>7. \A i \in 1 .. a : xyz[i] = l[i]
  <2> TAKE i \in 1 .. a
  <2>1. i \in 1 .. a + 1 + Len(z) /\ i \in 1 .. a + 1 /\ i <= a
    BY <1>1, <1>4, <1>11
  <2> QED
    BY <1>2, <1>6, <1>11, <2>1
<1>8. xyz[a + 1] = r
  <2>1. a + 1 \in 1 .. a + 1 + Len(z) /\ a + 1 \in 1 .. a + 1 /\ ~(a + 1 <= a)
        /\ (a + 1) - a = 1
    BY <1>1, <1>4, <1>11
  <2> QED
    BY <1>3, <1>6, <1>11, <2>1
<1>9. \A i \in b .. Len(l) : xyz[a + 2 + (i - b)] = l[i]
  <2> TAKE i \in b .. Len(l)
  <2>1. /\ a + 2 + (i - b) \in 1 .. a + 1 + Len(z) /\ ~(a + 2 + (i - b) <= a + 1)
        /\ (a + 2 + (i - b)) - (a + 1) = i - b + 1
        /\ i - b + 1 \in 1 .. Len(l) + 1 - b /\ b + (i - b + 1) - 1 = i
    BY <1>1, <1>4, <1>11
  <2> QED
    BY <1>4, <1>11, <2>1
<1> QED
  BY <1>4, <1>5, <1>7, <1>8, <1>9, <1>10, <1>11 DEF x, y, z, Spliced, IsSplice

LEMMA Cut ==
    ASSUME NEW T, NEW l \in Seq(T), NEW i \in 1 .. Len(l)
    PROVE  LET s == RemoveAt(l, i) IN
           /\ s \in Seq(T) /\ Len(s) = Len(l) - 1
           /\ \A j \in 1 .. Len(s) : s[j] = IF j < i THEN l[j] ELSE l[j + 1]
<1> DEFINE x == SubSeq(l, 1, i - 1)
           z == SubSeq(l, i + 1, Len(l))
<1>1. Len(l) \in Nat
  BY LenProperties
<1>2. /\ x \in Seq(T) /\ Len(x) = i - 1
      /\ \A j \in 1 .. i - 1 : x[j] = l[j]
  BY <1>1, SubSeqProperties
<1>3. /\ z \in Seq(T) /\ Len(z) = Len(l) - i
      /\ \A j \in 1 .. Len(l) - i : z[j] = l[i + j]
  BY <1>1, SubSeqProperties
<1>4. RemoveAt(l, i) = x \o z
  BY DEF RemoveAt
<1> HIDE DEF x, z
<1>5. PICK s : s = RemoveAt(l, i)
  OBVIOUS
<1>6. /\ s \in Seq(T) /\ Len(s) = Len(x) + Len(z)
      /\ \A j \in 1 .. Len(x) + Len(z) :
            s[j] = IF j <= Len(x) THEN x[j] ELSE z[j - Len(x)]
  <2>1. /\ x \o z \in Seq(T) /\ Len(x \o z) = Len(x) + Len(z)
        /\ \A j \in 1 .. Len(x) + Len(z) :
              (x \o z)[j] = IF j <= Len(x) THEN x[j] ELSE z[j - Len(x)]
    BY <1>2, <1>3, ConcatProperties
  <2> QED
    BY <1>4, <1>5, <2>1
<1>7. Len(s) = Len(l) - 1
  BY <1>1, <1>2, <1>3, <1>6
<1>8. ASSUME NEW j \in 1 .. Len(s)
      PROVE  s[j] = IF j < i THEN l[j] ELSE l[j + 1]
  <2>1. s[j] = IF j <= i - 1 THEN x[j] ELSE z[j - (i - 1)]
    BY <1>1, <1>2, <1>3, <1>6
  <2>2. CASE j < i
    BY <1>1, <1>2, <2>1, <2>2
  <2>3. CASE ~(j < i)
    <3>1. j - (i - 1) \in 1 .. Len(l) - i /\ i + (j - (i - 1)) = j + 1 /\ ~(j <= i - 1)
      BY <1>1, <1>7, <2>3
    <3> QED
      BY <1>3, <2>1, <2>3, <3>1
  <2> QED
    BY <2>2, <2>3
<1> QED
  BY <1>5, <1>6, <1>7, <1>8

LEMMA RangeIs ==
    ASSUME NEW T, NEW l \in Seq(T)
    PROVE  \A x : x \in Range(l) <=> \E i \in 1 .. Len(l) : l[i] = x
  BY LenProperties DEF Range

Fitting(l, a, r, b) ==
    /\ \A i \in 1 .. a : After(l[i]) < r.start
    /\ \A i \in b .. Len(l) : After(r) < l[i].start

LEMMA SplicedGapped ==
    ASSUME NEW l, PageList(l), NEW r \in Runs, NEW a \in Nat, NEW b \in Nat,
           a < b, b <= Len(l) + 1,
           Fitting(l, a, r, b), NEW s, s = Spliced(l, a, r, b)
    PROVE  /\ PageList(s)
           /\ \A x : x \in Range(s) <=>
                 x = r \/ \E i \in 1 .. Len(l) : l[i] = x /\ (i <= a \/ i >= b)
<1>1. s = Spliced(l, a, r, b)
  OBVIOUS
<1>2. /\ s \in Seq(Runs) /\ Len(s) = a + 1 + (Len(l) + 1 - b)
      /\ \A i \in 1 .. a : s[i] = l[i]
      /\ s[a + 1] = r
      /\ \A i \in b .. Len(l) : s[a + 2 + (i - b)] = l[i]
  <2>1. l \in Seq(Runs)
    BY DEF PageList
  <2>2. IsSplice(s, l, a, r, b)
    BY <1>1, <2>1, Splice
  <2> QED
    BY <2>2 DEF IsSplice
<1>7. \A x : x \in Range(s) <=> \E i \in 1 .. Len(s) : s[i] = x
  BY <1>2, RangeIs
<1>3. Len(l) \in Nat /\ Len(s) \in Nat /\ DOMAIN s = 1 .. Len(s) /\ DOMAIN l = 1 .. Len(l)
      /\ \A i \in 1 .. Len(l) : l[i] \in Runs
  BY <1>2, LenProperties, ElementOfSeq DEF PageList
<1>4. \A j \in 1 .. Len(s) : j > a + 1 =>
          /\ j - a - 2 + b \in b .. Len(l)
          /\ s[j] = l[j - a - 2 + b]
  <2> TAKE j \in 1 .. Len(s)
  <2> HAVE j > a + 1
  <2>1. j - a - 2 + b \in b .. Len(l) /\ a + 2 + ((j - a - 2 + b) - b) = j
    <3>1. Len(s) = a + 1 + (Len(l) + 1 - b)
      BY <1>2
    <3>2. j \in Nat /\ Len(l) \in Nat /\ j <= Len(s)
      BY <1>3
    <3> QED
      BY <3>1, <3>2
  <2> QED
    BY <1>2, <2>1
<1>5. Gapped(s)
  <2> SUFFICES ASSUME NEW i \in 1 .. Len(s), NEW j \in 1 .. Len(s), i < j
               PROVE  After(s[i]) < s[j].start
    BY <1>3 DEF Gapped
  <2>0. \A m, n \in 1 .. Len(l) : m < n => After(l[m]) < l[n].start
    BY <1>3 DEF PageList, Gapped
  <2>1. CASE j <= a
    BY <1>2, <1>3, <2>0, <2>1
  <2>2. CASE j = a + 1
    BY <1>2, <1>3, <2>2 DEF Fitting
  <2>3. CASE j > a + 1 /\ i = a + 1
    BY <1>2, <1>3, <1>4, <2>3 DEF Fitting
  <2>4. CASE j > a + 1 /\ i <= a
    <3>1. PICK n \in b .. Len(l) : s[j] = l[n]
      BY <1>4, <2>4
    <3>2. i \in 1 .. a /\ i \in 1 .. Len(l) /\ n \in 1 .. Len(l) /\ i < n
      BY <1>3, <2>4
    <3>3. s[i] = l[i]
      BY <1>2, <3>2
    <3> QED
      BY <2>0, <3>1, <3>2, <3>3
  <2>5. CASE i > a + 1
    <3>1. PICK m \in Int : m = i - a - 2 + b
      BY <1>3
    <3>2. PICK n \in Int : n = j - a - 2 + b
      BY <1>3
    <3>3. i \in Int /\ j \in Int /\ j > a + 1
      BY <1>3, <2>5
    <3>4. s[i] = l[m] /\ s[j] = l[n] /\ m \in b .. Len(l) /\ n \in b .. Len(l)
      BY <1>4, <2>5, <3>1, <3>2, <3>3
    <3>5. m < n /\ m \in 1 .. Len(l) /\ n \in 1 .. Len(l)
      BY <1>3, <3>1, <3>2, <3>3, <3>4
    <3> QED
      BY <2>0, <3>4, <3>5
  <2> QED
    BY <2>1, <2>2, <2>3, <2>4, <2>5
<1>6. ASSUME NEW x
      PROVE  x \in Range(s) <=>
                 x = r \/ \E i \in 1 .. Len(l) : l[i] = x /\ (i <= a \/ i >= b)
  <2>1. ASSUME NEW j \in 1 .. Len(s), s[j] = x
        PROVE  x = r \/ \E i \in 1 .. Len(l) : l[i] = x /\ (i <= a \/ i >= b)
    <3>1. CASE j <= a
      BY <1>2, <1>3, <2>1, <3>1
    <3>2. CASE j = a + 1
      BY <1>2, <2>1, <3>2
    <3>3. CASE j > a + 1
      <4>1. PICK i \in b .. Len(l) : s[j] = l[i]
        BY <1>4, <3>3
      <4> QED
        BY <2>1, <4>1
    <3> QED
      BY <3>1, <3>2, <3>3
  <2>2. ASSUME NEW i \in 1 .. Len(l), l[i] = x, i <= a
        PROVE  x \in Range(s)
    BY <1>2, <1>3, <1>7, <2>2
  <2>3. ASSUME NEW i \in 1 .. Len(l), l[i] = x, i >= b
        PROVE  x \in Range(s)
    <3>1. a + 2 + (i - b) \in 1 .. Len(s) /\ s[a + 2 + (i - b)] = x
      BY <1>2, <1>3, <2>3
    <3> QED
      BY <1>2, <1>7, <3>1
  <2>4. r \in Range(s)
    <3>1. a + 1 \in 1 .. Len(s)
      BY <1>2, <1>3
    <3> QED
      BY <1>2, <1>7, <3>1
  <2> QED
    BY <1>7, <2>1, <2>2, <2>3, <2>4
<1> QED
  BY <1>1, <1>2, <1>5, <1>6 DEF PageList

\* The runs of the list have no page in common.
LEMMA GappedApart ==
    ASSUME NEW l, PageList(l), NEW i \in 1 .. Len(l), NEW j \in 1 .. Len(l)
    PROVE  /\ l[i] \in Runs
           /\ l[i] = l[j] => i = j
           /\ l[i].start = l[j].start => i = j
           /\ l[i].start < l[j].start => i < j
<1>1. l[i] \in Runs /\ l[j] \in Runs /\ DOMAIN l = 1 .. Len(l)
  BY ElementOfSeq, LenProperties DEF PageList
<1>2. i < j => After(l[i]) < l[j].start
  BY <1>1 DEF PageList, Gapped
<1>3. j < i => After(l[j]) < l[i].start
  BY <1>1 DEF PageList, Gapped
<1>4. i \in Int /\ j \in Int
  BY LenProperties DEF PageList
<1> QED
  BY <1>1, <1>2, <1>3, <1>4, RunOf

-----------------------------------------------------------------------------
(* Tiles: every page in one of them, no page in two.                       *)

Tiling(tiles) ==
    /\ \A p : p \in PageNo <=> \E x \in tiles : p \in PagesIn(x[2])
    /\ \A x, y \in tiles : x # y => PagesIn(x[2]) \cap PagesIn(y[2]) = {}

\* Some tiles are replaced by others of the same pages.
LEMMA Retile ==
    ASSUME NEW T, Tiling(T), NEW Old \in SUBSET T, NEW New,
           \A p : (\E x \in Old : p \in PagesIn(x[2])) <=> \E x \in New : p \in PagesIn(x[2]),
           \A x, y \in New : x # y => PagesIn(x[2]) \cap PagesIn(y[2]) = {}
    PROVE  Tiling((T \ Old) \cup New)
<1> DEFINE U == (T \ Old) \cup New
<1>1. ASSUME NEW p PROVE p \in PageNo <=> \E x \in U : p \in PagesIn(x[2])
  <2>1. p \in PageNo <=> \E x \in T : p \in PagesIn(x[2])
    BY DEF Tiling
  <2>2. (\E x \in Old : p \in PagesIn(x[2])) <=> \E x \in New : p \in PagesIn(x[2])
    OBVIOUS
  <2> QED
    BY <2>1, <2>2
<1>2. ASSUME NEW x \in T \ Old, NEW y \in New
      PROVE  PagesIn(x[2]) \cap PagesIn(y[2]) = {}
  <2> SUFFICES ASSUME NEW p, p \in PagesIn(x[2]), p \in PagesIn(y[2])
               PROVE  FALSE
    OBVIOUS
  <2>1. PICK o \in Old : p \in PagesIn(o[2])
    OBVIOUS
  <2>2. PagesIn(x[2]) \cap PagesIn(o[2]) = {}
    BY <2>1 DEF Tiling
  <2> QED
    BY <2>1, <2>2
<1>3. \A x, y \in U : x # y => PagesIn(x[2]) \cap PagesIn(y[2]) = {}
  <2> TAKE x \in U, y \in U
  <2> HAVE x # y
  <2>1. CASE x \in T \ Old /\ y \in T \ Old
    BY <2>1 DEF Tiling
  <2>2. CASE x \in T \ Old /\ y \in New
    BY <1>2, <2>2
  <2>3. CASE x \in New /\ y \in T \ Old
    BY <1>2, <2>3
  <2>4. CASE x \in New /\ y \in New
    BY <2>4
  <2> QED
    BY <2>1, <2>2, <2>3, <2>4
<1> QED
  BY <1>1, <1>3 DEF Tiling

Usage == [type : {"free", "small", "large"}, size : Nat]

Header == [size : ChunkSize \cup {NULL}, nfree : Int, uindex : Nat, freechunk : Seq(Nat)]

HeapState ==
    [page_list  : Seq(Runs),
     kup        : [PageNo -> Usage],
     zone       : [PageNo -> Header],
     zone_array : [ChunkSize -> Seq(Nat)],
     zone_free  : Seq(Nat)]

\* Everything but the list of free runs is the same.
SameBlocks(g, h) ==
    /\ g.kup = h.kup /\ g.zone = h.zone
    /\ g.zone_array = h.zone_array /\ g.zone_free = h.zone_free

LEMMA HeapFields ==
    ASSUME NEW h \in HeapState
    PROVE  /\ h.page_list \in Seq(Runs) /\ h.kup \in [PageNo -> Usage]
           /\ h.zone \in [PageNo -> Header] /\ h.zone_array \in [ChunkSize -> Seq(Nat)]
           /\ h.zone_free \in Seq(Nat)
  BY DEF HeapState

LEMMA WithPageList ==
    ASSUME NEW h \in HeapState, NEW l \in Seq(Runs)
    PROVE  LET g == [h EXCEPT !.page_list = l] IN
           /\ g \in HeapState /\ g.page_list = l /\ SameBlocks(g, h)
  BY DEF HeapState, SameBlocks

LEMMA SameZones ==
    ASSUME NEW g, NEW h, SameBlocks(g, h)
    PROVE  Zones(g) = Zones(h) /\ LargeBlocks(g) = LargeBlocks(h)
  BY DEF SameBlocks, Zones, LargeBlocks

OtherTiles(h) ==
    {<<"zone", Run(z, zone_page_cnt)>> : z \in Zones(h)}
        \cup {<<"large", Run(p, h.kup[p].size)>> : p \in LargeBlocks(h)}

LEMMA TilesAre ==
    ASSUME NEW h, NEW H
    PROVE  /\ Tiles(h, H) = {<<"free", r>> : r \in Range(h.page_list)} \cup OtherTiles(h)
                                 \cup {<<"held", r>> : r \in H}
           /\ \A x \in OtherTiles(h) : \A r : x # <<"free", r>> /\ x # <<"held", r>>
  BY DEF Tiles, OtherTiles

LEMMA SameOther ==
    ASSUME NEW g, NEW h, SameBlocks(g, h)
    PROVE  OtherTiles(g) = OtherTiles(h)
  BY SameZones DEF OtherTiles, SameBlocks

-----------------------------------------------------------------------------
(* Pages are taken from a free run, and given back.                        *)

LEMMA FitFound ==
    ASSUME NEW h \in HeapState, NEW n \in Nat \ {0}
    PROVE  /\ Fits(h, n) = {} => PageFound(h, n) = NULL /\ rt_page_alloc(h, n) = h
           /\ Fits(h, n) # {} =>
                 /\ FirstFit(h, n) \in 1 .. Len(h.page_list)
                 /\ h.page_list[FirstFit(h, n)] \in Runs
                 /\ h.page_list[FirstFit(h, n)].page >= n
                 /\ PageFound(h, n) = h.page_list[FirstFit(h, n)].start
                 /\ PageFound(h, n) \in Nat \ {0}
<1>1. Fits(h, n) = {} => PageFound(h, n) = NULL /\ rt_page_alloc(h, n) = h
  BY DEF PageFound, rt_page_alloc
<1>2. ASSUME Fits(h, n) # {}
      PROVE  /\ FirstFit(h, n) \in 1 .. Len(h.page_list)
             /\ h.page_list[FirstFit(h, n)] \in Runs
             /\ h.page_list[FirstFit(h, n)].page >= n
             /\ PageFound(h, n) = h.page_list[FirstFit(h, n)].start
             /\ PageFound(h, n) \in Nat \ {0}
  <2>1. h.page_list \in Seq(Runs) /\ DOMAIN h.page_list = 1 .. Len(h.page_list)
    BY HeapFields, LenProperties
  <2>2. Fits(h, n) \subseteq Nat
    BY <2>1 DEF Fits
  <2>3. \E i \in Fits(h, n) : \A j \in Fits(h, n) : i <= j
    BY <1>2, <2>2, MinOfNats
  <2>4. FirstFit(h, n) \in Fits(h, n)
    BY <2>3 DEF FirstFit
  <2>5. FirstFit(h, n) \in 1 .. Len(h.page_list) /\ h.page_list[FirstFit(h, n)].page >= n
    BY <2>1, <2>4 DEF Fits
  <2>6. h.page_list[FirstFit(h, n)] \in Runs
    BY <2>1, <2>5, ElementOfSeq
  <2>7. PageFound(h, n) = h.page_list[FirstFit(h, n)].start
    BY <1>2 DEF PageFound
  <2> QED
    BY <2>5, <2>6, <2>7, RunOf
<1> QED
  BY <1>1, <1>2

LeftOf(l, i, n) ==
    IF l[i].page = n THEN RemoveAt(l, i)
    ELSE [l EXCEPT ![i] = Run(l[i].start + n, l[i].page - n)]

\* A run in two: its first n pages, and the rest.
LEMMA RunSplit ==
    ASSUME NEW b \in Runs, NEW n \in Nat \ {0}, n < b.page
    PROVE  LET q == Run(b.start + n, b.page - n) IN
           /\ q \in Runs /\ q.start = b.start + n /\ q.page = b.page - n
           /\ After(q) = After(b) /\ b.start < q.start
           /\ \A p : p \in PagesIn(b) <=> p \in PagesIn(Run(b.start, n)) \/ p \in PagesIn(q)
           /\ PagesIn(Run(b.start, n)) \cap PagesIn(q) = {}
<1>1. PICK s \in Nat \ {0} : s = b.start
  BY RunOf
<1>2. PICK w \in Nat \ {0} : w = b.page
  BY RunOf
<1>3. s + n \in Nat \ {0} /\ w - n \in Nat \ {0} /\ (s + n) + (w - n) = s + w
  BY <1>2
<1>4. PICK q : q = Run(s + n, w - n)
  OBVIOUS
<1>5. q \in Runs /\ q.start = s + n /\ q.page = w - n
  BY <1>3, <1>4, RunIs
<1>6. PICK a : a = Run(s, n)
  OBVIOUS
<1>7. a \in Runs /\ a.start = s /\ a.page = n
  BY <1>6, RunIs
<1>8. After(q) = After(b) /\ s < s + n
  BY <1>1, <1>2, <1>3, <1>5, RunOf
<1>9. ASSUME NEW p
      PROVE  /\ p \in PagesIn(b) <=> p \in PagesIn(a) \/ p \in PagesIn(q)
             /\ ~(p \in PagesIn(a) /\ p \in PagesIn(q))
  <2>1. p \in PagesIn(b) <=> p \in Nat /\ s <= p /\ p < s + w
    BY <1>1, <1>2, PagesInRun
  <2>2. p \in PagesIn(a) <=> p \in Nat /\ s <= p /\ p < s + n
    BY <1>7, PagesInRun
  <2>3. p \in PagesIn(q) <=> p \in Nat /\ s + n <= p /\ p < s + w
    BY <1>3, <1>5, PagesInRun
  <2>4. n < w
    BY <1>2
  <2> QED
    BY <2>1, <2>2, <2>3, <2>4
<1> QED
  BY <1>1, <1>2, <1>4, <1>5, <1>6, <1>8, <1>9

\* What is left of a list when a run of it is taken, or the head of the run.
LEMMA TakenFromList ==
    ASSUME NEW l, PageList(l), NEW i \in 1 .. Len(l), NEW n \in Nat \ {0}, n <= l[i].page,
           NEW m, m = LeftOf(l, i, n)
    PROVE  /\ PageList(m)
           /\ \A x : x \in Range(m) <=>
                 \/ x \in Range(l) /\ x # l[i]
                 \/ n < l[i].page /\ x = Run(l[i].start + n, l[i].page - n)
<1>1. /\ l \in Seq(Runs) /\ Len(l) \in Nat /\ DOMAIN l = 1 .. Len(l) /\ i \in Nat
      /\ \A j \in 1 .. Len(l) : l[j] \in Runs
  BY ElementOfSeq, LenProperties DEF PageList
<1>2. \A j, o \in 1 .. Len(l) : j < o => After(l[j]) < l[o].start
  BY <1>1 DEF PageList, Gapped
<1>3. \A j, o \in 1 .. Len(l) : l[j] = l[o] => j = o
  BY GappedApart
<1>4. CASE l[i].page = n
  <2>1. /\ m \in Seq(Runs) /\ Len(m) = Len(l) - 1 /\ DOMAIN m = 1 .. Len(l) - 1
        /\ \A j \in 1 .. Len(l) - 1 : m[j] = IF j < i THEN l[j] ELSE l[j + 1]
    <3>1. m = RemoveAt(l, i)
      BY <1>4 DEF LeftOf
    <3>2. m \in Seq(Runs) /\ Len(m) = Len(l) - 1
      <4>1. RemoveAt(l, i) \in Seq(Runs)
        BY <1>1, Cut
      <4>2. Len(RemoveAt(l, i)) = Len(l) - 1
        BY <1>1, Cut, Zenon
      <4> QED
        BY <3>1, <4>1, <4>2
    <3>3. ASSUME NEW j \in 1 .. Len(m) PROVE m[j] = IF j < i THEN l[j] ELSE l[j + 1]
      BY <1>1, <3>1, Cut
    <3> QED
      BY <3>2, <3>3, LenProperties
  <2>2. Gapped(m)
    <3> SUFFICES ASSUME NEW j \in 1 .. Len(l) - 1, NEW o \in 1 .. Len(l) - 1, j < o
                 PROVE  After(m[j]) < m[o].start
      BY <2>1 DEF Gapped
    <3>1. PICK a \in 1 .. Len(l) : m[j] = l[a] /\ a = IF j < i THEN j ELSE j + 1
      BY <1>1, <2>1
    <3>2. PICK b \in 1 .. Len(l) : m[o] = l[b] /\ b = IF o < i THEN o ELSE o + 1
      BY <1>1, <2>1
    <3>3. a < b
      BY <1>1, <3>1, <3>2
    <3> QED
      BY <1>2, <3>1, <3>2, <3>3
  <2>3. ASSUME NEW x PROVE x \in Range(m) <=> x \in Range(l) /\ x # l[i]
    <3>1. ASSUME NEW j \in 1 .. Len(l) - 1, m[j] = x PROVE x \in Range(l) /\ x # l[i]
      <4>1. PICK a \in 1 .. Len(l) : m[j] = l[a] /\ a = IF j < i THEN j ELSE j + 1
        BY <1>1, <2>1
      <4>2. a # i
        BY <1>1, <4>1
      <4> QED
        BY <1>1, <1>3, <3>1, <4>1, <4>2, RangeIs
    <3>2. ASSUME NEW a \in 1 .. Len(l), l[a] = x, a # i PROVE x \in Range(m)
      <4>1. CASE a < i
        <5>1. a \in 1 .. Len(m) /\ m[a] = x
          BY <1>1, <2>1, <3>2, <4>1
        <5> QED
          BY <2>1, <5>1, RangeIs
      <4>2. CASE a > i
        <5>1. a - 1 \in 1 .. Len(m) /\ m[a - 1] = x
          BY <1>1, <2>1, <3>2, <4>2
        <5> QED
          BY <2>1, <5>1, RangeIs
      <4> QED
        BY <1>1, <3>2, <4>1, <4>2
    <3>3. x \in Range(m) <=> \E j \in 1 .. Len(l) - 1 : m[j] = x
      BY <2>1, RangeIs
    <3>4. x \in Range(l) <=> \E j \in 1 .. Len(l) : l[j] = x
      BY <1>1, RangeIs
    <3> QED
      BY <3>1, <3>2, <3>3, <3>4
  <2>4. l[i] \in Runs
    BY <1>1
  <2> QED
    BY <1>4, <2>1, <2>2, <2>3, <2>4, RunOf DEF PageList
<1>5. CASE l[i].page # n
  <2> DEFINE q == Run(l[i].start + n, l[i].page - n)
  <2>1. l[i] \in Runs /\ l[i].start \in Nat \ {0} /\ l[i].page \in Nat /\ n < l[i].page
    BY <1>1, <1>5, RunOf
  <2>3. q \in Runs
    BY <2>1, RunSplit
  <2>4. After(q) = After(l[i]) /\ l[i].start < q.start
    BY <2>1, RunSplit
  <2> HIDE DEF q
  <2>5. /\ m \in Seq(Runs) /\ Len(m) = Len(l) /\ DOMAIN m = 1 .. Len(l)
        /\ \A j \in 1 .. Len(l) : m[j] = IF j = i THEN q ELSE l[j]
    <3>1. m = [l EXCEPT ![i] = q]
      BY <1>5 DEF q, LeftOf
    <3> QED
      BY <1>1, <2>3, <3>1, ExceptSeq, LenProperties
  <2>6. Gapped(m)
    <3> SUFFICES ASSUME NEW j \in 1 .. Len(l), NEW o \in 1 .. Len(l), j < o
                 PROVE  After(m[j]) < m[o].start
      BY <2>5 DEF Gapped
    <3>1. After(l[j]) < l[o].start
      BY <1>2
    <3>2. After(m[j]) = After(l[j]) /\ m[o].start >= l[o].start
      <4>1. After(m[j]) = After(l[j])
        BY <2>4, <2>5
      <4>2. m[o] = IF o = i THEN q ELSE l[o]
        BY <2>5
      <4>3. q.start \in Nat /\ l[o].start \in Nat
        BY <1>1, <2>3, RunOf
      <4>4. CASE o = i
        BY <2>4, <4>1, <4>2, <4>3, <4>4
      <4>5. CASE o # i
        BY <4>1, <4>2, <4>3, <4>5
      <4> QED
        BY <4>4, <4>5
    <3>3. l[j] \in Runs /\ l[o] \in Runs /\ m[o] \in Runs
      BY <1>1, <2>5, ElementOfSeq
    <3>4. After(l[j]) \in Nat /\ l[o].start \in Nat /\ m[o].start \in Nat
      BY <3>3, RunEnds
    <3> QED
      BY <3>1, <3>2, <3>4
  <2>7. ASSUME NEW x PROVE x \in Range(m) <=> (x \in Range(l) /\ x # l[i]) \/ x = q
    <3>1. x \in Range(m) <=> \E j \in 1 .. Len(l) : m[j] = x
      BY <2>5, RangeIs
    <3>2. x \in Range(l) <=> \E j \in 1 .. Len(l) : l[j] = x
      BY <1>1, RangeIs
    <3> QED
      BY <1>3, <2>5, <3>1, <3>2
  <2> QED
    BY <2>1, <2>5, <2>6, <2>7 DEF PageList, q
<1> QED
  BY <1>4, <1>5

\* A run of n pages is taken: the caller holds it, and held no such run.
LEMMA PageAlloc ==
    ASSUME NEW h \in HeapState, PageList(h.page_list), NEW H, Tiling(Tiles(h, H)),
           NEW n \in Nat \ {0}, Fits(h, n) # {},
           NEW g, g = rt_page_alloc(h, n),
           NEW r, r = Run(PageFound(h, n), n)
    PROVE  /\ g \in HeapState /\ PageList(g.page_list) /\ SameBlocks(g, h)
           /\ r \in Runs /\ r \notin H
           /\ Tiling(Tiles(g, H \cup {r}))
<1>1. PICK i \in 1 .. Len(h.page_list) : i = FirstFit(h, n)
  BY FitFound
<1>2. PICK l : l = h.page_list
  OBVIOUS
<1>3. PICK b : b = l[i]
  OBVIOUS
<1>4. /\ b \in Runs /\ b.page >= n /\ PageFound(h, n) = b.start
      /\ b.start \in Nat \ {0} /\ b.page \in Nat
  BY <1>1, <1>2, <1>3, FitFound, RunOf
<1>5. PICK m : m = LeftOf(l, i, n)
  OBVIOUS
<1>6. g = [h EXCEPT !.page_list = m]
  BY <1>1, <1>2, <1>3, <1>5, Zenon DEF rt_page_alloc, LeftOf
<1>7. /\ PageList(m)
      /\ \A x : x \in Range(m) <=>
            \/ x \in Range(l) /\ x # b
            \/ n < b.page /\ x = Run(b.start + n, b.page - n)
  BY <1>1, <1>2, <1>3, <1>4, <1>5, TakenFromList
<1>8. g \in HeapState /\ g.page_list = m /\ SameBlocks(g, h)
  BY <1>6, <1>7, WithPageList DEF PageList
<1>9. r \in Runs /\ r = Run(b.start, n) /\ r.start = b.start /\ r.page = n
  BY <1>4, RunIs
<1>10. b \in Range(l)
  <2>1. l \in Seq(Runs)
    BY <1>2, HeapFields
  <2> QED
    BY <1>1, <1>2, <1>3, <2>1, RangeIs
<1>11. r \notin H
  <2> SUFFICES ASSUME r \in H PROVE FALSE
    OBVIOUS
  <2>1. <<"held", r>> \in Tiles(h, H) /\ <<"free", b>> \in Tiles(h, H)
    BY <1>2, <1>10 DEF Tiles
  <2>2. PagesIn(r) \cap PagesIn(b) = {}
    BY <2>1 DEF Tiling
  <2>3. b.start \in PagesIn(r) /\ b.start \in PagesIn(b)
    BY <1>4, <1>9, RunOf
  <2> QED
    BY <2>2, <2>3
<1>12. Tiling(Tiles(g, H \cup {r}))
  <2> DEFINE rest == Run(b.start + n, b.page - n)
             Old  == {<<"free", b>>}
             New  == {<<"held", r>>} \cup (IF n < b.page THEN {<<"free", rest>>} ELSE {})
  <2>1. Old \in SUBSET Tiles(h, H)
    BY <1>2, <1>10 DEF Tiles
  <2> HIDE DEF rest
  <2>2. n < b.page => \A p : p \in PagesIn(b) <=> p \in PagesIn(r) \/ p \in PagesIn(rest)
    BY <1>4, <1>9, RunSplit DEF rest
  <2>3. n = b.page => r = b
    BY <1>4, <1>9, RunOf
  <2>4. n < b.page => PagesIn(r) \cap PagesIn(rest) = {}
    BY <1>4, <1>9, RunSplit DEF rest
  <2>5. Tiling((Tiles(h, H) \ Old) \cup New)
    <3>1. ASSUME NEW p
          PROVE  (\E x \in Old : p \in PagesIn(x[2])) <=> \E x \in New : p \in PagesIn(x[2])
      <4>3. (\E x \in Old : p \in PagesIn(x[2])) <=> p \in PagesIn(b)
        OBVIOUS
      <4>1. CASE n < b.page
        <5>2. New = {<<"held", r>>, <<"free", rest>>}
          BY <4>1
        <5>1. (\E x \in New : p \in PagesIn(x[2])) <=> p \in PagesIn(r) \/ p \in PagesIn(rest)
          <6> HIDE DEF New
          <6> QED
            BY <5>2
        <5> QED
          BY <2>2, <4>1, <4>3, <5>1
      <4>2. CASE n = b.page
        <5>2. New = {<<"held", r>>}
          BY <4>2
        <5>1. (\E x \in New : p \in PagesIn(x[2])) <=> p \in PagesIn(r)
          <6> HIDE DEF New
          <6> QED
            BY <5>2
        <5> QED
          BY <2>3, <4>2, <4>3, <5>1
      <4> QED
        BY <1>4, <4>1, <4>2
    <3>2. ASSUME NEW x \in New, NEW y \in New, x # y
          PROVE  PagesIn(x[2]) \cap PagesIn(y[2]) = {}
      BY <2>4, <3>2
    <3> HIDE DEF Old, New
    <3> QED
      BY <2>1, <3>1, <3>2, Retile
  <2>6. Tiles(g, H \cup {r}) = (Tiles(h, H) \ Old) \cup New
    <3>1. OtherTiles(g) = OtherTiles(h)
      BY <1>8, SameOther
    <3>2. /\ Tiles(g, H \cup {r}) = {<<"free", x>> : x \in Range(m)} \cup OtherTiles(h)
                                         \cup {<<"held", x>> : x \in H \cup {r}}
          /\ Tiles(h, H) = {<<"free", x>> : x \in Range(l)} \cup OtherTiles(h)
                                \cup {<<"held", x>> : x \in H}
          /\ \A x \in OtherTiles(h) : \A y : x # <<"free", y>> /\ x # <<"held", y>>
      BY <1>2, <1>8, <3>1, TilesAre
    <3>3. \A x : x \in Range(m) <=> (x \in Range(l) /\ x # b) \/ (n < b.page /\ x = rest)
      BY <1>7, Zenon DEF rest
    <3> DEFINE A == {<<"free", x>> : x \in Range(m)}
               B == {<<"free", x>> : x \in Range(l)}
               C == {<<"held", x>> : x \in H \cup {r}}
               D == {<<"held", x>> : x \in H}
               O == OtherTiles(h)
    <3>4. A = (B \ Old) \cup (IF n < b.page THEN {<<"free", rest>>} ELSE {})
      <4>1. CASE n < b.page
        BY <3>3, <4>1
      <4>2. CASE ~(n < b.page)
        BY <3>3, <4>2
      <4> QED
        BY <4>1, <4>2
    <3>5. C = D \cup {<<"held", r>>}
      OBVIOUS
    <3>6. (O \ Old) = O /\ (D \ Old) = D
      BY <3>2
    <3> HIDE DEF A, B, C, D, O, Old
    <3> QED
      BY <3>2, <3>4, <3>5, <3>6 DEF A, B, C, D, O
  <2> QED
    BY <2>5, <2>6
<1> QED
  BY <1>7, <1>8, <1>9, <1>11, <1>12

-----------------------------------------------------------------------------
(* Runs given back are joined with their neighbours.                       *)

\* Of two runs with no page in common one is before the other.
LEMMA RunsApart ==
    ASSUME NEW x \in Runs, NEW y \in Runs, PagesIn(x) \cap PagesIn(y) = {}
    PROVE  /\ x.start <= y.start => After(x) <= y.start
           /\ x.start # y.start
<1>1. /\ x.start \in Nat /\ y.start \in Nat /\ x.page \in Nat /\ y.page \in Nat
      /\ x.page > 0 /\ y.page > 0
      /\ After(x) = x.start + x.page /\ y.start \in PagesIn(y) /\ x.start \in PagesIn(x)
  BY RunOf
<1>2. x.start # y.start
  BY <1>1
<1>3. ASSUME x.start <= y.start, ~(After(x) <= y.start) PROVE FALSE
  <2>1. y.start \in PagesIn(x)
    BY <1>1, <1>3, PagesInRun
  <2> QED
    BY <1>1, <2>1
<1> QED
  BY <1>2, <1>3

BehindIn(l, p) == Min({i \in 1 .. Len(l) : l[i].start > p} \cup {Len(l) + 1})

LEMMA BehindIs ==
    ASSUME NEW l, PageList(l), NEW r \in Runs,
           \A j \in 1 .. Len(l) : PagesIn(l[j]) \cap PagesIn(r) = {},
           NEW i, i = BehindIn(l, r.start)
    PROVE  /\ i \in 1 .. Len(l) + 1
           /\ \A j \in 1 .. Len(l) : j < i => After(l[j]) <= r.start
           /\ \A j \in 1 .. Len(l) : j >= i => After(r) <= l[j].start
<1> DEFINE S == {j \in 1 .. Len(l) : l[j].start > r.start} \cup {Len(l) + 1}
<1>1. Len(l) \in Nat /\ \A j \in 1 .. Len(l) : l[j] \in Runs
  BY ElementOfSeq, LenProperties DEF PageList
<1>2. i \in S /\ \A j \in S : i <= j
  <2>1. S \subseteq Nat /\ S # {}
    BY <1>1
  <2> QED
    BY <2>1, MinOfNats DEF BehindIn
<1>3. i \in 1 .. Len(l) + 1 /\ i \in Nat
  BY <1>1, <1>2
<1>4. ASSUME NEW j \in 1 .. Len(l), j < i PROVE After(l[j]) <= r.start
  <2>1. ~(l[j].start > r.start)
    BY <1>1, <1>2, <1>3, <1>4
  <2>2. l[j].start <= r.start
    BY <1>1, <2>1, RunOf
  <2> QED
    BY <1>1, <2>2, RunsApart
<1>5. ASSUME NEW j \in 1 .. Len(l), j >= i PROVE After(r) <= l[j].start
  <2>1. i \in 1 .. Len(l) /\ l[i].start > r.start
    BY <1>1, <1>2, <1>3, <1>5
  <2>2. l[i].start <= l[j].start
    BY <1>1, <1>3, <1>5, <2>1, GappedApart, RunOf
  <2>3. r.start <= l[j].start
    <3>1. l[i].start \in Nat /\ l[j].start \in Nat /\ r.start \in Nat
      BY <1>1, <2>1, RunOf
    <3> QED
      BY <2>1, <2>2, <3>1
  <2>4. PagesIn(r) \cap PagesIn(l[j]) = {}
    OBVIOUS
  <2> QED
    BY <1>1, <2>3, <2>4, RunsApart
<1> QED
  BY <1>3, <1>4, <1>5

Lower(l, r, i) == i > 1 /\ After(l[i - 1]) = r.start
Upper(l, r, i) == i <= Len(l) /\ l[i].start = After(r)

\* The freed run with its neighbours, and those that stay before and behind it.
Merged(l, r, i) ==
    Run(IF Lower(l, r, i) THEN l[i - 1].start ELSE r.start,
        r.page + (IF Lower(l, r, i) THEN l[i - 1].page ELSE 0)
               + (IF Upper(l, r, i) THEN l[i].page ELSE 0))
Left(l, r, i)  == IF Lower(l, r, i) THEN i - 2 ELSE i - 1
Right(l, r, i) == IF Upper(l, r, i) THEN i + 1 ELSE i

\* q has the pages of r and of the runs of the list between a and b
Together(q, l, r, a, b) ==
    \A p : p \in PagesIn(q) <=>
        p \in PagesIn(r) \/ \E j \in 1 .. Len(l) : a < j /\ j < b /\ p \in PagesIn(l[j])

LEMMA MergedFits ==
    ASSUME NEW l, PageList(l), NEW r \in Runs,
           \A j \in 1 .. Len(l) : PagesIn(l[j]) \cap PagesIn(r) = {},
           NEW i, i = BehindIn(l, r.start),
           NEW q, q = Merged(l, r, i), NEW a, a = Left(l, r, i), NEW b, b = Right(l, r, i)
    PROVE  /\ q \in Runs /\ a \in Nat /\ b \in Nat /\ a < b /\ b <= Len(l) + 1
           /\ Fitting(l, a, q, b) /\ Together(q, l, r, a, b)
<1>1. Len(l) \in Nat /\ \A j \in 1 .. Len(l) : l[j] \in Runs
  BY ElementOfSeq, LenProperties DEF PageList
<1>2. /\ i \in 1 .. Len(l) + 1
      /\ \A j \in 1 .. Len(l) : j < i => After(l[j]) <= r.start
      /\ \A j \in 1 .. Len(l) : j >= i => After(r) <= l[j].start
  BY BehindIs
<1>3. \A m, n \in 1 .. Len(l) : m < n => After(l[m]) < l[n].start
  BY <1>1, LenProperties DEF PageList, Gapped
<1>4. PICK s \in Nat \ {0} : s = r.start
  BY RunOf
<1>5. PICK w \in Nat \ {0} : w = r.page
  BY RunOf
<1>6. After(r) = s + w
  BY <1>4, <1>5, RunOf
<1>7. PICK lo : lo = Lower(l, r, i)
  OBVIOUS
<1>8. PICK up : up = Upper(l, r, i)
  OBVIOUS
<1>9. lo \in BOOLEAN /\ up \in BOOLEAN
  BY <1>7, <1>8 DEF Lower, Upper
<1>10. lo => i - 1 \in 1 .. Len(l) /\ l[i - 1] \in Runs /\ After(l[i - 1]) = s
  <2> SUFFICES ASSUME lo PROVE i - 1 \in 1 .. Len(l) /\ l[i - 1] \in Runs /\ After(l[i - 1]) = s
    BY <1>9
  <2>1. i > 1 /\ After(l[i - 1]) = r.start
    BY <1>7 DEF Lower
  <2>2. i - 1 \in 1 .. Len(l)
    BY <1>1, <1>2, <2>1
  <2> QED
    BY <1>1, <1>4, <2>1, <2>2
<1>11. up => i \in 1 .. Len(l) /\ l[i] \in Runs /\ l[i].start = s + w
  <2> SUFFICES ASSUME up PROVE i \in 1 .. Len(l) /\ l[i] \in Runs /\ l[i].start = s + w
    BY <1>9
  <2>1. i <= Len(l) /\ l[i].start = After(r)
    BY <1>8 DEF Upper
  <2>2. i \in 1 .. Len(l)
    BY <1>1, <1>2, <2>1
  <2> QED
    BY <1>1, <1>6, <2>1, <2>2
<1>12. PICK ls \in Nat \ {0} : ls = IF lo THEN l[i - 1].start ELSE s
  BY <1>9, <1>10, RunOf
<1>13. PICK lw \in Nat : lw = IF lo THEN l[i - 1].page ELSE 0
  BY <1>9, <1>10, RunOf
<1>14. PICK uw \in Nat : uw = IF up THEN l[i].page ELSE 0
  BY <1>9, <1>11, RunOf
<1>15. ls + lw = s
  BY <1>9, <1>10, <1>12, <1>13, RunOf
<1>16. q = Run(ls, w + lw + uw)
  BY <1>4, <1>5, <1>7, <1>8, <1>12, <1>13, <1>14 DEF Merged
<1>17. q \in Runs /\ q.start = ls /\ q.page = w + lw + uw /\ After(q) = s + w + uw
  <2>1. w + lw + uw \in Nat \ {0}
    OBVIOUS
  <2>2. q \in Runs /\ q.start = ls /\ q.page = w + lw + uw
    BY <1>16, <2>1, RunIs
  <2>3. After(q) = ls + (w + lw + uw)
    BY <2>2, RunOf
  <2> QED
    BY <1>15, <2>2, <2>3
<1>18. a = (IF lo THEN i - 2 ELSE i - 1) /\ b = IF up THEN i + 1 ELSE i
  BY <1>7, <1>8 DEF Left, Right
<1>19. a \in Nat /\ b \in Nat /\ a < b /\ b <= Len(l) + 1 /\ a <= i - 1 /\ b >= i /\ a <= Len(l)
  <2>1. i \in Nat /\ i >= 1 /\ i <= Len(l) + 1
    BY <1>1, <1>2
  <2>2. lo => i - 1 >= 1
    BY <1>10, <2>1
  <2>3. up => i <= Len(l)
    BY <1>11, <2>1
  <2>4. /\ a \in Nat /\ a <= i - 1
    BY <1>9, <1>18, <2>1, <2>2
  <2>5. b \in Nat /\ b >= i /\ b <= Len(l) + 1
    BY <1>1, <1>9, <1>18, <2>1, <2>3
  <2> QED
    BY <1>1, <2>1, <2>4, <2>5
<1>20. ASSUME NEW j \in 1 .. a PROVE After(l[j]) < q.start
  <2>1. j \in 1 .. Len(l) /\ j < i /\ l[j] \in Runs
    BY <1>1, <1>2, <1>19
  <2>2. After(l[j]) \in Nat
    BY <2>1, RunEnds
  <2>3. CASE lo
    <3>1. j < i - 1
      BY <1>2, <1>18, <2>3
    <3> QED
      BY <1>3, <1>10, <1>12, <1>17, <2>1, <2>3, <3>1
  <2>4. CASE ~lo
    <3>1. i > 1 /\ i - 1 \in 1 .. Len(l) /\ After(l[i - 1]) <= s
      BY <1>1, <1>2, <1>4, <2>1
    <3>2. After(l[i - 1]) # s
      BY <1>4, <1>7, <2>4, <3>1 DEF Lower
    <3>3. l[i - 1] \in Runs /\ After(l[i - 1]) \in Nat
      BY <1>1, <3>1, RunOf
    <3>4. After(l[i - 1]) < s
      BY <3>1, <3>2, <3>3
    <3>5. CASE j = i - 1
      BY <1>12, <1>17, <2>4, <3>4, <3>5
    <3>6. CASE j # i - 1
      <4>1. After(l[j]) < l[i - 1].start
        BY <1>2, <1>3, <2>1, <3>1, <3>6
      <4>2. l[i - 1].start < After(l[i - 1]) /\ l[i - 1].start \in Nat
        BY <3>3, RunOf
      <4> QED
        BY <1>12, <1>17, <2>2, <2>4, <3>3, <3>4, <4>1, <4>2
    <3> QED
      BY <3>5, <3>6
  <2> QED
    BY <1>9, <2>3, <2>4
<1>21. ASSUME NEW j \in b .. Len(l) PROVE After(q) < l[j].start
  <2>1. j \in 1 .. Len(l) /\ j >= i /\ l[j] \in Runs
    BY <1>1, <1>2, <1>19
  <2>2. l[j].start \in Nat /\ i \in 1 .. Len(l) /\ l[i] \in Runs
    BY <1>1, <1>2, <2>1, RunOf
  <2>3. CASE up
    <3>1. i < j
      BY <1>2, <1>18, <2>1, <2>3
    <3>2. After(l[i]) < l[j].start
      BY <1>3, <2>1, <2>2, <3>1
    <3>3. After(l[i]) = s + w + uw
      BY <1>11, <1>14, <2>2, <2>3, RunOf
    <3> QED
      BY <1>17, <3>2, <3>3
  <2>4. CASE ~up
    <3>0. i <= Len(l) /\ i >= i
      BY <1>1, <1>2, <2>2
    <3>1. s + w <= l[i].start /\ l[i].start # s + w /\ l[i].start \in Nat
      <4>1. l[i].start # s + w
        BY <1>6, <1>8, <2>4, <3>0 DEF Upper
      <4>2. s + w <= l[i].start
        BY <1>2, <1>6, <2>2, <3>0
      <4> QED
        BY <2>2, <4>1, <4>2, RunOf
    <3>2. s + w < l[i].start
      BY <3>1
    <3>3. l[i].start <= l[j].start
      <4>1. CASE i = j
        BY <3>1, <4>1
      <4>2. CASE i # j
        BY <1>2, <1>3, <2>1, <2>2, <4>2, RunOf
      <4> QED
        BY <4>1, <4>2
    <3> QED
      BY <1>14, <1>17, <2>2, <2>4, <3>1, <3>2, <3>3
  <2> QED
    BY <1>9, <2>3, <2>4
<1>22. Fitting(l, a, q, b)
  BY <1>20, <1>21 DEF Fitting
<1>23. ASSUME NEW p
       PROVE  p \in PagesIn(q) <=>
                 p \in PagesIn(r) \/ \E j \in 1 .. Len(l) : a < j /\ j < b /\ p \in PagesIn(l[j])
  <2>1. p \in PagesIn(q) <=> p \in Nat /\ ls <= p /\ p < s + w + uw
    BY <1>15, <1>17, PagesInRun
  <2>2. p \in PagesIn(r) <=> p \in Nat /\ s <= p /\ p < s + w
    BY <1>4, <1>5, PagesInRun
  <2>3. lo => (p \in PagesIn(l[i - 1]) <=> p \in Nat /\ ls <= p /\ p < s)
    BY <1>10, <1>12, <1>13, <1>15, PagesInRun
  <2>4. up => (p \in PagesIn(l[i]) <=> p \in Nat /\ s + w <= p /\ p < s + w + uw)
    BY <1>11, <1>14, PagesInRun
  <2>5. (\E j \in 1 .. Len(l) : a < j /\ j < b /\ p \in PagesIn(l[j]))
            <=> (lo /\ p \in PagesIn(l[i - 1])) \/ (up /\ p \in PagesIn(l[i]))
    <3>1. \A j \in 1 .. Len(l) : a < j /\ j < b <=> (lo /\ j = i - 1) \/ (up /\ j = i)
      BY <1>2, <1>9, <1>18
    <3> QED
      BY <1>10, <1>11, <3>1
  <2>6. ~lo => ls = s
    BY <1>12
  <2>7. ~up => uw = 0
    BY <1>14
  <2>8. p \in Nat => (p \in PagesIn(q) <=>
                        p \in PagesIn(r) \/ (lo /\ p \in PagesIn(l[i - 1])) \/ (up /\ p \in PagesIn(l[i])))
    BY <1>9, <1>15, <2>1, <2>2, <2>3, <2>4, <2>6, <2>7
  <2> QED
    BY <1>9, <2>1, <2>2, <2>3, <2>4, <2>5, <2>8
<1> QED
  BY <1>17, <1>19, <1>22, <1>23 DEF Together

\* A held run is given back: it is held no more.
LEMMA PageFree ==
    ASSUME NEW h \in HeapState, PageList(h.page_list), NEW H, Tiling(Tiles(h, H)),
           NEW r \in H, r \in Runs,
           NEW g, g = rt_page_free(h, r.start, r.page)
    PROVE  /\ g \in HeapState /\ PageList(g.page_list) /\ SameBlocks(g, h)
           /\ Tiling(Tiles(g, H \ {r}))
<1>1. PICK l : l = h.page_list
  OBVIOUS
<1>2. l \in Seq(Runs) /\ PageList(l)
  BY <1>1, HeapFields
<1>3. PICK i : i = BehindIn(l, r.start)
  OBVIOUS
<1>4. PICK q : q = Merged(l, r, i)
  OBVIOUS
<1>5. PICK a : a = Left(l, r, i)
  OBVIOUS
<1>6. PICK b : b = Right(l, r, i)
  OBVIOUS
<1>7. \A j \in 1 .. Len(l) : PagesIn(l[j]) \cap PagesIn(r) = {}
  <2> TAKE j \in 1 .. Len(l)
  <2>1. l[j] \in Range(l)
    BY <1>2, RangeIs
  <2>2. <<"free", l[j]>> \in Tiles(h, H) /\ <<"held", r>> \in Tiles(h, H)
    BY <1>1, <2>1 DEF Tiles
  <2> QED
    BY <2>2 DEF Tiling
<1>8. /\ q \in Runs /\ a \in Nat /\ b \in Nat /\ a < b /\ b <= Len(l) + 1
      /\ Fitting(l, a, q, b)
      /\ \A p : p \in PagesIn(q) <=>
            p \in PagesIn(r) \/ \E j \in 1 .. Len(l) : a < j /\ j < b /\ p \in PagesIn(l[j])
  <2>1. q \in Runs /\ a \in Nat /\ b \in Nat /\ a < b /\ b <= Len(l) + 1
    BY <1>2, <1>3, <1>4, <1>5, <1>6, <1>7, MergedFits
  <2>2. Fitting(l, a, q, b)
    BY <1>2, <1>3, <1>4, <1>5, <1>6, <1>7, MergedFits
  <2>3. Together(q, l, r, a, b)
    BY <1>2, <1>3, <1>4, <1>5, <1>6, <1>7, MergedFits
  <2> QED
    BY <2>1, <2>2, <2>3 DEF Together
<1>9. PICK m : m = Spliced(l, a, q, b)
  OBVIOUS
<1>10. /\ PageList(m)
       /\ \A x : x \in Range(m) <=>
             x = q \/ \E j \in 1 .. Len(l) : l[j] = x /\ (j <= a \/ j >= b)
  <2>1. q \in Runs /\ a \in Nat /\ b \in Nat /\ a < b /\ b <= Len(l) + 1 /\ Fitting(l, a, q, b)
    BY <1>8
  <2>2. PageList(m)
    BY <1>2, <1>9, <2>1, SplicedGapped
  <2>3. \A x : x \in Range(m) <=>
              x = q \/ \E j \in 1 .. Len(l) : l[j] = x /\ (j <= a \/ j >= b)
    BY <1>2, <1>9, <2>1, SplicedGapped
  <2> QED
    BY <2>2, <2>3
<1>11. g = [h EXCEPT !.page_list = m]
  <2>1. Behind(h, r.start) = i
    BY <1>1, <1>3 DEF Behind, BehindIn
  <2>2. r.start + r.page = After(r)
    BY DEF After
  <2> QED
    BY <1>1, <1>4, <1>5, <1>6, <1>9, <2>1, <2>2, Zenon
       DEF rt_page_free, Spliced, Merged, Left, Right, Lower, Upper
<1>12. g \in HeapState /\ g.page_list = m /\ SameBlocks(g, h)
  BY <1>10, <1>11, WithPageList DEF PageList
<1> DEFINE Gone == {l[j] : j \in {j \in 1 .. Len(l) : a < j /\ j < b}}
           Old  == {<<"held", r>>} \cup {<<"free", x>> : x \in Gone}
           New  == {<<"free", q>>}
<1>13. \A j \in 1 .. Len(l) : l[j] \in Range(l)
  BY <1>2, RangeIs
<1>14. Gone \subseteq Range(l)
  BY <1>13
<1>15. \A x : x \in Range(m) <=> x = q \/ (x \in Range(l) /\ x \notin Gone)
  <2> TAKE x
  <2>1. x \in Range(l) <=> \E j \in 1 .. Len(l) : l[j] = x
    BY <1>2, RangeIs
  <2>2. \A j, n \in 1 .. Len(l) : l[j] = l[n] => j = n
    BY <1>2, GappedApart
  <2>3. \A j \in 1 .. Len(l) : l[j] \in Gone <=> a < j /\ j < b
    BY <2>2
  <2>4. \A j \in 1 .. Len(l) : (a < j /\ j < b) <=> ~(j <= a \/ j >= b)
    BY <1>8, <1>2, LenProperties
  <2> HIDE DEF Gone
  <2> QED
    BY <1>10, <2>1, <2>3, <2>4
<1>16. Tiling((Tiles(h, H) \ Old) \cup New)
  <2>1. Old \in SUBSET Tiles(h, H)
    <3> HIDE DEF Gone
    <3> QED
      BY <1>1, <1>14 DEF Tiles
  <2>2. ASSUME NEW p
        PROVE  (\E x \in Old : p \in PagesIn(x[2])) <=> \E x \in New : p \in PagesIn(x[2])
    <3>1. (\E x \in New : p \in PagesIn(x[2])) <=> p \in PagesIn(q)
      OBVIOUS
    <3>2. (\E x \in Old : p \in PagesIn(x[2])) <=>
             p \in PagesIn(r) \/ \E x \in Gone : p \in PagesIn(x)
      <4> HIDE DEF Gone
      <4>1. ASSUME NEW x \in Old, p \in PagesIn(x[2])
            PROVE  p \in PagesIn(r) \/ \E y \in Gone : p \in PagesIn(y)
        <5>1. CASE x = <<"held", r>>
          BY <4>1, <5>1
        <5>2. CASE x # <<"held", r>>
          <6>1. PICK y \in Gone : x = <<"free", y>>
            BY <5>2
          <6> QED
            BY <4>1, <6>1
        <5> QED
          BY <5>1, <5>2
      <4>2. ASSUME p \in PagesIn(r) PROVE \E x \in Old : p \in PagesIn(x[2])
        <5>1. <<"held", r>> \in Old /\ <<"held", r>>[2] = r
          OBVIOUS
        <5> HIDE DEF Old
        <5> QED
          BY <4>2, <5>1
      <4>3. ASSUME NEW y \in Gone, p \in PagesIn(y) PROVE \E x \in Old : p \in PagesIn(x[2])
        <5>1. <<"free", y>> \in Old /\ <<"free", y>>[2] = y
          OBVIOUS
        <5> HIDE DEF Old
        <5> QED
          BY <4>3, <5>1
      <4> HIDE DEF Old
      <4> QED
        BY <4>1, <4>2, <4>3
    <3>3. (\E x \in Gone : p \in PagesIn(x)) <=>
             \E j \in 1 .. Len(l) : a < j /\ j < b /\ p \in PagesIn(l[j])
      OBVIOUS
    <3> QED
      BY <1>8, <3>1, <3>2, <3>3
  <2>3. \A x, y \in New : x # y => PagesIn(x[2]) \cap PagesIn(y[2]) = {}
    OBVIOUS
  <2> HIDE DEF Old, New
  <2> QED
    BY <2>1, <2>2, <2>3, Retile
<1>17. Tiles(g, H \ {r}) = (Tiles(h, H) \ Old) \cup New
  <2>1. OtherTiles(g) = OtherTiles(h)
    BY <1>12, SameOther
  <2>2. /\ Tiles(g, H \ {r}) = {<<"free", x>> : x \in Range(m)} \cup OtherTiles(h)
                                    \cup {<<"held", x>> : x \in H \ {r}}
        /\ Tiles(h, H) = {<<"free", x>> : x \in Range(l)} \cup OtherTiles(h)
                              \cup {<<"held", x>> : x \in H}
        /\ \A x \in OtherTiles(h) : \A y : x # <<"free", y>> /\ x # <<"held", y>>
    BY <1>1, <1>12, <2>1, TilesAre
  <2> DEFINE A == {<<"free", x>> : x \in Range(m)}
             B == {<<"free", x>> : x \in Range(l)}
             C == {<<"held", x>> : x \in H \ {r}}
             D == {<<"held", x>> : x \in H}
             O == OtherTiles(h)
  <2> HIDE DEF Gone
  <2>3. A = (B \ Old) \cup New
    BY <1>15
  <2>4. C = D \ Old
    OBVIOUS
  <2>5. (O \ Old) = O
    BY <2>2
  <2> HIDE DEF A, B, C, D, O, Old, New
  <2> QED
    BY <2>2, <2>3, <2>4, <2>5 DEF A, B, C, D, O
<1> HIDE DEF Old, New, Gone
<1> QED
  BY <1>10, <1>12, <1>16, <1>17

-----------------------------------------------------------------------------
(* Zones: which chunks are out, and where they are.                        *)

LEMMA ZoneSizes ==
    ASSUME NEW s \in ChunkSize
    PROVE  /\ z_nmax[s] \in Nat /\ 2 <= z_nmax[s] /\ z_nmax[s] < 4096
           /\ zone_page_cnt \in Nat \ {0} /\ Pages \in Nat \ {0}
<1>1. z_nmax[s] \in 2 .. 4095
  BY SlabAssumption DEF PAGE
<1>2. PICK m : m = z_nmax[s]
  OBVIOUS
<1>3. m \in 2 .. 4095
  BY <1>1, <1>2
<1>4. m \in Nat /\ 2 <= m /\ m < 4096
  BY <1>3
<1>5. zone_page_cnt \in Nat \ {0} /\ Pages \in Nat \ {0}
  BY SlabAssumption
<1> QED
  BY <1>2, <1>4, <1>5

LEMMA Quotient ==
    ASSUME NEW c \in Nat, NEW m \in Nat \ {0}, NEW w \in Nat \ {0}, c < m
    PROVE  (c * w) \div m \in 0 .. w - 1
<1>1. c * w \in Nat
  OBVIOUS
<1>2. PICK q \in Nat : q = (c * w) \div m /\ m * q <= c * w
  BY <1>1, DivBounds
<1>3. ASSUME q >= w PROVE FALSE
  <2>1. m * w <= m * q
    BY <1>3, TimesMonotone
  <2>2. c + 1 <= m
    OBVIOUS
  <2>3. w * (c + 1) <= w * m
    BY <2>2, TimesMonotone
  <2>4. w * (c + 1) = c * w + w /\ w * m = m * w
    OBVIOUS
  <2>5. m * w \in Nat /\ m * q \in Nat
    OBVIOUS
  <2> HIDE DEF TimesMonotone
  <2>6. PICK cw \in Nat : cw = c * w
    BY <1>1
  <2>7. PICK mw \in Nat : mw = m * w
    BY <2>5
  <2>8. PICK mq \in Nat : mq = m * q
    BY <2>5
  <2>9. mw <= mq /\ mq <= cw /\ cw + w <= mw
    BY <1>2, <2>1, <2>3, <2>4, <2>6, <2>7, <2>8
  <2> QED
    BY <2>9
<1> QED
  BY <1>2, <1>3

LEMMA ChunkPlace ==
    ASSUME NEW z \in Nat, NEW s \in ChunkSize, NEW c \in 0 .. z_nmax[s] - 1
    PROVE  /\ ChunkAt(z, s, c) \in Nat \ {0}
           /\ ChunkAt(z, s, c) \div PAGE \in PagesOf(z)
           /\ ChunkOf(ChunkAt(z, s, c)) = c
           /\ ChunkAt(z, s, c) % PAGE # 0
<1>1. z_nmax[s] \in Nat \ {0} /\ z_nmax[s] < 4096 /\ c \in Nat /\ c < z_nmax[s]
      /\ zone_page_cnt \in Nat \ {0} /\ c < 4095
  BY ZoneSizes
<1>2. PICK q \in Nat : q = (c * zone_page_cnt) \div z_nmax[s] /\ q \in 0 .. zone_page_cnt - 1
  <2>1. PICK m \in Nat \ {0} : m = z_nmax[s]
    BY <1>1
  <2>2. (c * zone_page_cnt) \div m \in 0 .. zone_page_cnt - 1
    BY <1>1, <2>1, Quotient
  <2> QED
    BY <1>1, <2>1, <2>2
<1>3. ChunkAt(z, s, c) = 4096 * (z + q) + c + 1
  BY <1>2 DEF ChunkAt, PAGE
<1>4. PICK p \in Nat : p = z + q
  OBVIOUS
<1>5. (4096 * p + c + 1) \div 4096 = p /\ (4096 * p + c + 1) % 4096 = c + 1
      /\ 4096 * p + c + 1 \in Nat \ {0}
  BY <1>1, Z3
<1>6. p \in PagesOf(z)
  BY <1>1, <1>2, <1>4 DEF PagesOf
<1> QED
  BY <1>1, <1>3, <1>4, <1>5, <1>6 DEF ChunkOf, PAGE

HeaderOK(e) ==
    /\ e.size \in ChunkSize
    /\ e.uindex \in 0 .. z_nmax[e.size] - 1
    /\ e.freechunk \in Seq(0 .. e.uindex) /\ IsInjective(e.freechunk)
    /\ e.nfree = z_nmax[e.size] - 1 - e.uindex + Len(e.freechunk)

UsedIn(e) == {c \in 0 .. e.uindex : ~Contains(e.freechunk, c)}

NewHeader(s) == [size |-> s, nfree |-> z_nmax[s] - 1, uindex |-> 0, freechunk |-> <<>>]

LEMMA HeaderNew ==
    ASSUME NEW s \in ChunkSize
    PROVE  /\ HeaderOK(NewHeader(s)) /\ NewHeader(s) \in Header
           /\ UsedIn(NewHeader(s)) = {0}
           /\ NewHeader(s).size = s /\ NewHeader(s).nfree > 0
<1>1. PICK e : e = NewHeader(s)
  OBVIOUS
<1>2. e.size = s /\ e.nfree = z_nmax[s] - 1 /\ e.uindex = 0 /\ e.freechunk = <<>>
  BY <1>1 DEF NewHeader
<1>3. z_nmax[s] \in Nat /\ z_nmax[s] >= 2
  BY ZoneSizes
<1>4. <<>> \in Seq(0 .. 0) /\ Len(<<>>) = 0 /\ IsInjective(<<>>) /\ \A c : ~Contains(<<>>, c)
  BY DEF IsInjective, Contains
<1>5. HeaderOK(e) /\ e.nfree > 0
  BY <1>2, <1>3, <1>4 DEF HeaderOK
<1>6. UsedIn(e) = {0}
  BY <1>2, <1>4 DEF UsedIn
<1>7. e \in Header
  BY <1>1, <1>3 DEF NewHeader, Header
<1> QED
  BY <1>1, <1>2, <1>5, <1>6, <1>7

LEMMA HeaderFields ==
    ASSUME NEW e \in Header
    PROVE  e.nfree \in Int /\ e.uindex \in Nat /\ e.freechunk \in Seq(Nat)
  BY DEF Header

HeaderBy(e, n, u, f) == [size |-> e.size, nfree |-> n, uindex |-> u, freechunk |-> f]

IsHeader(b, e, n, u, f) ==
    /\ b \in Header
    /\ b.size = e.size /\ b.nfree = n /\ b.uindex = u /\ b.freechunk = f

LEMMA HeaderIs ==
    ASSUME NEW e \in Header, NEW n, NEW u, NEW f, n \in Int, u \in Nat, f \in Seq(Nat)
    PROVE  IsHeader(HeaderBy(e, n, u, f), e, n, u, f)
<1>1. e.size \in ChunkSize \cup {NULL}
  BY DEF Header
<1> QED
  BY <1>1 DEF Header, HeaderBy, IsHeader

\* The chunk a zone gives, and the header after that.
GivesChunk(e) == IF e.uindex + 1 # z_nmax[e.size] THEN e.uindex + 1 ELSE Head(e.freechunk)

Given(e) ==
    IF e.uindex + 1 # z_nmax[e.size]
    THEN [e EXCEPT !.nfree = @ - 1, !.uindex = @ + 1]
    ELSE [e EXCEPT !.nfree = @ - 1, !.freechunk = Tail(@)]

LEMMA HeaderGives ==
    ASSUME NEW e \in Header, HeaderOK(e), e.nfree > 0
    PROVE  /\ Given(e) \in Header /\ HeaderOK(Given(e))
           /\ Given(e).size = e.size /\ Given(e).nfree = e.nfree - 1
           /\ GivesChunk(e) \in 0 .. z_nmax[e.size] - 1
           /\ GivesChunk(e) \notin UsedIn(e)
           /\ UsedIn(Given(e)) = UsedIn(e) \cup {GivesChunk(e)}
<1>1. PICK u \in Nat : u = e.uindex
  BY HeaderFields
<1>2. PICK f : f = e.freechunk
  OBVIOUS
<1>3. PICK n : n = z_nmax[e.size]
  OBVIOUS
<1>4. n \in Nat /\ n >= 2 /\ u <= n - 1
  BY <1>1, <1>3, ZoneSizes DEF HeaderOK
<1>5. f \in Seq(0 .. u) /\ IsInjective(f) /\ Len(f) \in Nat
  BY <1>1, <1>2, LenProperties DEF HeaderOK
<1>6. e.nfree = n - 1 - u + Len(f)
  BY <1>1, <1>2, <1>3 DEF HeaderOK
<1>7. \A c : Contains(f, c) => c \in 0 .. u
  BY <1>5, ElementOfSeq DEF Contains
<1>8. UsedIn(e) = {c \in 0 .. u : ~Contains(f, c)}
  BY <1>1, <1>2 DEF UsedIn
<1>9. CASE u + 1 # n
  <2>1. PICK d : d = Given(e)
    OBVIOUS
  <2>2. d = [[e EXCEPT !.nfree = e.nfree - 1] EXCEPT !.uindex = e.uindex + 1]
    BY <1>1, <1>3, <1>9, <2>1 DEF Given
  <2>3. d \in Header /\ d.size = e.size /\ d.nfree = e.nfree - 1 /\ d.uindex = u + 1
        /\ d.freechunk = f
    <3>1. PICK n1 \in Int : n1 = e.nfree - 1
      BY HeaderFields
    <3>2. PICK u1 \in Nat : u1 = e.uindex + 1
      BY HeaderFields
    <3>3. d = [[e EXCEPT !.nfree = n1] EXCEPT !.uindex = u1]
      BY <2>2, <3>1, <3>2
    <3>4. d = HeaderBy(e, n1, u1, f)
      BY <1>2, <3>3 DEF Header, HeaderBy
    <3>5. f \in Seq(Nat)
      BY <1>2, HeaderFields
    <3>6. PICK b : b = HeaderBy(e, n1, u1, f)
      OBVIOUS
    <3>7. b \in Header /\ b.size = e.size /\ b.nfree = n1 /\ b.uindex = u1 /\ b.freechunk = f
      BY <3>5, <3>6, HeaderIs DEF IsHeader
    <3>8. d = b /\ u1 = u + 1
      BY <1>1, <3>2, <3>4, <3>6
    <3> QED
      BY <3>1, <3>7, <3>8
  <2>4. f \in Seq(0 .. u + 1)
    <3>1. \A i \in 1 .. Len(f) : f[i] \in 0 .. u + 1
      BY <1>1, <1>5, ElementOfSeq
    <3> QED
      BY <1>5, <3>1, IsASeq, LenProperties
  <2>5. u + 1 \in 0 .. n - 1
    BY <1>4, <1>9
  <2>6. d.nfree = n - 1 - (u + 1) + Len(f)
    BY <1>4, <1>5, <1>6, <2>3
  <2>7. HeaderOK(d)
    BY <1>3, <1>5, <2>3, <2>4, <2>5, <2>6 DEF HeaderOK
  <2>8. GivesChunk(e) = u + 1
    BY <1>1, <1>3, <1>9 DEF GivesChunk
  <2>9. u + 1 \notin 0 .. u /\ ~Contains(f, u + 1)
    BY <1>7
  <2>10. UsedIn(d) = UsedIn(e) \cup {u + 1}
    <3>1. UsedIn(d) = {c \in 0 .. u + 1 : ~Contains(f, c)}
      BY <2>3 DEF UsedIn
    <3>2. \A c : c \in 0 .. u + 1 <=> c \in 0 .. u \/ c = u + 1
      OBVIOUS
    <3> QED
      BY <1>8, <2>9, <3>1, <3>2
  <2> QED
    BY <1>3, <1>8, <2>1, <2>3, <2>5, <2>7, <2>8, <2>9, <2>10
<1>10. CASE u + 1 = n
  <2>1. PICK d : d = Given(e)
    OBVIOUS
  <2>2. d = [[e EXCEPT !.nfree = e.nfree - 1] EXCEPT !.freechunk = Tail(e.freechunk)]
    BY <1>1, <1>3, <1>10, <2>1 DEF Given
  <2>3. f # <<>>
    BY <1>4, <1>6, <1>10
  <2>4. /\ Tail(f) \in Seq(0 .. u) /\ Len(Tail(f)) = Len(f) - 1
        /\ IsInjective(Tail(f))
        /\ Head(f) \in 0 .. u /\ Contains(f, Head(f))
        /\ \A x : Contains(Tail(f), x) <=> Contains(f, x) /\ x # Head(f)
    BY <1>5, <2>3, TailOfList
  <2>5. Tail(f) \in Seq(Nat)
    <3>1. f \in Seq(Nat)
      BY <1>2 DEF Header
    <3> QED
      BY <2>3, <3>1, HeadTailProperties
  <2>6. d \in Header /\ d.size = e.size /\ d.nfree = e.nfree - 1 /\ d.uindex = u
        /\ d.freechunk = Tail(f)
    <3>1. PICK n1 \in Int : n1 = e.nfree - 1
      BY HeaderFields
    <3>2. d = [[e EXCEPT !.nfree = n1] EXCEPT !.freechunk = Tail(f)]
      BY <1>2, <2>2, <3>1
    <3>3. d = HeaderBy(e, n1, u, Tail(f))
      BY <1>1, <3>2 DEF Header, HeaderBy
    <3>4. PICK b : b = HeaderBy(e, n1, u, Tail(f))
      OBVIOUS
    <3>5. b \in Header /\ b.size = e.size /\ b.nfree = n1 /\ b.uindex = u /\ b.freechunk = Tail(f)
      <4>1. PICK g \in Seq(Nat) : g = Tail(f)
        BY <2>5
      <4>2. b = HeaderBy(e, n1, u, g)
        BY <3>4, <4>1
      <4>3. b \in Header /\ b.size = e.size /\ b.nfree = n1 /\ b.uindex = u /\ b.freechunk = g
        BY <4>2, HeaderIs DEF IsHeader
      <4> QED
        BY <4>1, <4>3
    <3> QED
      BY <3>1, <3>3, <3>4, <3>5
  <2>7. d.nfree = n - 1 - u + Len(Tail(f))
    BY <1>4, <1>5, <1>6, <2>4, <2>6
  <2>8. u \in 0 .. n - 1
    BY <1>4
  <2>9. HeaderOK(d)
    BY <1>3, <2>4, <2>6, <2>7, <2>8 DEF HeaderOK
  <2>10. GivesChunk(e) = Head(f)
    BY <1>1, <1>2, <1>3, <1>10 DEF GivesChunk
  <2>11. Head(f) \in 0 .. n - 1
    BY <1>4, <2>4
  <2>12. UsedIn(d) = UsedIn(e) \cup {Head(f)}
    <3>1. UsedIn(d) = {c \in 0 .. u : ~Contains(Tail(f), c)}
      BY <2>6 DEF UsedIn
    <3> QED
      BY <1>8, <2>4, <3>1
  <2> QED
    BY <1>3, <1>8, <2>1, <2>4, <2>6, <2>9, <2>10, <2>11, <2>12
<1> QED
  BY <1>9, <1>10

LEMMA HeaderTakes ==
    ASSUME NEW e \in Header, HeaderOK(e), NEW c \in UsedIn(e)
    PROVE  /\ Back(e, c) \in Header /\ HeaderOK(Back(e, c))
           /\ Back(e, c).size = e.size /\ Back(e, c).nfree = e.nfree + 1
           /\ Back(e, c).nfree > 0
           /\ UsedIn(Back(e, c)) = UsedIn(e) \ {c}
<1>1. PICK u \in Nat : u = e.uindex
  BY HeaderFields
<1>2. PICK f : f = e.freechunk
  OBVIOUS
<1>3. PICK n : n = z_nmax[e.size]
  OBVIOUS
<1>4. n \in Nat /\ n >= 2 /\ u <= n - 1
  BY <1>1, <1>3, ZoneSizes DEF HeaderOK
<1>5. f \in Seq(0 .. u) /\ IsInjective(f) /\ Len(f) \in Nat
  BY <1>1, <1>2, LenProperties DEF HeaderOK
<1>6. e.nfree = n - 1 - u + Len(f)
  BY <1>1, <1>2, <1>3 DEF HeaderOK
<1>7. UsedIn(e) = {b \in 0 .. u : ~Contains(f, b)}
  BY <1>1, <1>2 DEF UsedIn
<1>8. c \in 0 .. u /\ ~Contains(f, c) /\ c \in Nat
  BY <1>7
<1>9. PICK h : h = <<c>> \o f
  OBVIOUS
<1>10. /\ h \in Seq(0 .. u) /\ Len(h) = Len(f) + 1
       /\ IsInjective(h)
       /\ \A x : Contains(h, x) <=> Contains(f, x) \/ x = c
  BY <1>5, <1>8, <1>9, FirstOfList
<1>11. h \in Seq(Nat)
  <2>1. \A i \in 1 .. Len(h) : h[i] \in Nat
    BY <1>10, ElementOfSeq
  <2> QED
    BY <1>10, <2>1, IsASeq, LenProperties
<1>12. PICK d : d = Back(e, c)
  OBVIOUS
<1>13. d = [[e EXCEPT !.freechunk = h] EXCEPT !.nfree = e.nfree + 1]
  BY <1>2, <1>9, <1>12 DEF Back
<1>14. d \in Header /\ d.size = e.size /\ d.nfree = e.nfree + 1 /\ d.uindex = u
       /\ d.freechunk = h
  <2>1. PICK n1 \in Int : n1 = e.nfree + 1
    BY HeaderFields
  <2>2. d = [[e EXCEPT !.freechunk = h] EXCEPT !.nfree = n1]
    BY <1>13, <2>1
  <2>3. d = HeaderBy(e, n1, u, h)
    BY <1>1, <2>2 DEF Header, HeaderBy
  <2>4. PICK b : b = HeaderBy(e, n1, u, h)
    OBVIOUS
  <2>5. b \in Header /\ b.size = e.size /\ b.nfree = n1 /\ b.uindex = u /\ b.freechunk = h
    BY <1>11, <2>4, HeaderIs DEF IsHeader
  <2> QED
    BY <2>1, <2>3, <2>4, <2>5
<1>15. d.nfree = n - 1 - u + Len(h) /\ d.nfree > 0
  BY <1>4, <1>5, <1>6, <1>10, <1>14
<1>16. u \in 0 .. n - 1
  BY <1>4
<1>17. HeaderOK(d)
  BY <1>3, <1>10, <1>14, <1>15, <1>16 DEF HeaderOK
<1>18. UsedIn(d) = UsedIn(e) \ {c}
  <2>1. UsedIn(d) = {b \in 0 .. u : ~Contains(h, b)}
    BY <1>14 DEF UsedIn
  <2> QED
    BY <1>7, <1>10, <2>1
<1> QED
  BY <1>12, <1>14, <1>15, <1>17, <1>18

\* All its chunks are free: none is out.
LEMMA HeaderFree ==
    ASSUME NEW e \in Header, HeaderOK(e), e.nfree = z_nmax[e.size]
    PROVE  UsedIn(e) = {}
<1>1. PICK u \in Nat : u = e.uindex
  BY HeaderFields
<1>2. PICK f : f = e.freechunk
  OBVIOUS
<1>3. z_nmax[e.size] \in Nat
  BY ZoneSizes DEF HeaderOK
<1>4. f \in Seq(0 .. u) /\ IsInjective(f) /\ Len(f) \in Nat /\ DOMAIN f = 1 .. Len(f)
  BY <1>1, <1>2, LenProperties DEF HeaderOK
<1>5. Len(f) = u + 1
  <2>1. PICK n \in Nat : n = z_nmax[e.size]
    BY <1>3
  <2>2. n = n - 1 - u + Len(f)
    BY <1>1, <1>2, <2>1 DEF HeaderOK
  <2>3. PICK l : l = Len(f)
    OBVIOUS
  <2>4. n = n - 1 - u + l /\ l \in Nat
    BY <1>4, <2>2, <2>3
  <2> QED
    BY <2>1, <2>3, <2>4
<1>6. f \in Injection(1 .. u + 1, 0 .. u)
  <2>1. f \in [1 .. u + 1 -> 0 .. u]
    BY <1>4, <1>5, ElementOfSeq
  <2> QED
    BY <1>4, <1>5, <2>1 DEF Injection, IsInjective
<1>7. IsFiniteSet(0 .. u) /\ Cardinality(0 .. u) = u + 1
  BY FS_Interval
<1>8. Cardinality(1 .. u + 1) = u + 1
  BY FS_Interval
<1>9. f \in Surjection(1 .. u + 1, 0 .. u)
  BY <1>6, <1>7, <1>8, FS_Injection
<1>10. \A c \in 0 .. u : \E i \in 1 .. u + 1 : f[i] = c
  BY <1>9 DEF Surjection
<1> QED
  BY <1>1, <1>2, <1>5, <1>10 DEF UsedIn, Contains

-----------------------------------------------------------------------------
(* What holds of the heap between two sections, with the runs H in hand.   *)

ZoneOK(h, z) ==
    /\ \A p \in PagesOf(z) : h.kup[p] = [type |-> "small", size |-> p - z]
    /\ HeaderOK(h.zone[z])

ListOK(h, s) ==
    /\ IsInjective(h.zone_array[s])
    /\ \A z : Contains(h.zone_array[s], z) =>
          /\ z \in Zones(h) /\ ~Contains(h.zone_free, z)
          /\ h.zone[z].size = s /\ h.zone[z].nfree > 0

FreeZonesOK(h) ==
    /\ IsInjective(h.zone_free)
    /\ \A z : Contains(h.zone_free, z) => z \in Zones(h)

ZonesOK(h) ==
    /\ \A z \in Zones(h) : ZoneOK(h, z)
    /\ \A s \in ChunkSize : ListOK(h, s)
    /\ FreeZonesOK(h)

PagesOK(h, H) ==
    /\ h \in HeapState /\ PageList(h.page_list)
    /\ H \subseteq Runs /\ Tiling(Tiles(h, H))

HeapOK(h, H) == PagesOK(h, H) /\ ZonesOK(h)

LEMMA ZoneRun ==
    ASSUME NEW z \in Nat \ {0}
    PROVE  PagesIn(Run(z, zone_page_cnt)) = PagesOf(z) /\ z \in PagesOf(z)
           /\ PagesOf(z) \subseteq Nat
<1>1. zone_page_cnt \in Nat \ {0}
  BY SlabAssumption
<1> QED
  BY <1>1 DEF PagesIn, PagesOf, Run, After

LEMMA ZonesAre ==
    ASSUME NEW h
    PROVE  /\ Zones(h) \subseteq Nat \ {0} /\ Zones(h) \subseteq PageNo
           /\ LargeBlocks(h) \subseteq Nat \ {0} /\ LargeBlocks(h) \subseteq PageNo
           /\ PageNo \subseteq Nat \ {0}
           /\ Zones(h) \cap LargeBlocks(h) = {}
<1>1. Pages \in Nat
  BY SlabAssumption
<1>2. PageNo \subseteq Nat \ {0}
  BY <1>1 DEF PageNo
<1>3. Zones(h) \subseteq PageNo /\ LargeBlocks(h) \subseteq PageNo
  BY DEF Zones, LargeBlocks
<1>4. Zones(h) \cap LargeBlocks(h) = {}
  BY DEF Zones, LargeBlocks
<1> QED
  BY <1>2, <1>3, <1>4

LEMMA ZonePages ==
    ASSUME NEW h, NEW H, Tiling(Tiles(h, H)), NEW z \in Zones(h)
    PROVE  PagesOf(z) \subseteq PageNo /\ z \in PagesOf(z)
<1>1. z \in Nat \ {0}
  BY ZonesAre
<1>2. PICK x : x = <<"zone", Run(z, zone_page_cnt)>>
  OBVIOUS
<1>3. x \in Tiles(h, H) /\ x[2] = Run(z, zone_page_cnt)
  BY <1>2 DEF Tiles
<1>4. \A p : p \in PagesIn(x[2]) => p \in PageNo
  BY <1>3 DEF Tiling
<1> QED
  BY <1>1, <1>3, <1>4, ZoneRun

LEMMA ZonesApart ==
    ASSUME NEW h, NEW H, Tiling(Tiles(h, H)), NEW z \in Zones(h), NEW y \in Zones(h), z # y
    PROVE  PagesOf(z) \cap PagesOf(y) = {}
<1>1. z \in Nat \ {0} /\ y \in Nat \ {0}
  BY ZonesAre
<1>2. PICK v : v = <<"zone", Run(z, zone_page_cnt)>>
  OBVIOUS
<1>3. PICK w : w = <<"zone", Run(y, zone_page_cnt)>>
  OBVIOUS
<1>4. v \in Tiles(h, H) /\ w \in Tiles(h, H)
  BY <1>2, <1>3 DEF Tiles
<1>5. v[2] = Run(z, zone_page_cnt) /\ w[2] = Run(y, zone_page_cnt) /\ v # w
  BY <1>2, <1>3, RunIs
<1>6. PagesIn(v[2]) \cap PagesIn(w[2]) = {}
  BY <1>4, <1>5 DEF Tiling
<1> QED
  BY <1>1, <1>5, <1>6, ZoneRun

\* The first page of a large block is in no zone.
LEMMA LargeApart ==
    ASSUME NEW h \in HeapState, NEW H, Tiling(Tiles(h, H)), NEW z \in Zones(h),
           NEW q \in LargeBlocks(h)
    PROVE  q \notin PagesOf(z)
<1>1. z \in Nat \ {0} /\ q \in Nat \ {0} /\ q \in PageNo
  BY ZonesAre
<1>2. PICK v : v = <<"zone", Run(z, zone_page_cnt)>>
  OBVIOUS
<1>3. PICK w : w = <<"large", Run(q, h.kup[q].size)>>
  OBVIOUS
<1>4. v \in Tiles(h, H) /\ w \in Tiles(h, H)
  BY <1>2, <1>3 DEF Tiles
<1>5. v[2] = Run(z, zone_page_cnt) /\ w[2] = Run(q, h.kup[q].size) /\ v # w
  BY <1>2, <1>3
<1>6. PagesIn(v[2]) \cap PagesIn(w[2]) = {}
  BY <1>4, <1>5 DEF Tiling
<1>7. h.kup[q].size \in Nat \ {0}
  BY <1>1 DEF HeapState, Usage, LargeBlocks
<1>8. q \in PagesIn(w[2])
  BY <1>1, <1>5, <1>7, RunIs, RunOf
<1> QED
  BY <1>1, <1>5, <1>6, <1>8, ZoneRun

\* The pages of a run in hand are in nothing else.
LEMMA HeldApart ==
    ASSUME NEW h \in HeapState, NEW H, Tiling(Tiles(h, H)), NEW r \in H,
           NEW p \in PagesIn(r)
    PROVE  /\ p \in PageNo
           /\ \A z \in Zones(h) : p \notin PagesOf(z)
           /\ p \notin Zones(h) /\ p \notin LargeBlocks(h)
<1>1. PICK u : u = <<"held", r>>
  OBVIOUS
<1>2. u \in Tiles(h, H) /\ u[2] = r
  BY <1>1 DEF Tiles
<1>3. p \in PageNo
  BY <1>2 DEF Tiling
<1>4. ASSUME NEW z \in Zones(h) PROVE p \notin PagesOf(z)
  <2>1. z \in Nat \ {0}
    BY ZonesAre
  <2>2. PICK v : v = <<"zone", Run(z, zone_page_cnt)>>
    OBVIOUS
  <2>3. v \in Tiles(h, H) /\ v[2] = Run(z, zone_page_cnt) /\ v # u
    BY <1>1, <2>2 DEF Tiles
  <2>4. PagesIn(u[2]) \cap PagesIn(v[2]) = {}
    BY <1>2, <2>3 DEF Tiling
  <2> QED
    BY <1>2, <2>1, <2>3, <2>4, ZoneRun
<1>5. p \notin Zones(h)
  BY <1>4, ZonesAre, ZoneRun
<1>6. ASSUME p \in LargeBlocks(h) PROVE FALSE
  <2>1. PICK w : w = <<"large", Run(p, h.kup[p].size)>>
    OBVIOUS
  <2>2. w \in Tiles(h, H) /\ w[2] = Run(p, h.kup[p].size) /\ w # u
    BY <1>1, <1>6, <2>1 DEF Tiles
  <2>3. PagesIn(u[2]) \cap PagesIn(w[2]) = {}
    BY <1>2, <2>2 DEF Tiling
  <2>4. h.kup[p].size \in Nat \ {0} /\ p \in Nat \ {0}
    BY <1>3, <1>6, ZonesAre DEF HeapState, Usage, LargeBlocks
  <2>5. p \in PagesIn(w[2])
    BY <2>2, <2>4, RunIs, RunOf
  <2> QED
    BY <1>2, <2>3, <2>5
<1> QED
  BY <1>3, <1>4, <1>5, <1>6

\* Chunk c of zone z has been given out and not come back.
Out(h, z, c) == z \in Zones(h) /\ ~Contains(h.zone_free, z) /\ c \in UsedIn(h.zone[z])

LEMMA SmallIs ==
    ASSUME NEW h, NEW a
    PROVE  a \in SmallBlocks(h) <=>
              \E z, c : Out(h, z, c) /\ a = ChunkAt(z, h.zone[z].size, c)
BY DEF SmallBlocks, Chunks, UsedIn, Out

LEMMA ChunkKnown ==
    ASSUME NEW h \in HeapState, NEW H, Tiling(Tiles(h, H)), NEW z \in Zones(h), ZoneOK(h, z),
           NEW c \in 0 .. z_nmax[h.zone[z].size] - 1,
           NEW a, a = ChunkAt(z, h.zone[z].size, c)
    PROVE  /\ a \in Nat \ {0} /\ a % PAGE # 0 /\ a \div PAGE \in PageNo
           /\ h.kup[a \div PAGE].type = "small"
           /\ ZoneOf(h, a) = z /\ ChunkOf(a) = c
<1>1. z \in Nat
  BY ZonesAre
<1>2. PICK s \in ChunkSize : s = h.zone[z].size
  BY DEF ZoneOK, HeaderOK
<1>3. a \in Nat \ {0} /\ a \div PAGE \in PagesOf(z) /\ ChunkOf(a) = c /\ a % PAGE # 0
  BY <1>1, <1>2, ChunkPlace
<1>4. PICK p : p = a \div PAGE
  OBVIOUS
<1>5. p \in PagesOf(z) /\ p \in PageNo /\ p \in Nat
  BY <1>3, <1>4, ZonePages, ZonesAre
<1>6. h.kup[p] = [type |-> "small", size |-> p - z]
  BY <1>5 DEF ZoneOK
<1>7. h.kup[p].type = "small" /\ p - h.kup[p].size = z
  BY <1>1, <1>5, <1>6
<1> QED
  BY <1>3, <1>4, <1>5, <1>7 DEF ZoneOf

LEMMA UsedRange ==
    ASSUME NEW e, HeaderOK(e), NEW c \in UsedIn(e)
    PROVE  c \in 0 .. z_nmax[e.size] - 1 /\ e.size \in ChunkSize
<1>1. PICK n \in Nat : n = z_nmax[e.size]
  BY ZoneSizes DEF HeaderOK
<1>2. PICK u : u = e.uindex
  OBVIOUS
<1>3. u \in 0 .. n - 1 /\ c \in 0 .. u
  BY <1>1, <1>2 DEF HeaderOK, UsedIn
<1> QED
  BY <1>1, <1>3 DEF HeaderOK

\* A block that is out is in one place.
LEMMA OneChunk ==
    ASSUME NEW h, NEW H, HeapOK(h, H), NEW z, NEW c, Out(h, z, c),
           NEW a, a = ChunkAt(z, h.zone[z].size, c)
    PROVE  /\ a \in Nat \ {0} /\ a % PAGE # 0 /\ a \div PAGE \in PageNo
           /\ h.kup[a \div PAGE].type = "small"
           /\ ZoneOf(h, a) = z /\ ChunkOf(a) = c
<1>1. h \in HeapState /\ Tiling(Tiles(h, H)) /\ z \in Zones(h) /\ ZoneOK(h, z)
  BY DEF HeapOK, PagesOK, ZonesOK, Out
<1>2. c \in 0 .. z_nmax[h.zone[z].size] - 1
  BY <1>1, UsedRange DEF Out, ZoneOK
<1> QED
  BY <1>1, <1>2, ChunkKnown

-----------------------------------------------------------------------------
(* The sections of slab.c, one after the other.                            *)

HeapBy(h, K, Z, A, F) ==
    [page_list |-> h.page_list, kup |-> K, zone |-> Z, zone_array |-> A, zone_free |-> F]

IsHeap(g, h, K, Z, A, F) ==
    /\ g \in HeapState
    /\ g.page_list = h.page_list /\ g.kup = K /\ g.zone = Z
    /\ g.zone_array = A /\ g.zone_free = F

LEMMA HeapIs ==
    ASSUME NEW h \in HeapState, NEW K, NEW Z, NEW A, NEW F, K \in [PageNo -> Usage],
           Z \in [PageNo -> Header], A \in [ChunkSize -> Seq(Nat)], F \in Seq(Nat)
    PROVE  IsHeap(HeapBy(h, K, Z, A, F), h, K, Z, A, F)
<1>1. h.page_list \in Seq(Runs)
  BY HeapFields
<1> QED
  BY <1>1 DEF HeapState, HeapBy, IsHeap

LEMMA SamePages ==
    ASSUME NEW h, NEW H, PagesOK(h, H), NEW g \in HeapState,
           g.page_list = h.page_list, g.kup = h.kup
    PROVE  PagesOK(g, H) /\ Zones(g) = Zones(h) /\ LargeBlocks(g) = LargeBlocks(h)
<1>1. Zones(g) = Zones(h) /\ LargeBlocks(g) = LargeBlocks(h)
  BY DEF Zones, LargeBlocks
<1>2. Tiles(g, H) = Tiles(h, H)
  BY <1>1 DEF Tiles
<1> QED
  BY <1>1, <1>2 DEF PagesOK

LEMMA HeadOfZones ==
    ASSUME NEW h, NEW H, HeapOK(h, H), NEW s \in ChunkSize, h.zone_array[s] # <<>>,
           NEW z, z = Head(h.zone_array[s])
    PROVE  /\ z \in Zones(h) /\ z \in PageNo /\ z \in Nat \ {0} /\ ~Contains(h.zone_free, z)
           /\ h.zone[z].size = s /\ h.zone[z].nfree > 0
           /\ h.zone[z] \in Header /\ HeaderOK(h.zone[z])
           /\ h.zone_array[s] \in Seq(Nat) /\ IsInjective(h.zone_array[s])
<1>1. h \in HeapState
  BY DEF HeapOK, PagesOK
<1>2. h.zone_array[s] \in Seq(Nat) /\ IsInjective(h.zone_array[s])
  BY <1>1, HeapFields DEF HeapOK, ZonesOK, ListOK
<1>3. Contains(h.zone_array[s], z)
  BY <1>2, EmptyList
<1>4. z \in Zones(h) /\ ~Contains(h.zone_free, z) /\ h.zone[z].size = s /\ h.zone[z].nfree > 0
  BY <1>3 DEF HeapOK, ZonesOK, ListOK
<1>5. HeaderOK(h.zone[z])
  BY <1>4 DEF HeapOK, ZonesOK, ZoneOK
<1>6. z \in PageNo /\ z \in Nat \ {0}
  BY <1>4, ZonesAre
<1> QED
  BY <1>1, <1>2, <1>4, <1>5, <1>6, HeapFields

\* Zone z gets header e, the lists of zones stay in order.
LEMMA OneZone ==
    ASSUME NEW h, NEW H, HeapOK(h, H), NEW z \in Zones(h), NEW e, HeaderOK(e),
           NEW g \in HeapState, g.page_list = h.page_list, g.kup = h.kup,
           g.zone = [h.zone EXCEPT ![z] = e],
           \A s \in ChunkSize : ListOK(g, s), FreeZonesOK(g)
    PROVE  /\ HeapOK(g, H) /\ Zones(g) = Zones(h) /\ LargeBlocks(g) = LargeBlocks(h)
           /\ g.zone[z] = e /\ \A y \in Zones(h) : y # z => g.zone[y] = h.zone[y]
<1>1. PagesOK(g, H) /\ Zones(g) = Zones(h) /\ LargeBlocks(g) = LargeBlocks(h)
  BY SamePages DEF HeapOK
<1>2. h.zone \in [PageNo -> Header] /\ Zones(h) \subseteq PageNo
  BY HeapFields, ZonesAre DEF HeapOK, PagesOK
<1>3. g.zone[z] = e /\ \A y \in Zones(h) : y # z => g.zone[y] = h.zone[y]
  BY <1>2
<1>4. ASSUME NEW y \in Zones(g) PROVE ZoneOK(g, y)
  <2>1. y \in Zones(h) /\ ZoneOK(h, y)
    BY <1>1, <1>4 DEF HeapOK, ZonesOK
  <2>2. CASE y = z
    BY <1>3, <2>1, <2>2 DEF ZoneOK
  <2>3. CASE y # z
    BY <1>3, <2>1, <2>3 DEF ZoneOK
  <2> QED
    BY <2>2, <2>3
<1> QED
  BY <1>1, <1>3, <1>4 DEF HeapOK, ZonesOK

(***************************************************************************)
(* rt_malloc of a chunk, from the first zone with a free one, keeps the    *)
(* heap whole, and the block it returns was not out: the free chunks of a  *)
(* zone, those never used and those on its list, are where no block is.    *)
(***************************************************************************)
THEOREM ChunkTakenOK ==
    ASSUME NEW h, NEW H, HeapOK(h, H), NEW s \in ChunkSize, h.zone_array[s] # <<>>,
           NEW g, g = ChunkTaken(h, s), NEW a, a = ChunkFound(h, s)
    PROVE  /\ HeapOK(g, H) /\ LargeBlocks(g) = LargeBlocks(h)
           /\ a \notin SmallBlocks(h) /\ SmallBlocks(g) = SmallBlocks(h) \cup {a}
           /\ Zones(g) = Zones(h)
           /\ \E z \in Zones(h) : \E c \in 0 .. z_nmax[s] - 1 : a = ChunkAt(z, s, c)
<1>1. PICK z : z = Head(h.zone_array[s])
  OBVIOUS
<1>2. PICK e : e = h.zone[z]
  OBVIOUS
<1>3. /\ z \in Zones(h) /\ z \in PageNo /\ z \in Nat \ {0} /\ ~Contains(h.zone_free, z)
      /\ e.size = s /\ e.nfree > 0 /\ e \in Header /\ HeaderOK(e)
  BY <1>1, <1>2, HeadOfZones
<1>4. PICK l \in Seq(Nat) : l = h.zone_array[s] /\ IsInjective(l) /\ l # <<>> /\ z = Head(l)
  BY <1>1, HeadOfZones
<1>5. PICK d : d = Given(e)
  OBVIOUS
<1>6. PICK c : c = GivesChunk(e)
  OBVIOUS
<1>7. /\ d \in Header /\ HeaderOK(d) /\ d.size = s /\ d.nfree = e.nfree - 1
      /\ c \in 0 .. z_nmax[s] - 1 /\ c \notin UsedIn(e)
      /\ UsedIn(d) = UsedIn(e) \cup {c}
  BY <1>3, <1>5, <1>6, HeaderGives
<1>8. PICK m : m = IF e.nfree = 1 THEN Tail(l) ELSE l
  OBVIOUS
<1>9. /\ m \in Seq(Nat) /\ IsInjective(m)
      /\ \A x : Contains(m, x) => Contains(l, x)
      /\ e.nfree = 1 => ~Contains(m, z)
  BY <1>4, <1>8, TailOfList
<1>10. h \in HeapState
  BY DEF HeapOK, PagesOK
<1>11. PICK Z : Z = [h.zone EXCEPT ![z] = d]
  OBVIOUS
<1>12. PICK A : A = [h.zone_array EXCEPT ![s] = m]
  OBVIOUS
<1>13. Z \in [PageNo -> Header] /\ A \in [ChunkSize -> Seq(Nat)]
  BY <1>3, <1>7, <1>9, <1>10, <1>11, <1>12, HeapFields
<1>14. g = [[h EXCEPT !.zone = Z] EXCEPT !.zone_array = A]
  <2>1. (IF e.uindex + 1 # z_nmax[s]
         THEN [[e EXCEPT !.nfree = @ - 1] EXCEPT !.uindex = @ + 1]
         ELSE [[e EXCEPT !.nfree = @ - 1] EXCEPT !.freechunk = Tail(@)]) = d
    BY <1>3, <1>5 DEF Given, Header
  <2>2. g = [h EXCEPT !.zone[z] = d, !.zone_array[s] = IF e.nfree = 1 THEN Tail(@) ELSE @]
    BY <1>1, <1>2, <2>1, Zenon DEF ChunkTaken
  <2> QED
    BY <1>4, <1>8, <1>10, <1>11, <1>12, <2>2 DEF HeapState
<1>15. g = HeapBy(h, h.kup, Z, A, h.zone_free)
  BY <1>10, <1>14 DEF HeapState, HeapBy
<1>16. /\ g \in HeapState /\ g.page_list = h.page_list /\ g.kup = h.kup /\ g.zone = Z
       /\ g.zone_array = A /\ g.zone_free = h.zone_free
  <2>1. h.kup \in [PageNo -> Usage] /\ h.zone_free \in Seq(Nat)
    BY <1>10, HeapFields
  <2>2. IsHeap(g, h, h.kup, Z, A, h.zone_free)
    BY <1>10, <1>13, <1>15, <2>1, HeapIs
  <2> QED
    BY <2>2 DEF IsHeap
<1>17. Zones(g) = Zones(h)
  BY <1>16, SamePages DEF HeapOK
<1>18. ASSUME NEW y \in Zones(h) PROVE g.zone[y] = IF y = z THEN d ELSE h.zone[y]
  BY <1>3, <1>10, <1>11, <1>16, ZonesAre, HeapFields
<1>19. ASSUME NEW r \in ChunkSize PROVE ListOK(g, r)
  <2>1. h.zone_array \in [ChunkSize -> Seq(Nat)] /\ ListOK(h, r)
    BY <1>10, HeapFields DEF HeapOK, ZonesOK
  <2>2. CASE r = s
    <3>1. g.zone_array[r] = m
      BY <1>12, <1>16, <2>1, <2>2
    <3>2. ASSUME NEW x, Contains(m, x)
          PROVE  /\ x \in Zones(g) /\ ~Contains(g.zone_free, x)
                 /\ g.zone[x].size = s /\ g.zone[x].nfree > 0
      <4>1. Contains(h.zone_array[s], x)
        BY <1>4, <1>9, <3>2
      <4>2. x \in Zones(h) /\ ~Contains(h.zone_free, x) /\ h.zone[x].size = s
            /\ h.zone[x].nfree > 0
        BY <2>1, <2>2, <4>1 DEF ListOK
      <4>3. CASE x # z
        BY <1>16, <1>17, <1>18, <4>2, <4>3
      <4>4. CASE x = z
        <5>1. e.nfree # 1 /\ e.nfree \in Int
          BY <1>3, <1>9, <3>2, <4>4, HeaderFields
        <5>2. d.nfree > 0
          BY <1>3, <1>7, <5>1
        <5> QED
          BY <1>7, <1>16, <1>17, <1>18, <4>2, <4>4, <5>2
      <4> QED
        BY <4>3, <4>4
    <3> QED
      BY <1>9, <2>2, <3>1, <3>2 DEF ListOK
  <2>3. CASE r # s
    <3>1. g.zone_array[r] = h.zone_array[r]
      BY <1>12, <1>16, <2>1, <2>3
    <3>2. ASSUME NEW x, Contains(h.zone_array[r], x)
          PROVE  /\ x \in Zones(g) /\ ~Contains(g.zone_free, x)
                 /\ g.zone[x].size = r /\ g.zone[x].nfree > 0
      <4>1. x \in Zones(h) /\ ~Contains(h.zone_free, x) /\ h.zone[x].size = r
            /\ h.zone[x].nfree > 0
        BY <2>1, <3>2 DEF ListOK
      <4>2. x # z
        BY <1>2, <1>3, <2>3, <4>1
      <4> QED
        BY <1>16, <1>17, <1>18, <4>1, <4>2
    <3> QED
      BY <2>1, <3>1, <3>2 DEF ListOK
  <2> QED
    BY <2>2, <2>3
<1>20. FreeZonesOK(g)
  BY <1>16, <1>17 DEF HeapOK, ZonesOK, FreeZonesOK
<1>21. HeapOK(g, H) /\ LargeBlocks(g) = LargeBlocks(h)
  BY <1>3, <1>7, <1>11, <1>16, <1>19, <1>20, OneZone
<1>22. a = ChunkAt(z, s, c)
  <2>1. c = IF e.uindex + 1 # z_nmax[s] THEN e.uindex + 1 ELSE Head(e.freechunk)
    BY <1>3, <1>6 DEF GivesChunk
  <2> QED
    BY <1>1, <1>2, <2>1, Zenon DEF ChunkFound
<1>23. ASSUME NEW y, NEW b
       PROVE  Out(g, y, b) <=> Out(h, y, b) \/ (y = z /\ b = c)
  <2>1. CASE y = z
    BY <1>2, <1>3, <1>7, <1>16, <1>17, <1>18, <2>1 DEF Out
  <2>2. CASE y # z
    BY <1>16, <1>17, <1>18, <2>2 DEF Out
  <2> QED
    BY <2>1, <2>2
<1>24. ~Out(h, z, c)
  BY <1>2, <1>7 DEF Out
<1>25. \A y \in Zones(h) : g.zone[y].size = h.zone[y].size
  BY <1>2, <1>3, <1>7, <1>18
<1>26. a \notin SmallBlocks(h)
  <2> SUFFICES ASSUME a \in SmallBlocks(h) PROVE FALSE
    OBVIOUS
  <2>1. PICK y, b : Out(h, y, b) /\ a = ChunkAt(y, h.zone[y].size, b)
    BY SmallIs
  <2>2. ZoneOf(h, a) = y /\ ChunkOf(a) = b
    BY <2>1, OneChunk
  <2>3. ZoneOf(h, a) = z /\ ChunkOf(a) = c
    <3>1. h \in HeapState /\ Tiling(Tiles(h, H)) /\ ZoneOK(h, z)
      BY <1>3 DEF HeapOK, PagesOK, ZonesOK
    <3>2. c \in 0 .. z_nmax[h.zone[z].size] - 1 /\ a = ChunkAt(z, h.zone[z].size, c)
      BY <1>2, <1>3, <1>7, <1>22
    <3> QED
      BY <1>3, <3>1, <3>2, ChunkKnown
  <2> QED
    BY <1>24, <2>1, <2>2, <2>3
<1>27. ASSUME NEW x PROVE x \in SmallBlocks(g) <=> x \in SmallBlocks(h) \/ x = a
  <2>1. x \in SmallBlocks(g) <=> \E y, b : Out(g, y, b) /\ x = ChunkAt(y, g.zone[y].size, b)
    BY SmallIs
  <2>2. x \in SmallBlocks(h) <=> \E y, b : Out(h, y, b) /\ x = ChunkAt(y, h.zone[y].size, b)
    BY SmallIs
  <2>3. ASSUME NEW y, NEW b, Out(g, y, b) PROVE y \in Zones(h)
    BY <1>17, <2>3 DEF Out
  <2>4. ASSUME NEW y, NEW b, Out(h, y, b) PROVE y \in Zones(h)
    BY <2>4 DEF Out
  <2>5. g.zone[z].size = s
    BY <1>2, <1>3, <1>25
  <2> QED
    BY <1>22, <1>23, <1>25, <2>1, <2>2, <2>3, <2>4, <2>5
<1> QED
  BY <1>3, <1>7, <1>17, <1>21, <1>22, <1>26, <1>27

-----------------------------------------------------------------------------
(* Zones are made and unmade.                                              *)

LEMMA OneTile ==
    ASSUME NEW T, Tiling(T), NEW x \in T, NEW y, y[2] = x[2]
    PROVE  Tiling((T \ {x}) \cup {y})
<1> DEFINE U == (T \ {x}) \cup {y}
<1>1. ASSUME NEW p PROVE p \in PageNo <=> \E v \in U : p \in PagesIn(v[2])
  <2>1. p \in PageNo <=> \E v \in T : p \in PagesIn(v[2])
    BY DEF Tiling
  <2>2. ASSUME NEW v \in T, p \in PagesIn(v[2]) PROVE \E w \in U : p \in PagesIn(w[2])
    <3>1. CASE v = x
      BY <2>2, <3>1
    <3>2. CASE v # x
      BY <2>2, <3>2
    <3> QED
      BY <3>1, <3>2
  <2>3. ASSUME NEW w \in U, p \in PagesIn(w[2]) PROVE \E v \in T : p \in PagesIn(v[2])
    <3>1. CASE w = y
      BY <2>3, <3>1
    <3>2. CASE w # y
      BY <2>3, <3>2
    <3> QED
      BY <3>1, <3>2
  <2> QED
    BY <2>1, <2>2, <2>3
<1>2. \A v, w \in U : v # w => PagesIn(v[2]) \cap PagesIn(w[2]) = {}
  <2> TAKE v \in U, w \in U
  <2> HAVE v # w
  <2>1. CASE v # y /\ w # y
    BY <2>1 DEF Tiling
  <2>2. CASE v = y
    BY <2>2 DEF Tiling
  <2>3. CASE w = y
    BY <2>3 DEF Tiling
  <2> QED
    BY <2>1, <2>2, <2>3
<1> QED
  BY <1>1, <1>2 DEF Tiling

\* A run that was in hand is zone z.
LEMMA TileToZone ==
    ASSUME NEW h, NEW H, Tiling(Tiles(h, H)), NEW z, NEW r, r = Run(z, zone_page_cnt), r \in H,
           NEW g, g.page_list = h.page_list, Zones(g) = Zones(h) \cup {z},
           LargeBlocks(g) = LargeBlocks(h), \A p \in LargeBlocks(h) : g.kup[p] = h.kup[p]
    PROVE  Tiling(Tiles(g, H \ {r}))
<1>1. PICK u : u = <<"held", r>>
  OBVIOUS
<1>2. PICK v : v = <<"zone", r>>
  OBVIOUS
<1>3. u \in Tiles(h, H) /\ v[2] = u[2] /\ u \notin OtherTiles(h)
  BY <1>1, <1>2, TilesAre DEF Tiles
<1>4. OtherTiles(g) = OtherTiles(h) \cup {v}
  BY <1>2 DEF OtherTiles
<1> DEFINE A == {<<"free", x>> : x \in Range(h.page_list)}
           B == {<<"held", x>> : x \in H}
           C == {<<"held", x>> : x \in H \ {r}}
<1>5. C = B \ {u} /\ u \notin A
  BY <1>1
<1>6. Tiles(h, H) = A \cup OtherTiles(h) \cup B /\ Tiles(g, H \ {r}) = A \cup OtherTiles(g) \cup C
  BY DEF Tiles, OtherTiles
<1> HIDE DEF A, B, C
<1>7. Tiles(g, H \ {r}) = (Tiles(h, H) \ {u}) \cup {v}
  BY <1>3, <1>4, <1>5, <1>6
<1>8. PICK T : T = Tiles(h, H)
  OBVIOUS
<1>9. Tiling(T) /\ u \in T /\ v[2] = u[2]
  BY <1>3, <1>8
<1>10. Tiling((T \ {u}) \cup {v})
  BY <1>9, OneTile
<1> QED
  BY <1>7, <1>8, <1>10

ZoneGone(g, h, z) ==
    /\ g.page_list = h.page_list /\ Zones(g) = Zones(h) \ {z}
    /\ LargeBlocks(g) = LargeBlocks(h) /\ \A p \in LargeBlocks(h) : g.kup[p] = h.kup[p]

\* Zone z is a run in hand.
LEMMA TileFromZone ==
    ASSUME NEW h, NEW H, Tiling(Tiles(h, H)), NEW z \in Zones(h),
           NEW r, r = Run(z, zone_page_cnt),
           NEW g, ZoneGone(g, h, z)
    PROVE  Tiling(Tiles(g, H \cup {r})) /\ r \notin H
<1>1. PICK u : u = <<"held", r>>
  OBVIOUS
<1>2. PICK v : v = <<"zone", r>>
  OBVIOUS
<1>3. v \in Tiles(h, H) /\ v[2] = r /\ u[2] = r /\ u # v
  BY <1>1, <1>2 DEF Tiles
<1>4. r \notin H
  <2> SUFFICES ASSUME r \in H PROVE FALSE
    OBVIOUS
  <2>1. u \in Tiles(h, H)
    BY <1>1 DEF Tiles
  <2>2. PagesIn(u[2]) \cap PagesIn(v[2]) = {}
    BY <1>3, <2>1 DEF Tiling
  <2>3. z \in Nat \ {0}
    BY ZonesAre
  <2> QED
    BY <1>3, <2>2, <2>3, ZoneRun
<1>5. OtherTiles(g) = OtherTiles(h) \ {v}
  <2>1. \A p \in LargeBlocks(h) : v # <<"large", Run(p, h.kup[p].size)>>
    BY <1>2
  <2>2. \A y \in Zones(h) : v = <<"zone", Run(y, zone_page_cnt)>> <=> y = z
    BY <1>2, RunIs
  <2> DEFINE A == {<<"zone", Run(y, zone_page_cnt)>> : y \in Zones(h)}
             B == {<<"large", Run(p, h.kup[p].size)>> : p \in LargeBlocks(h)}
             C == {<<"zone", Run(y, zone_page_cnt)>> : y \in Zones(h) \ {z}}
  <2>3. v \notin B
    BY <2>1
  <2>4. C = A \ {v}
    BY <2>2
  <2>5. OtherTiles(h) = A \cup B /\ OtherTiles(g) = C \cup B
    BY DEF OtherTiles, ZoneGone
  <2> HIDE DEF A, B, C
  <2> QED
    BY <2>3, <2>4, <2>5
<1> DEFINE A == {<<"free", x>> : x \in Range(h.page_list)}
           B == {<<"held", x>> : x \in H}
           C == {<<"held", x>> : x \in H \cup {r}}
<1>6. C = B \cup {u} /\ v \notin A /\ v \notin B
  BY <1>1, <1>2
<1>7. Tiles(h, H) = A \cup OtherTiles(h) \cup B /\ Tiles(g, H \cup {r}) = A \cup OtherTiles(g) \cup C
  BY DEF Tiles, OtherTiles, ZoneGone
<1> HIDE DEF A, B, C
<1>8. Tiles(g, H \cup {r}) = (Tiles(h, H) \ {v}) \cup {u}
  BY <1>5, <1>6, <1>7
<1>9. PICK T : T = Tiles(h, H)
  OBVIOUS
<1>10. Tiling(T) /\ v \in T /\ u[2] = v[2]
  BY <1>3, <1>9
<1>11. Tiling((T \ {v}) \cup {u})
  BY <1>10, OneTile
<1> QED
  BY <1>4, <1>8, <1>9, <1>11

SmallPage(p, z) == [type |-> "small", size |-> p - z]

UsageOf(h, z) == [p \in PageNo |-> IF p \in PagesOf(z) THEN SmallPage(p, z) ELSE h.kup[p]]

LEMMA UsageIs ==
    ASSUME NEW h \in HeapState, NEW z \in Nat \ {0}, PagesOf(z) \subseteq PageNo
    PROVE  /\ UsageOf(h, z) \in [PageNo -> Usage]
           /\ \A p \in PagesOf(z) : UsageOf(h, z)[p] = SmallPage(p, z)
           /\ \A p \in PageNo \ PagesOf(z) : UsageOf(h, z)[p] = h.kup[p]
<1>1. ASSUME NEW p \in PagesOf(z) PROVE SmallPage(p, z) \in Usage
  BY SlabAssumption DEF PagesOf, SmallPage, Usage
<1>2. h.kup \in [PageNo -> Usage]
  BY HeapFields
<1> QED
  BY <1>1, <1>2 DEF UsageOf

LEMMA SmallPageIs ==
    ASSUME NEW p \in Nat, NEW z \in Nat
    PROVE  /\ SmallPage(p, z).type = "small" /\ SmallPage(p, z).size = p - z
           /\ SmallPage(p, z) = [type |-> "small", size |-> 0] <=> p = z
BY DEF SmallPage

UsageMade(g, h, G, z) ==
    /\ Zones(g) = Zones(h) \cup {z} /\ LargeBlocks(g) = LargeBlocks(h)
    /\ z \notin Zones(h) /\ PagesOK(g, G)
    /\ \A p \in PagesOf(z) : g.kup[p] = [type |-> "small", size |-> p - z]
    /\ \A y \in Zones(h) : PagesOf(y) \cap PagesOf(z) = {}
          /\ \A p \in PagesOf(y) : g.kup[p] = h.kup[p]

LEMMA UsageSet ==
    ASSUME NEW h, NEW H, HeapOK(h, H), NEW z \in Nat \ {0},
           NEW r, r = Run(z, zone_page_cnt), r \in H,
           NEW g \in HeapState, g.page_list = h.page_list, g.kup = UsageOf(h, z)
    PROVE  UsageMade(g, h, H \ {r}, z)
<1>1. h \in HeapState /\ Tiling(Tiles(h, H)) /\ H \subseteq Runs /\ PageList(h.page_list)
  BY DEF HeapOK, PagesOK
<1>2. PagesIn(r) = PagesOf(z) /\ z \in PagesOf(z)
  BY ZoneRun
<1>3. ASSUME NEW p \in PagesOf(z)
      PROVE  /\ p \in PageNo /\ p \notin Zones(h) /\ p \notin LargeBlocks(h)
             /\ \A y \in Zones(h) : p \notin PagesOf(y)
  BY <1>1, <1>2, HeldApart
<1>4. /\ \A p \in PagesOf(z) : g.kup[p] = SmallPage(p, z)
      /\ \A p \in PageNo \ PagesOf(z) : g.kup[p] = h.kup[p]
  BY <1>1, <1>3, UsageIs
<1>5. PageNo \subseteq Nat
  BY ZonesAre
<1>6. ASSUME NEW p \in PageNo
      PROVE  /\ p \in Zones(g) <=> p \in Zones(h) \/ p = z
             /\ p \in LargeBlocks(g) <=> p \in LargeBlocks(h)
  <2>1. CASE p \in PagesOf(z)
    <3>1. g.kup[p].type = "small" /\ (g.kup[p] = [type |-> "small", size |-> 0] <=> p = z)
      BY <1>4, <1>5, <2>1, SmallPageIs
    <3> QED
      BY <1>3, <2>1, <3>1 DEF Zones, LargeBlocks
  <2>2. CASE p \notin PagesOf(z)
    <3>1. g.kup[p] = h.kup[p] /\ p # z
      BY <1>2, <1>4, <2>2
    <3> QED
      BY <3>1 DEF Zones, LargeBlocks
  <2> QED
    BY <2>1, <2>2
<1>7. Zones(g) = Zones(h) \cup {z} /\ LargeBlocks(g) = LargeBlocks(h)
  <2>1. Zones(g) \subseteq PageNo /\ Zones(h) \subseteq PageNo /\ z \in PageNo
        /\ LargeBlocks(g) \subseteq PageNo /\ LargeBlocks(h) \subseteq PageNo
    BY <1>2, <1>3, ZonesAre
  <2> QED
    BY <1>6, <2>1
<1>8. \A p \in LargeBlocks(h) : g.kup[p] = h.kup[p]
  BY <1>3, <1>4, ZonesAre
<1>9. PagesOK(g, H \ {r})
  <2>1. Tiling(Tiles(g, H \ {r}))
    BY <1>1, <1>7, <1>8, TileToZone
  <2> QED
    BY <1>1, <2>1 DEF PagesOK
<1>10. ASSUME NEW y \in Zones(h)
       PROVE  PagesOf(y) \cap PagesOf(z) = {} /\ \A p \in PagesOf(y) : g.kup[p] = h.kup[p]
  BY <1>1, <1>3, <1>4, ZonePages
<1>11. \A p \in PagesOf(z) : g.kup[p] = [type |-> "small", size |-> p - z]
  BY <1>4 DEF SmallPage
<1> QED
  BY <1>2, <1>3, <1>7, <1>9, <1>10, <1>11 DEF UsageMade

\* The first chunk of a zone that has none out.
LEMMA FirstChunk ==
    ASSUME NEW h, NEW H, HeapOK(h, H), NEW z \in Nat \ {0}, NEW s \in ChunkSize,
           NEW a, a = ChunkAt(z, s, 0),
           \A y \in Zones(h) : y = z \/ PagesOf(y) \cap PagesOf(z) = {},
           z \notin Zones(h) \/ Contains(h.zone_free, z)
    PROVE  a \notin SmallBlocks(h) /\ 0 \in 0 .. z_nmax[s] - 1
<1>1. 0 \in 0 .. z_nmax[s] - 1
  <2>1. PICK n \in Nat : n = z_nmax[s] /\ n >= 2
    BY ZoneSizes
  <2> QED
    BY <2>1
<1>2. a \div PAGE \in PagesOf(z)
  BY <1>1, ChunkPlace
<1>3. ASSUME a \in SmallBlocks(h) PROVE FALSE
  <2>1. PICK y, c : Out(h, y, c) /\ a = ChunkAt(y, h.zone[y].size, c)
    BY <1>3, SmallIs
  <2>2. y \in Zones(h) /\ y # z /\ y \in Nat
    BY <2>1, ZonesAre DEF Out
  <2>3. c \in 0 .. z_nmax[h.zone[y].size] - 1 /\ h.zone[y].size \in ChunkSize
    BY <2>1, <2>2, UsedRange DEF Out, HeapOK, ZonesOK, ZoneOK
  <2>4. a \div PAGE \in PagesOf(y)
    BY <2>1, <2>2, <2>3, ChunkPlace
  <2>5. PagesOf(y) \cap PagesOf(z) = {}
    BY <2>2
  <2> QED
    BY <1>2, <2>4, <2>5
<1> QED
  BY <1>1, <1>3

\* In b the pages of zone z are set, and it is in no list of zones.
ZoneSet(b, h, z) ==
    /\ b \in HeapState /\ b.zone = h.zone /\ b.zone_array = h.zone_array
    /\ Zones(b) = Zones(h) \cup {z}
    /\ \A p \in PagesOf(z) : b.kup[p] = [type |-> "small", size |-> p - z]
    /\ \A y \in Zones(h) : \A p \in PagesOf(y) : b.kup[p] = h.kup[p]
    /\ \A y \in Zones(h) : y = z \/ PagesOf(y) \cap PagesOf(z) = {}
    /\ z \notin Zones(h) \/ Contains(h.zone_free, z)
    /\ \A s \in ChunkSize : ~Contains(h.zone_array[s], z)
    /\ IsInjective(b.zone_free)
    /\ \A y : Contains(b.zone_free, y) <=> Contains(h.zone_free, y) /\ y # z

LEMMA ZoneMadeOK ==
    ASSUME NEW h, NEW H, HeapOK(h, H), NEW z \in Nat \ {0}, NEW b, NEW G,
           PagesOK(b, G), ZoneSet(b, h, z), NEW s \in ChunkSize,
           NEW g, g = ZoneMade(b, z, s), NEW a, a = ChunkAt(z, s, 0)
    PROVE  /\ HeapOK(g, G) /\ LargeBlocks(g) = LargeBlocks(b) /\ Zones(g) = Zones(b)
           /\ a \notin SmallBlocks(h) /\ SmallBlocks(g) = SmallBlocks(h) \cup {a}
           /\ 0 \in 0 .. z_nmax[s] - 1
<1>1. a \notin SmallBlocks(h) /\ 0 \in 0 .. z_nmax[s] - 1
  BY FirstChunk DEF ZoneSet
<1>2. h \in HeapState /\ b \in HeapState
  BY DEF HeapOK, PagesOK, ZoneSet
<1>3. PICK d : d = NewHeader(s)
  OBVIOUS
<1>4. d \in Header /\ HeaderOK(d) /\ UsedIn(d) = {0} /\ d.size = s /\ d.nfree > 0
  BY <1>3, HeaderNew
<1>5. PICK l \in Seq(Nat) : l = b.zone_array[s]
  BY <1>2, HeapFields
<1>6. l = h.zone_array[s] /\ IsInjective(l) /\ ~Contains(l, z)
  BY <1>5 DEF ZoneSet, HeapOK, ZonesOK, ListOK
<1>7. PICK m : m = <<z>> \o l
  OBVIOUS
<1>8. /\ m \in Seq(Nat) /\ IsInjective(m)
      /\ \A x : Contains(m, x) <=> Contains(l, x) \/ x = z
  BY <1>6, <1>7, FirstOfList
<1>9. PICK Z : Z = [b.zone EXCEPT ![z] = d]
  OBVIOUS
<1>10. PICK A : A = [b.zone_array EXCEPT ![s] = m]
  OBVIOUS
<1>11. z \in PageNo
  BY ZonesAre DEF ZoneSet
<1>12. Z \in [PageNo -> Header] /\ A \in [ChunkSize -> Seq(Nat)]
  BY <1>2, <1>4, <1>8, <1>9, <1>10, <1>11, HeapFields
<1>13. g = [[b EXCEPT !.zone = Z] EXCEPT !.zone_array = A]
  <2>1. g = [b EXCEPT !.zone[z] = d, !.zone_array[s] = <<z>> \o @]
    BY <1>3, Zenon DEF ZoneMade, NewHeader
  <2> QED
    BY <1>2, <1>5, <1>7, <1>9, <1>10, <2>1 DEF HeapState
<1>14. g = HeapBy(b, b.kup, Z, A, b.zone_free)
  BY <1>2, <1>13 DEF HeapState, HeapBy
<1>15. /\ g \in HeapState /\ g.page_list = b.page_list /\ g.kup = b.kup /\ g.zone = Z
       /\ g.zone_array = A /\ g.zone_free = b.zone_free
  <2>1. b.kup \in [PageNo -> Usage] /\ b.zone_free \in Seq(Nat)
    BY <1>2, HeapFields
  <2>2. IsHeap(g, b, b.kup, Z, A, b.zone_free)
    BY <1>2, <1>12, <1>14, <2>1, HeapIs
  <2> QED
    BY <2>2 DEF IsHeap
<1>16. PagesOK(g, G) /\ Zones(g) = Zones(b) /\ LargeBlocks(g) = LargeBlocks(b)
  BY <1>15, SamePages
<1>17. Zones(g) = Zones(h) \cup {z}
  BY <1>16 DEF ZoneSet
<1>18. b.zone = h.zone /\ b.zone \in [PageNo -> Header] /\ Zones(h) \subseteq PageNo
  BY <1>2, HeapFields, ZonesAre DEF ZoneSet
<1>19. g.zone[z] = d /\ \A y \in Zones(h) : y # z => g.zone[y] = h.zone[y]
  BY <1>9, <1>11, <1>15, <1>18
<1>20. ASSUME NEW y \in Zones(g) PROVE ZoneOK(g, y)
  <2>1. CASE y = z
    BY <1>4, <1>15, <1>19, <2>1 DEF ZoneOK, ZoneSet
  <2>2. CASE y # z
    <3>1. y \in Zones(h) /\ ZoneOK(h, y)
      BY <1>17, <2>2 DEF HeapOK, ZonesOK
    <3>2. \A p \in PagesOf(y) : g.kup[p] = h.kup[p]
      BY <1>15, <3>1 DEF ZoneSet
    <3> QED
      BY <1>19, <2>2, <3>1, <3>2 DEF ZoneOK
  <2> QED
    BY <2>1, <2>2
<1>21. \A y : Contains(g.zone_free, y) <=> Contains(h.zone_free, y) /\ y # z
  BY <1>15 DEF ZoneSet
<1>22. FreeZonesOK(g)
  BY <1>15, <1>17, <1>21 DEF FreeZonesOK, HeapOK, ZonesOK, ZoneSet
<1>23. ASSUME NEW r \in ChunkSize PROVE ListOK(g, r)
  <2>1. b.zone_array \in [ChunkSize -> Seq(Nat)] /\ b.zone_array = h.zone_array /\ ListOK(h, r)
    BY <1>2, HeapFields DEF HeapOK, ZonesOK, ZoneSet
  <2>2. ASSUME NEW x, Contains(h.zone_array[r], x)
        PROVE  /\ x \in Zones(g) /\ ~Contains(g.zone_free, x)
               /\ g.zone[x].size = r /\ g.zone[x].nfree > 0
    <3>1. x \in Zones(h) /\ ~Contains(h.zone_free, x) /\ h.zone[x].size = r
          /\ h.zone[x].nfree > 0
      BY <2>1, <2>2 DEF ListOK
    <3>2. x # z
      BY <2>2 DEF ZoneSet
    <3> QED
      BY <1>17, <1>19, <1>21, <3>1, <3>2
  <2>3. CASE r = s
    <3>1. g.zone_array[r] = m
      BY <1>10, <1>15, <2>1, <2>3
    <3>2. ASSUME NEW x, Contains(m, x)
          PROVE  /\ x \in Zones(g) /\ ~Contains(g.zone_free, x)
                 /\ g.zone[x].size = s /\ g.zone[x].nfree > 0
      <4>1. CASE x = z
        BY <1>4, <1>17, <1>19, <1>21, <4>1
      <4>2. CASE x # z
        BY <1>6, <1>8, <2>2, <2>3, <3>2, <4>2
      <4> QED
        BY <4>1, <4>2
    <3> QED
      BY <1>8, <2>3, <3>1, <3>2 DEF ListOK
  <2>4. CASE r # s
    <3>1. g.zone_array[r] = h.zone_array[r]
      BY <1>10, <1>15, <2>1, <2>4
    <3> QED
      BY <2>1, <2>2, <3>1 DEF ListOK
  <2> QED
    BY <2>3, <2>4
<1>24. HeapOK(g, G)
  BY <1>16, <1>20, <1>22, <1>23 DEF HeapOK, ZonesOK
<1>25. ~Out(h, z, 0) /\ \A c : ~Out(h, z, c)
  BY DEF Out, ZoneSet
<1>26. ASSUME NEW y, NEW c
       PROVE  Out(g, y, c) <=> Out(h, y, c) \/ (y = z /\ c = 0)
  <2>1. CASE y = z
    BY <1>4, <1>17, <1>19, <1>21, <1>25, <2>1 DEF Out
  <2>2. CASE y # z
    BY <1>17, <1>19, <1>21, <2>2 DEF Out
  <2> QED
    BY <2>1, <2>2
<1>27. ASSUME NEW x PROVE x \in SmallBlocks(g) <=> x \in SmallBlocks(h) \/ x = a
  <2>1. x \in SmallBlocks(g) <=> \E y, c : Out(g, y, c) /\ x = ChunkAt(y, g.zone[y].size, c)
    BY SmallIs
  <2>2. x \in SmallBlocks(h) <=> \E y, c : Out(h, y, c) /\ x = ChunkAt(y, h.zone[y].size, c)
    BY SmallIs
  <2>3. ASSUME NEW y, NEW c, Out(h, y, c) PROVE g.zone[y] = h.zone[y]
    BY <1>19, <1>25, <2>3 DEF Out
  <2>4. g.zone[z].size = s
    BY <1>4, <1>19
  <2> QED
    BY <1>26, <2>1, <2>2, <2>3, <2>4
<1> QED
  BY <1>1, <1>16, <1>24, <1>27

FreeZoneTaken(h) == [h EXCEPT !.zone_free = Tail(@)]

\* rt_malloc: a free zone is used again.
LEMMA ZoneReused ==
    ASSUME NEW h, NEW H, HeapOK(h, H), h.zone_free # <<>>, NEW s \in ChunkSize,
           NEW z, z = Head(h.zone_free),
           NEW g, g = ZoneMade(FreeZoneTaken(h), z, s),
           NEW a, a = ChunkAt(z, s, 0)
    PROVE  /\ HeapOK(g, H) /\ LargeBlocks(g) = LargeBlocks(h)
           /\ a \notin SmallBlocks(h) /\ SmallBlocks(g) = SmallBlocks(h) \cup {a}
           /\ z \in Zones(g) /\ 0 \in 0 .. z_nmax[s] - 1
<1>1. h \in HeapState
  BY DEF HeapOK, PagesOK
<1>2. PICK f \in Seq(Nat) : f = h.zone_free
  BY <1>1, HeapFields
<1>3. IsInjective(f) /\ f # <<>> /\ z = Head(f)
  BY <1>2 DEF HeapOK, ZonesOK, FreeZonesOK
<1>4. /\ Tail(f) \in Seq(Nat) /\ IsInjective(Tail(f)) /\ Contains(f, z)
      /\ \A x : Contains(Tail(f), x) <=> Contains(f, x) /\ x # z
  BY <1>3, TailOfList
<1>5. z \in Zones(h)
  BY <1>2, <1>4 DEF HeapOK, ZonesOK, FreeZonesOK
<1>6. z \in Nat \ {0}
  BY <1>5, ZonesAre
<1>7. PICK b : b = FreeZoneTaken(h) /\ b = [h EXCEPT !.zone_free = Tail(f)]
  BY <1>2 DEF FreeZoneTaken
<1>8. b = HeapBy(h, h.kup, h.zone, h.zone_array, Tail(f))
  BY <1>1, <1>7 DEF HeapState, HeapBy
<1>9. /\ b \in HeapState /\ b.page_list = h.page_list /\ b.kup = h.kup /\ b.zone = h.zone
      /\ b.zone_array = h.zone_array /\ b.zone_free = Tail(f)
  <2>1. PICK t \in Seq(Nat) : t = Tail(f)
    BY <1>4
  <2>2. IsHeap(b, h, h.kup, h.zone, h.zone_array, t)
    <3>1. h.kup \in [PageNo -> Usage] /\ h.zone \in [PageNo -> Header]
          /\ h.zone_array \in [ChunkSize -> Seq(Nat)]
      BY <1>1, HeapFields
    <3> QED
      BY <1>1, <1>8, <2>1, <3>1, HeapIs
  <2> QED
    BY <2>1, <2>2 DEF IsHeap
<1>10. PagesOK(b, H) /\ Zones(b) = Zones(h) /\ LargeBlocks(b) = LargeBlocks(h)
  BY <1>9, SamePages DEF HeapOK
<1>11. ZoneSet(b, h, z)
  <2>1. \A p \in PagesOf(z) : b.kup[p] = [type |-> "small", size |-> p - z]
    BY <1>5, <1>9 DEF HeapOK, ZonesOK, ZoneOK
  <2>2. \A y \in Zones(h) : \A p \in PagesOf(y) : b.kup[p] = h.kup[p]
    BY <1>9
  <2>3. \A y \in Zones(h) : y = z \/ PagesOf(y) \cap PagesOf(z) = {}
    BY <1>5, ZonesApart DEF HeapOK, PagesOK
  <2>4. \A r \in ChunkSize : ~Contains(h.zone_array[r], z)
    BY <1>2, <1>4 DEF HeapOK, ZonesOK, ListOK
  <2>5. Zones(b) = Zones(h) \cup {z}
    BY <1>5, <1>10
  <2>6. IsInjective(b.zone_free)
        /\ \A y : Contains(b.zone_free, y) <=> Contains(h.zone_free, y) /\ y # z
    BY <1>2, <1>4, <1>9
  <2>7. Contains(h.zone_free, z)
    BY <1>2, <1>4
  <2> QED
    BY <1>9, <2>1, <2>2, <2>3, <2>4, <2>5, <2>6, <2>7 DEF ZoneSet
<1>12. g = ZoneMade(b, z, s)
  BY <1>2, <1>7
<1>13. /\ HeapOK(g, H) /\ LargeBlocks(g) = LargeBlocks(b) /\ Zones(g) = Zones(b)
       /\ a \notin SmallBlocks(h) /\ SmallBlocks(g) = SmallBlocks(h) \cup {a}
       /\ 0 \in 0 .. z_nmax[s] - 1
  BY <1>6, <1>10, <1>11, <1>12, ZoneMadeOK, SMTT(60)
<1> QED
  BY <1>5, <1>10, <1>13

\* rt_malloc: the pages in hand become a zone.
LEMMA ZoneAdded ==
    ASSUME NEW h, NEW H, HeapOK(h, H), NEW s \in ChunkSize, NEW z \in Nat \ {0},
           NEW r, r = Run(z, zone_page_cnt), r \in H,
           NEW g, g = ZoneMade(SetUsage(h, z), z, s),
           NEW a, a = ChunkAt(z, s, 0)
    PROVE  /\ HeapOK(g, H \ {r}) /\ LargeBlocks(g) = LargeBlocks(h)
           /\ a \notin SmallBlocks(h) /\ SmallBlocks(g) = SmallBlocks(h) \cup {a}
           /\ z \in Zones(g) /\ 0 \in 0 .. z_nmax[s] - 1
<1>1. h \in HeapState /\ Tiling(Tiles(h, H))
  BY DEF HeapOK, PagesOK
<1>2. PICK K : K = UsageOf(h, z)
  OBVIOUS
<1>3. PICK b : b = SetUsage(h, z)
  OBVIOUS
<1>4. b = HeapBy(h, K, h.zone, h.zone_array, h.zone_free)
  <2>1. b = [h EXCEPT !.kup = K]
    BY <1>2, <1>3, Zenon DEF SetUsage, UsageOf, SmallPage
  <2> QED
    BY <1>1, <2>1 DEF HeapState, HeapBy
<1>5. PagesOf(z) \subseteq PageNo
  <2>1. PagesIn(r) = PagesOf(z)
    BY ZoneRun
  <2> QED
    BY <1>1, <2>1, HeldApart
<1>6. K \in [PageNo -> Usage]
  BY <1>1, <1>2, <1>5, UsageIs
<1>7. /\ b \in HeapState /\ b.page_list = h.page_list /\ b.kup = K /\ b.zone = h.zone
      /\ b.zone_array = h.zone_array /\ b.zone_free = h.zone_free
  <2>1. h.zone \in [PageNo -> Header] /\ h.zone_array \in [ChunkSize -> Seq(Nat)]
        /\ h.zone_free \in Seq(Nat)
    BY <1>1, HeapFields
  <2>2. IsHeap(b, h, K, h.zone, h.zone_array, h.zone_free)
    BY <1>1, <1>4, <1>6, <2>1, HeapIs
  <2> QED
    BY <2>2 DEF IsHeap
<1>8. /\ Zones(b) = Zones(h) \cup {z} /\ LargeBlocks(b) = LargeBlocks(h)
      /\ z \notin Zones(h) /\ PagesOK(b, H \ {r})
      /\ \A p \in PagesOf(z) : b.kup[p] = [type |-> "small", size |-> p - z]
      /\ \A y \in Zones(h) : PagesOf(y) \cap PagesOf(z) = {}
            /\ \A p \in PagesOf(y) : b.kup[p] = h.kup[p]
  <2>1. UsageMade(b, h, H \ {r}, z)
    BY <1>2, <1>7, UsageSet
  <2> QED
    BY <2>1 DEF UsageMade
<1>9. ZoneSet(b, h, z)
  <2>1. \A y : Contains(h.zone_free, y) => y # z
    BY <1>8 DEF HeapOK, ZonesOK, FreeZonesOK
  <2>2. \A t \in ChunkSize : ~Contains(h.zone_array[t], z)
    BY <1>8 DEF HeapOK, ZonesOK, ListOK
  <2>3. IsInjective(b.zone_free)
        /\ \A y : Contains(b.zone_free, y) <=> Contains(h.zone_free, y) /\ y # z
    BY <1>7, <2>1 DEF HeapOK, ZonesOK, FreeZonesOK
  <2> QED
    BY <1>7, <1>8, <2>2, <2>3 DEF ZoneSet
<1>10. PICK G : G = H \ {r}
  OBVIOUS
<1>11. PagesOK(b, G) /\ g = ZoneMade(b, z, s)
  BY <1>3, <1>8, <1>10
<1>12. /\ HeapOK(g, G) /\ LargeBlocks(g) = LargeBlocks(b) /\ Zones(g) = Zones(b)
       /\ a \notin SmallBlocks(h) /\ SmallBlocks(g) = SmallBlocks(h) \cup {a}
       /\ 0 \in 0 .. z_nmax[s] - 1
  BY <1>9, <1>11, ZoneMadeOK
<1> QED
  BY <1>8, <1>10, <1>12

-----------------------------------------------------------------------------
(* rt_free of a small block.                                               *)

\* The chunk is back in its zone, which is listed.
LEMMA ChunkReturnedOK ==
    ASSUME NEW h, NEW H, HeapOK(h, H), NEW a \in SmallBlocks(h),
           NEW g, g = ChunkReturned(h, a), NEW z, z = ZoneOf(h, a)
    PROVE  /\ HeapOK(g, H) /\ LargeBlocks(g) = LargeBlocks(h)
           /\ SmallBlocks(g) = SmallBlocks(h) \ {a}
           /\ z \in Zones(g) /\ ~Contains(g.zone_free, z)
           /\ g.zone[z].size = h.zone[z].size
<1>1. h \in HeapState
  BY DEF HeapOK, PagesOK
<1>2. PICK c : Out(h, z, c) /\ a = ChunkAt(z, h.zone[z].size, c) /\ ChunkOf(a) = c
  <2>1. PICK y, b : Out(h, y, b) /\ a = ChunkAt(y, h.zone[y].size, b)
    BY SmallIs
  <2>2. ZoneOf(h, a) = y /\ ChunkOf(a) = b
    BY <2>1, OneChunk
  <2> QED
    BY <2>1, <2>2
<1>3. PICK e : e = h.zone[z]
  OBVIOUS
<1>4. PICK s : s = e.size
  OBVIOUS
<1>5. z \in Zones(h) /\ ~Contains(h.zone_free, z) /\ c \in UsedIn(e)
  BY <1>2, <1>3 DEF Out
<1>6. z \in PageNo /\ z \in Nat \ {0}
  BY <1>5, ZonesAre
<1>7. e \in Header /\ HeaderOK(e) /\ s \in ChunkSize
  BY <1>1, <1>3, <1>4, <1>5, <1>6, HeapFields DEF HeapOK, ZonesOK, ZoneOK, HeaderOK
<1>8. PICK d : d = Back(e, c)
  OBVIOUS
<1>9. /\ d \in Header /\ HeaderOK(d) /\ d.size = s /\ d.nfree > 0
      /\ UsedIn(d) = UsedIn(e) \ {c}
  BY <1>4, <1>5, <1>7, <1>8, HeaderTakes
<1>10. PICK l \in Seq(Nat) : l = h.zone_array[s]
  BY <1>1, <1>7, HeapFields
<1>11. IsInjective(l) /\ (e.nfree = 0 => ~Contains(l, z))
  BY <1>3, <1>7, <1>10 DEF HeapOK, ZonesOK, ListOK
<1>12. PICK m : m = IF e.nfree = 0 THEN <<z>> \o l ELSE l
  OBVIOUS
<1>13. /\ m \in Seq(Nat) /\ IsInjective(m)
       /\ \A x : Contains(m, x) => Contains(l, x) \/ x = z
  BY <1>6, <1>10, <1>11, <1>12, FirstOfList
<1>14. PICK Z : Z = [h.zone EXCEPT ![z] = d]
  OBVIOUS
<1>15. PICK A : A = [h.zone_array EXCEPT ![s] = m]
  OBVIOUS
<1>16. Z \in [PageNo -> Header] /\ A \in [ChunkSize -> Seq(Nat)]
  BY <1>1, <1>6, <1>9, <1>13, <1>14, <1>15, HeapFields
<1>17. g = [[h EXCEPT !.zone = Z] EXCEPT !.zone_array = A]
  <2>1. g = [h EXCEPT !.zone[z] = Back(@, c),
                      !.zone_array[s] = IF e.nfree = 0 THEN <<z>> \o @ ELSE @]
    BY <1>2, <1>3, <1>4, Zenon DEF ChunkReturned
  <2>2. d = Back(h.zone[z], c)
    BY <1>3, <1>8
  <2> QED
    BY <1>1, <1>10, <1>12, <1>14, <1>15, <2>1, <2>2 DEF HeapState
<1>18. g = HeapBy(h, h.kup, Z, A, h.zone_free)
  BY <1>1, <1>17 DEF HeapState, HeapBy
<1>19. /\ g \in HeapState /\ g.page_list = h.page_list /\ g.kup = h.kup /\ g.zone = Z
       /\ g.zone_array = A /\ g.zone_free = h.zone_free
  <2>1. h.kup \in [PageNo -> Usage] /\ h.zone_free \in Seq(Nat)
    BY <1>1, HeapFields
  <2>2. IsHeap(g, h, h.kup, Z, A, h.zone_free)
    BY <1>1, <1>16, <1>18, <2>1, HeapIs
  <2> QED
    BY <2>2 DEF IsHeap
<1>20. Zones(g) = Zones(h)
  BY <1>19, SamePages DEF HeapOK
<1>21. ASSUME NEW y \in Zones(h) PROVE g.zone[y] = IF y = z THEN d ELSE h.zone[y]
  BY <1>1, <1>6, <1>14, <1>19, ZonesAre, HeapFields
<1>22. ASSUME NEW r \in ChunkSize PROVE ListOK(g, r)
  <2>1. h.zone_array \in [ChunkSize -> Seq(Nat)] /\ ListOK(h, r)
    BY <1>1, HeapFields DEF HeapOK, ZonesOK
  <2>2. ASSUME NEW x, Contains(h.zone_array[r], x)
        PROVE  /\ x \in Zones(g) /\ ~Contains(g.zone_free, x)
               /\ g.zone[x].size = r /\ g.zone[x].nfree > 0
    <3>1. x \in Zones(h) /\ ~Contains(h.zone_free, x) /\ h.zone[x].size = r
          /\ h.zone[x].nfree > 0
      BY <2>1, <2>2 DEF ListOK
    <3>2. CASE x # z
      BY <1>19, <1>20, <1>21, <3>1, <3>2
    <3>3. CASE x = z
      BY <1>3, <1>4, <1>9, <1>19, <1>20, <1>21, <3>1, <3>3
    <3> QED
      BY <3>2, <3>3
  <2>3. CASE r = s
    <3>1. g.zone_array[r] = m
      BY <1>15, <1>19, <2>1, <2>3
    <3>2. ASSUME NEW x, Contains(m, x)
          PROVE  /\ x \in Zones(g) /\ ~Contains(g.zone_free, x)
                 /\ g.zone[x].size = s /\ g.zone[x].nfree > 0
      <4>1. CASE x = z
        BY <1>5, <1>9, <1>19, <1>20, <1>21, <4>1
      <4>2. CASE x # z
        BY <1>10, <1>13, <2>2, <2>3, <3>2, <4>2
      <4> QED
        BY <4>1, <4>2
    <3> QED
      BY <1>13, <2>3, <3>1, <3>2 DEF ListOK
  <2>4. CASE r # s
    <3>1. g.zone_array[r] = h.zone_array[r]
      BY <1>15, <1>19, <2>1, <2>4
    <3> QED
      BY <2>1, <2>2, <3>1 DEF ListOK
  <2> QED
    BY <2>3, <2>4
<1>23. FreeZonesOK(g)
  BY <1>19, <1>20 DEF HeapOK, ZonesOK, FreeZonesOK
<1>24. HeapOK(g, H) /\ LargeBlocks(g) = LargeBlocks(h)
  BY <1>5, <1>9, <1>14, <1>19, <1>22, <1>23, OneZone
<1>25. ASSUME NEW y, NEW b
       PROVE  Out(g, y, b) <=> Out(h, y, b) /\ ~(y = z /\ b = c)
  <2>1. CASE y = z
    BY <1>3, <1>5, <1>9, <1>19, <1>20, <1>21, <2>1 DEF Out
  <2>2. CASE y # z
    BY <1>19, <1>20, <1>21, <2>2 DEF Out
  <2> QED
    BY <2>1, <2>2
<1>26. \A y \in Zones(h) : g.zone[y].size = h.zone[y].size
  BY <1>3, <1>4, <1>9, <1>21
<1>27. ASSUME NEW x PROVE x \in SmallBlocks(g) <=> x \in SmallBlocks(h) /\ x # a
  <2>1. x \in SmallBlocks(g) <=> \E y, b : Out(g, y, b) /\ x = ChunkAt(y, g.zone[y].size, b)
    BY SmallIs
  <2>2. x \in SmallBlocks(h) <=> \E y, b : Out(h, y, b) /\ x = ChunkAt(y, h.zone[y].size, b)
    BY SmallIs
  <2>3. ASSUME NEW y, NEW b, Out(h, y, b)
        PROVE  /\ g.zone[y].size = h.zone[y].size
               /\ (ChunkAt(y, h.zone[y].size, b) = a => y = z /\ b = c)
    <3>1. y \in Zones(h)
      BY <2>3 DEF Out
    <3>2. ASSUME ChunkAt(y, h.zone[y].size, b) = a PROVE y = z /\ b = c
      BY <1>2, <2>3, <3>2, OneChunk
    <3> QED
      BY <1>26, <3>1, <3>2
  <2>4. ASSUME NEW y, NEW b, Out(g, y, b) PROVE Out(h, y, b) /\ ~(y = z /\ b = c)
    BY <1>25, <2>4
  <2>5. ASSUME NEW y, NEW b, Out(h, y, b), ~(y = z /\ b = c) PROVE Out(g, y, b)
    BY <1>25, <2>5
  <2>6. ASSUME x \in SmallBlocks(g) PROVE x \in SmallBlocks(h) /\ x # a
    BY <2>1, <2>2, <2>3, <2>4, <2>6
  <2>7. ASSUME x \in SmallBlocks(h), x # a PROVE x \in SmallBlocks(g)
    <3>1. PICK y, b : Out(h, y, b) /\ x = ChunkAt(y, h.zone[y].size, b)
      BY <2>2, <2>7
    <3>2. ~(y = z /\ b = c)
      BY <1>2, <2>7, <3>1
    <3> QED
      BY <2>1, <2>3, <2>5, <3>1, <3>2
  <2> QED
    BY <2>6, <2>7
<1>28. SmallBlocks(g) = SmallBlocks(h) \ {a}
  BY <1>27
<1> QED
  BY <1>5, <1>19, <1>20, <1>24, <1>26, <1>28

AllFree(e) == e.nfree = z_nmax[e.size]

Unused(h, z, s) ==
    /\ z \in Zones(h) /\ ~Contains(h.zone_free, z)
    /\ s = h.zone[z].size /\ AllFree(h.zone[z])

SameAllocated(g, h, H) ==
    HeapOK(g, H) /\ LargeBlocks(g) = LargeBlocks(h) /\ SmallBlocks(g) = SmallBlocks(h)

\* A zone of which no chunk is out goes to the free zones.
Retired(h, s, z) ==
    [h EXCEPT !.zone_array[s] = RemoveFirst(@, z), !.zone_free = <<z>> \o @]

LEMMA ZoneRetired ==
    ASSUME NEW h, NEW H, HeapOK(h, H), NEW z, NEW s, Unused(h, z, s)
    PROVE  SameAllocated(Retired(h, s, z), h, H)
<1> PICK g : g = Retired(h, s, z)
  OBVIOUS
<1>0. z \in Zones(h) /\ ~Contains(h.zone_free, z) /\ s = h.zone[z].size /\ AllFree(h.zone[z])
  BY DEF Unused
<1>1. h \in HeapState /\ z \in PageNo /\ z \in Nat
  BY <1>0, ZonesAre DEF HeapOK, PagesOK
<1>2. h.zone[z] \in Header /\ HeaderOK(h.zone[z]) /\ s \in ChunkSize
  BY <1>0, <1>1, HeapFields DEF HeapOK, ZonesOK, ZoneOK, HeaderOK
<1>3. UsedIn(h.zone[z]) = {}
  BY <1>0, <1>2, HeaderFree DEF AllFree
<1>4. PICK l \in Seq(Nat) : l = h.zone_array[s]
  BY <1>1, <1>2, HeapFields
<1>5. IsInjective(l)
  BY <1>2, <1>4 DEF HeapOK, ZonesOK, ListOK
<1>6. PICK m : m = RemoveFirst(l, z)
  OBVIOUS
<1>7. /\ m \in Seq(Nat) /\ IsInjective(m)
      /\ \A x : Contains(m, x) <=> Contains(l, x) /\ x # z
  BY <1>5, <1>6, RemoveFromList
<1>8. PICK f \in Seq(Nat) : f = h.zone_free
  BY <1>1, HeapFields
<1>9. IsInjective(f) /\ ~Contains(f, z)
  BY <1>0, <1>8 DEF HeapOK, ZonesOK, FreeZonesOK
<1>10. PICK n : n = <<z>> \o f
  OBVIOUS
<1>11. /\ n \in Seq(Nat) /\ IsInjective(n)
       /\ \A x : Contains(n, x) <=> Contains(f, x) \/ x = z
  BY <1>1, <1>9, <1>10, FirstOfList
<1>12. PICK A : A = [h.zone_array EXCEPT ![s] = m]
  OBVIOUS
<1>13. A \in [ChunkSize -> Seq(Nat)]
  BY <1>1, <1>7, <1>12, HeapFields
<1>14. g = HeapBy(h, h.kup, h.zone, A, n)
  BY <1>1, <1>4, <1>6, <1>8, <1>10, <1>12 DEF HeapState, HeapBy, Retired
<1>15. /\ g \in HeapState /\ g.page_list = h.page_list /\ g.kup = h.kup /\ g.zone = h.zone
       /\ g.zone_array = A /\ g.zone_free = n
  <2>1. h.kup \in [PageNo -> Usage] /\ h.zone \in [PageNo -> Header]
    BY <1>1, HeapFields
  <2>2. IsHeap(g, h, h.kup, h.zone, A, n)
    BY <1>1, <1>11, <1>13, <1>14, <2>1, HeapIs
  <2> QED
    BY <2>2 DEF IsHeap
<1>16. PagesOK(g, H) /\ Zones(g) = Zones(h) /\ LargeBlocks(g) = LargeBlocks(h)
  BY <1>15, SamePages DEF HeapOK
<1>17. ASSUME NEW r \in ChunkSize PROVE ListOK(g, r)
  <2>1. h.zone_array \in [ChunkSize -> Seq(Nat)] /\ ListOK(h, r)
    BY <1>1, HeapFields DEF HeapOK, ZonesOK
  <2>2. ASSUME NEW x, Contains(h.zone_array[r], x), x # z
        PROVE  /\ x \in Zones(g) /\ ~Contains(g.zone_free, x)
               /\ g.zone[x].size = r /\ g.zone[x].nfree > 0
    BY <1>8, <1>11, <1>15, <1>16, <2>1, <2>2 DEF ListOK
  <2>3. CASE r = s
    <3>1. g.zone_array[r] = m
      BY <1>12, <1>15, <2>1, <2>3
    <3> QED
      BY <1>4, <1>7, <2>2, <2>3, <3>1 DEF ListOK
  <2>4. CASE r # s
    <3>1. g.zone_array[r] = h.zone_array[r]
      BY <1>12, <1>15, <2>1, <2>4
    <3>2. ~Contains(h.zone_array[r], z)
      BY <1>0, <2>1, <2>4 DEF ListOK
    <3> QED
      BY <2>1, <2>2, <3>1, <3>2 DEF ListOK
  <2> QED
    BY <2>3, <2>4
<1>18. FreeZonesOK(g)
  BY <1>0, <1>8, <1>11, <1>15, <1>16 DEF HeapOK, ZonesOK, FreeZonesOK
<1>19. \A y \in Zones(g) : ZoneOK(g, y)
  BY <1>15, <1>16 DEF HeapOK, ZonesOK, ZoneOK
<1>20. HeapOK(g, H)
  BY <1>16, <1>17, <1>18, <1>19 DEF HeapOK, ZonesOK
<1>21. ASSUME NEW y, NEW c PROVE Out(g, y, c) <=> Out(h, y, c)
  BY <1>3, <1>8, <1>11, <1>15, <1>16 DEF Out
<1>22. ASSUME NEW x PROVE x \in SmallBlocks(g) <=> x \in SmallBlocks(h)
  <2>1. x \in SmallBlocks(g) <=> \E y, c : Out(g, y, c) /\ x = ChunkAt(y, h.zone[y].size, c)
    BY <1>15, SmallIs
  <2>2. x \in SmallBlocks(h) <=> \E y, c : Out(h, y, c) /\ x = ChunkAt(y, h.zone[y].size, c)
    BY SmallIs
  <2> QED
    BY <1>21, <2>1, <2>2
<1>23. SmallBlocks(g) = SmallBlocks(h)
  BY <1>22
<1> QED
  BY <1>16, <1>20, <1>23 DEF SameAllocated

(***************************************************************************)
(* rt_free of a chunk keeps the heap whole, takes that block and no other, *)
(* and does so also when its zone becomes all free and leaves the zones    *)
(* that are searched.                                                      *)
(***************************************************************************)
THEOREM ChunkFreedOK ==
    ASSUME NEW h, NEW H, HeapOK(h, H), NEW a \in SmallBlocks(h),
           NEW g, g = ChunkFreed(h, a)
    PROVE  /\ HeapOK(g, H) /\ LargeBlocks(g) = LargeBlocks(h)
           /\ SmallBlocks(g) = SmallBlocks(h) \ {a}
<1>1. PICK z : z = ZoneOf(h, a)
  OBVIOUS
<1>2. PICK b : b = ChunkReturned(h, a)
  OBVIOUS
<1>3. PICK s : s = h.zone[z].size
  OBVIOUS
<1>4. /\ HeapOK(b, H) /\ LargeBlocks(b) = LargeBlocks(h)
      /\ SmallBlocks(b) = SmallBlocks(h) \ {a}
      /\ z \in Zones(b) /\ ~Contains(b.zone_free, z) /\ b.zone[z].size = s
  BY <1>1, <1>2, <1>3, ChunkReturnedOK
<1>5. g = IF b.zone[z].nfree = z_nmax[s] /\ Len(b.zone_array[s]) > 1
          THEN Retired(b, s, z) ELSE b
  BY <1>1, <1>2, <1>3, Zenon DEF ChunkFreed, Retired
<1>6. CASE b.zone[z].nfree = z_nmax[s] /\ Len(b.zone_array[s]) > 1
  <2>1. HeapOK(g, H) /\ LargeBlocks(g) = LargeBlocks(b) /\ SmallBlocks(g) = SmallBlocks(b)
    <3>1. g = Retired(b, s, z)
      BY <1>5, <1>6, Zenon
    <3>2. Unused(b, z, s)
      BY <1>4, <1>6 DEF AllFree, Unused
    <3> QED
      BY <1>4, <3>1, <3>2, ZoneRetired DEF SameAllocated
  <2> QED
    BY <1>4, <2>1
<1>7. CASE ~(b.zone[z].nfree = z_nmax[s] /\ Len(b.zone_array[s]) > 1)
  <2>1. g = b
    BY <1>5, <1>7, Zenon
  <2> QED
    BY <1>4, <2>1
<1> QED
  BY <1>6, <1>7

-----------------------------------------------------------------------------
(* Pages are taken and given back.                                         *)

\* Nothing changes for the zones.
SameZoneUse(g, h) ==
    /\ g.zone = h.zone /\ g.zone_array = h.zone_array /\ g.zone_free = h.zone_free
    /\ Zones(g) = Zones(h)
    /\ \A z \in Zones(h) : \A p \in PagesOf(z) : g.kup[p] = h.kup[p]

LEMMA ZonesKept ==
    ASSUME NEW h, NEW H, HeapOK(h, H), NEW g, NEW G, PagesOK(g, G), SameZoneUse(g, h)
    PROVE  HeapOK(g, G) /\ SmallBlocks(g) = SmallBlocks(h)
<1>1. ASSUME NEW z \in Zones(g) PROVE ZoneOK(g, z)
  <2>1. z \in Zones(h) /\ ZoneOK(h, z)
    BY DEF SameZoneUse, HeapOK, ZonesOK
  <2> QED
    BY <2>1 DEF SameZoneUse, ZoneOK
<1>2. ASSUME NEW s \in ChunkSize PROVE ListOK(g, s)
  BY DEF SameZoneUse, HeapOK, ZonesOK, ListOK
<1>3. FreeZonesOK(g)
  BY DEF SameZoneUse, HeapOK, ZonesOK, FreeZonesOK
<1>4. SmallBlocks(g) = SmallBlocks(h)
  BY DEF SameZoneUse, SmallBlocks, Chunks
<1> QED
  BY <1>1, <1>2, <1>3, <1>4 DEF HeapOK, ZonesOK

LEMMA SameBlocksOK ==
    ASSUME NEW h, NEW H, HeapOK(h, H), NEW g, NEW G, PagesOK(g, G), SameBlocks(g, h)
    PROVE  HeapOK(g, G) /\ SmallBlocks(g) = SmallBlocks(h) /\ LargeBlocks(g) = LargeBlocks(h)
<1>1. Zones(g) = Zones(h) /\ LargeBlocks(g) = LargeBlocks(h)
  BY SameZones
<1>2. SameZoneUse(g, h)
  BY <1>1 DEF SameBlocks, SameZoneUse
<1> QED
  BY <1>1, <1>2, ZonesKept

(***************************************************************************)
(* rt_page_alloc, when a run is long enough, keeps the heap whole: the     *)
(* caller has in hand a run that nobody had, and what is left of the run   *)
(* found stays free, in its place.                                         *)
(***************************************************************************)
THEOREM PageAllocOK ==
    ASSUME NEW h, NEW H, HeapOK(h, H), NEW n \in Nat \ {0}, Fits(h, n) # {},
           NEW g, g = rt_page_alloc(h, n), NEW r, r = Run(PageFound(h, n), n)
    PROVE  /\ HeapOK(g, H \cup {r}) /\ r \in Runs /\ r \notin H
           /\ SmallBlocks(g) = SmallBlocks(h) /\ LargeBlocks(g) = LargeBlocks(h)
<1>1. h \in HeapState /\ PageList(h.page_list) /\ H \subseteq Runs /\ Tiling(Tiles(h, H))
  BY DEF HeapOK, PagesOK
<1>2. /\ g \in HeapState /\ PageList(g.page_list) /\ SameBlocks(g, h)
      /\ r \in Runs /\ r \notin H /\ Tiling(Tiles(g, H \cup {r}))
  BY <1>1, PageAlloc
<1>3. PICK G : G = H \cup {r}
  OBVIOUS
<1>4. PagesOK(g, G)
  BY <1>1, <1>2, <1>3 DEF PagesOK
<1>5. HeapOK(g, G) /\ SmallBlocks(g) = SmallBlocks(h) /\ LargeBlocks(g) = LargeBlocks(h)
  BY <1>2, <1>4, SameBlocksOK
<1> QED
  BY <1>2, <1>3, <1>5

(***************************************************************************)
(* rt_page_free keeps the heap whole: the run in hand is free again,       *)
(* joined with the free runs before and behind it.                         *)
(***************************************************************************)
THEOREM PageFreeOK ==
    ASSUME NEW h, NEW H, HeapOK(h, H), NEW r \in H, NEW g, g = rt_page_free(h, r.start, r.page)
    PROVE  /\ HeapOK(g, H \ {r})
           /\ SmallBlocks(g) = SmallBlocks(h) /\ LargeBlocks(g) = LargeBlocks(h)
<1>1. h \in HeapState /\ PageList(h.page_list) /\ H \subseteq Runs /\ Tiling(Tiles(h, H))
      /\ r \in Runs
  BY DEF HeapOK, PagesOK
<1>2. /\ g \in HeapState /\ PageList(g.page_list) /\ SameBlocks(g, h)
      /\ Tiling(Tiles(g, H \ {r}))
  BY <1>1, PageFree
<1>3. PICK G : G = H \ {r}
  OBVIOUS
<1>4. PagesOK(g, G)
  BY <1>1, <1>2, <1>3 DEF PagesOK
<1>5. HeapOK(g, G) /\ SmallBlocks(g) = SmallBlocks(h) /\ LargeBlocks(g) = LargeBlocks(h)
  BY <1>2, <1>4, SameBlocksOK
<1> QED
  BY <1>3, <1>5

ClearedOf(h, z) == [p \in PageNo |-> IF p \in PagesOf(z) THEN FREE ELSE h.kup[p]]

\* rt_free: a free zone too many is in hand.
LEMMA ZoneReleasedOK ==
    ASSUME NEW h, NEW H, HeapOK(h, H), h.zone_free # <<>>, NEW g, g = ZoneReleased(h),
           NEW r, r = Run(Head(h.zone_free), zone_page_cnt)
    PROVE  /\ HeapOK(g, H \cup {r}) /\ r \in Runs /\ r \notin H
           /\ SmallBlocks(g) = SmallBlocks(h) /\ LargeBlocks(g) = LargeBlocks(h)
<1>1. h \in HeapState /\ Tiling(Tiles(h, H)) /\ H \subseteq Runs /\ PageList(h.page_list)
  BY DEF HeapOK, PagesOK
<1>2. PICK f \in Seq(Nat) : f = h.zone_free
  BY <1>1, HeapFields
<1>3. PICK z : z = Head(f)
  OBVIOUS
<1>4. IsInjective(f) /\ f # <<>>
  BY <1>2 DEF HeapOK, ZonesOK, FreeZonesOK
<1>5. /\ Tail(f) \in Seq(Nat) /\ IsInjective(Tail(f)) /\ Contains(f, z)
      /\ \A x : Contains(Tail(f), x) <=> Contains(f, x) /\ x # z
  BY <1>3, <1>4, TailOfList
<1>6. z \in Zones(h) /\ z \in Nat \ {0} /\ z \in PageNo
  BY <1>2, <1>5, ZonesAre DEF HeapOK, ZonesOK, FreeZonesOK
<1>7. r = Run(z, zone_page_cnt) /\ r \in Runs
  BY <1>2, <1>3, <1>6, RunIs, SlabAssumption
<1>8. PagesOf(z) \subseteq PageNo /\ z \in PagesOf(z)
  BY <1>1, <1>6, ZonePages
<1>9. PICK K : K = ClearedOf(h, z)
  OBVIOUS
<1>10. FREE \in Usage
  BY DEF FREE, Usage
<1>11. /\ K \in [PageNo -> Usage]
       /\ \A p \in PagesOf(z) : K[p] = FREE
       /\ \A p \in PageNo \ PagesOf(z) : K[p] = h.kup[p]
  BY <1>1, <1>8, <1>9, <1>10, HeapFields DEF ClearedOf
<1>12. PICK t \in Seq(Nat) : t = Tail(f)
  BY <1>5
<1>13. g = HeapBy(h, K, h.zone, h.zone_array, t)
  <2>1. PICK b : b = [h EXCEPT !.kup = K]
    OBVIOUS
  <2>2. g = [b EXCEPT !.zone_free = Tail(@)]
    <3>1. b = ClearUsage(h, Head(h.zone_free))
      BY <1>2, <1>3, <1>9, <2>1, Zenon DEF ClearUsage, ClearedOf
    <3> QED
      BY <3>1, Zenon DEF ZoneReleased
  <2> QED
    BY <1>1, <1>2, <1>12, <2>1, <2>2 DEF HeapState, HeapBy
<1>14. /\ g \in HeapState /\ g.page_list = h.page_list /\ g.kup = K /\ g.zone = h.zone
       /\ g.zone_array = h.zone_array /\ g.zone_free = t
  <2>1. h.zone \in [PageNo -> Header] /\ h.zone_array \in [ChunkSize -> Seq(Nat)]
    BY <1>1, HeapFields
  <2>2. IsHeap(g, h, K, h.zone, h.zone_array, t)
    BY <1>1, <1>11, <1>13, <2>1, HeapIs
  <2> QED
    BY <2>2 DEF IsHeap
<1>15. ASSUME NEW y \in Zones(h), y # z
       PROVE  PagesOf(y) \cap PagesOf(z) = {} /\ PagesOf(y) \subseteq PageNo /\ y \notin PagesOf(z)
  BY <1>1, <1>6, <1>15, ZonesApart, ZonePages
<1>16. ASSUME NEW p \in PagesOf(z) PROVE h.kup[p].type = "small"
  <2>1. h.kup[p] = [type |-> "small", size |-> p - z]
    BY <1>6 DEF HeapOK, ZonesOK, ZoneOK
  <2> QED
    BY <2>1
<1>17. ASSUME NEW p \in PageNo
       PROVE  /\ p \in Zones(g) <=> p \in Zones(h) /\ p # z
              /\ p \in LargeBlocks(g) <=> p \in LargeBlocks(h)
  <2>1. CASE p \in PagesOf(z)
    <3>1. g.kup[p].type = "free"
      BY <1>11, <1>14, <2>1 DEF FREE
    <3>2. p \notin Zones(g)
      BY <3>1 DEF Zones
    <3>3. p \notin LargeBlocks(g) /\ p \notin LargeBlocks(h)
      BY <1>16, <2>1, <3>1 DEF LargeBlocks
    <3> QED
      BY <1>15, <2>1, <3>2, <3>3
  <2>2. CASE p \notin PagesOf(z)
    <3>1. g.kup[p] = h.kup[p] /\ p # z
      BY <1>8, <1>11, <1>14, <2>2
    <3> QED
      BY <3>1 DEF Zones, LargeBlocks
  <2> QED
    BY <2>1, <2>2
<1>18. Zones(g) = Zones(h) \ {z} /\ LargeBlocks(g) = LargeBlocks(h)
  <2>1. Zones(g) \subseteq PageNo /\ Zones(h) \subseteq PageNo
        /\ LargeBlocks(g) \subseteq PageNo /\ LargeBlocks(h) \subseteq PageNo
    BY ZonesAre
  <2> QED
    BY <1>17, <2>1
<1>19. \A p \in LargeBlocks(h) : g.kup[p] = h.kup[p]
  BY <1>1, <1>6, <1>11, <1>14, LargeApart, ZonesAre
<1>20. Tiling(Tiles(g, H \cup {r})) /\ r \notin H
  <2>1. ZoneGone(g, h, z)
    BY <1>14, <1>18, <1>19 DEF ZoneGone
  <2> QED
    BY <1>1, <1>6, <1>7, <2>1, TileFromZone
<1>21. PagesOK(g, H \cup {r})
  BY <1>1, <1>7, <1>14, <1>20 DEF PagesOK
<1>22. ASSUME NEW y \in Zones(g) PROVE ZoneOK(g, y)
  <2>1. y \in Zones(h) /\ y # z /\ ZoneOK(h, y)
    BY <1>18 DEF HeapOK, ZonesOK
  <2>2. \A p \in PagesOf(y) : g.kup[p] = h.kup[p]
    BY <1>11, <1>14, <1>15, <2>1
  <2> QED
    BY <1>14, <2>1, <2>2 DEF ZoneOK
<1>23. ASSUME NEW s \in ChunkSize PROVE ListOK(g, s)
  <2>1. ListOK(h, s)
    BY DEF HeapOK, ZonesOK
  <2>2. ASSUME NEW x, Contains(h.zone_array[s], x)
        PROVE  /\ x \in Zones(g) /\ ~Contains(g.zone_free, x)
               /\ g.zone[x].size = s /\ g.zone[x].nfree > 0
    BY <1>2, <1>5, <1>12, <1>14, <1>18, <2>1, <2>2 DEF ListOK
  <2> QED
    BY <1>14, <2>1, <2>2 DEF ListOK
<1>24. FreeZonesOK(g)
  BY <1>2, <1>5, <1>12, <1>14, <1>18 DEF HeapOK, ZonesOK, FreeZonesOK
<1>25. SmallBlocks(g) = SmallBlocks(h)
  <2>1. ASSUME NEW y, NEW c PROVE Out(g, y, c) <=> Out(h, y, c)
    BY <1>2, <1>5, <1>12, <1>14, <1>18 DEF Out
  <2>2. ASSUME NEW x PROVE x \in SmallBlocks(g) <=> x \in SmallBlocks(h)
    <3>1. x \in SmallBlocks(g) <=> \E y, c : Out(g, y, c) /\ x = ChunkAt(y, h.zone[y].size, c)
      BY <1>14, SmallIs
    <3>2. x \in SmallBlocks(h) <=> \E y, c : Out(h, y, c) /\ x = ChunkAt(y, h.zone[y].size, c)
      BY SmallIs
    <3> QED
      BY <2>1, <3>1, <3>2
  <2> QED
    BY <2>2
<1> QED
  BY <1>7, <1>18, <1>20, <1>21, <1>22, <1>23, <1>24, <1>25 DEF HeapOK, ZonesOK

-----------------------------------------------------------------------------
(* Large blocks, and the heap at the start.                                *)

\* A run that was in hand is a large block.
LEMMA LargeOK ==
    ASSUME NEW h, NEW H, HeapOK(h, H), NEW p, NEW n, NEW r, r = Run(p, n), r \in H,
           NEW g, g = Large(h, p, n)
    PROVE  /\ HeapOK(g, H \ {r}) /\ SmallBlocks(g) = SmallBlocks(h)
           /\ LargeBlocks(g) = LargeBlocks(h) \cup {p} /\ p \notin LargeBlocks(h)
           /\ p \in Nat \ {0}
<1>1. h \in HeapState /\ Tiling(Tiles(h, H)) /\ H \subseteq Runs /\ PageList(h.page_list)
  BY DEF HeapOK, PagesOK
<1>2. p \in Nat \ {0} /\ n \in Nat \ {0} /\ p \in PagesIn(r)
  BY <1>1, RunIs, RunOf
<1>3. /\ p \in PageNo /\ p \notin Zones(h) /\ p \notin LargeBlocks(h)
      /\ \A z \in Zones(h) : p \notin PagesOf(z)
  BY <1>1, <1>2, HeldApart
<1>4. PICK u : u = [type |-> "large", size |-> n]
  OBVIOUS
<1>5. u \in Usage /\ u.type = "large" /\ u.size = n
  BY <1>2, <1>4 DEF Usage
<1>6. PICK K : K = [h.kup EXCEPT ![p] = u]
  OBVIOUS
<1>7. /\ K \in [PageNo -> Usage] /\ K[p] = u
      /\ \A q \in PageNo \ {p} : K[q] = h.kup[q]
  BY <1>1, <1>3, <1>5, <1>6, HeapFields
<1>8. g = HeapBy(h, K, h.zone, h.zone_array, h.zone_free)
  BY <1>1, <1>4, <1>6 DEF HeapState, HeapBy, Large
<1>9. /\ g \in HeapState /\ g.page_list = h.page_list /\ g.kup = K /\ g.zone = h.zone
      /\ g.zone_array = h.zone_array /\ g.zone_free = h.zone_free
  <2>1. h.zone \in [PageNo -> Header] /\ h.zone_array \in [ChunkSize -> Seq(Nat)]
        /\ h.zone_free \in Seq(Nat)
    BY <1>1, HeapFields
  <2>2. IsHeap(g, h, K, h.zone, h.zone_array, h.zone_free)
    BY <1>1, <1>7, <1>8, <2>1, HeapIs
  <2> QED
    BY <2>2 DEF IsHeap
<1>10. p \notin Zones(g) /\ p \in LargeBlocks(g)
  <2>1. n > 0
    BY <1>2
  <2> QED
    BY <1>3, <1>5, <1>7, <1>9, <2>1 DEF Zones, LargeBlocks
<1>11. ASSUME NEW q \in PageNo, q # p
       PROVE  (q \in Zones(g) <=> q \in Zones(h)) /\ (q \in LargeBlocks(g) <=> q \in LargeBlocks(h))
  BY <1>7, <1>9, <1>11 DEF Zones, LargeBlocks
<1>12. Zones(g) = Zones(h) /\ LargeBlocks(g) = LargeBlocks(h) \cup {p}
  <2>1. Zones(g) \subseteq PageNo /\ Zones(h) \subseteq PageNo
        /\ LargeBlocks(g) \subseteq PageNo /\ LargeBlocks(h) \subseteq PageNo
    BY ZonesAre
  <2> QED
    BY <1>3, <1>10, <1>11, <2>1
<1>13. \A q \in LargeBlocks(h) : g.kup[q] = h.kup[q]
  BY <1>3, <1>7, <1>9, ZonesAre
<1>14. PICK w : w = <<"held", r>>
  OBVIOUS
<1>15. PICK v : v = <<"large", r>>
  OBVIOUS
<1>16. w \in Tiles(h, H) /\ v[2] = w[2] /\ w \notin OtherTiles(h)
  BY <1>14, <1>15, TilesAre DEF Tiles
<1>17. OtherTiles(g) = OtherTiles(h) \cup {v}
  <2>1. g.kup[p].size = n
    BY <1>5, <1>7, <1>9
  <2> DEFINE A == {<<"zone", Run(y, zone_page_cnt)>> : y \in Zones(h)}
             B == {<<"large", Run(q, h.kup[q].size)>> : q \in LargeBlocks(h)}
             C == {<<"large", Run(q, g.kup[q].size)>> : q \in LargeBlocks(h) \cup {p}}
  <2>2. C = B \cup {v}
    BY <1>13, <1>15, <2>1
  <2>3. OtherTiles(h) = A \cup B /\ OtherTiles(g) = A \cup C
    BY <1>12 DEF OtherTiles
  <2> HIDE DEF A, B, C
  <2> QED
    BY <2>2, <2>3
<1> DEFINE A == {<<"free", x>> : x \in Range(h.page_list)}
           B == {<<"held", x>> : x \in H}
           C == {<<"held", x>> : x \in H \ {r}}
<1>18. C = B \ {w} /\ w \notin A
  BY <1>14
<1>19. Tiles(h, H) = A \cup OtherTiles(h) \cup B /\ Tiles(g, H \ {r}) = A \cup OtherTiles(g) \cup C
  BY <1>9 DEF Tiles, OtherTiles
<1> HIDE DEF A, B, C
<1>20. Tiles(g, H \ {r}) = (Tiles(h, H) \ {w}) \cup {v}
  BY <1>16, <1>17, <1>18, <1>19
<1>21. PICK T : T = Tiles(h, H)
  OBVIOUS
<1>22. Tiling((T \ {w}) \cup {v})
  <2>1. Tiling(T) /\ w \in T /\ v[2] = w[2]
    BY <1>1, <1>16, <1>21
  <2> QED
    BY <2>1, OneTile
<1>23. PICK G : G = H \ {r}
  OBVIOUS
<1>24. PagesOK(g, G)
  BY <1>1, <1>9, <1>20, <1>21, <1>22, <1>23 DEF PagesOK
<1>25. SameZoneUse(g, h)
  <2>1. ASSUME NEW z \in Zones(h), NEW q \in PagesOf(z) PROVE g.kup[q] = h.kup[q]
    BY <1>1, <1>3, <1>7, <1>9, ZonePages
  <2> QED
    BY <1>9, <1>12, <2>1 DEF SameZoneUse
<1>26. HeapOK(g, G) /\ SmallBlocks(g) = SmallBlocks(h)
  BY <1>24, <1>25, ZonesKept
<1> QED
  BY <1>2, <1>3, <1>12, <1>23, <1>26

\* rt_free of a large block: its pages are in hand.
LEMMA LargeFreedOK ==
    ASSUME NEW h, NEW H, HeapOK(h, H), NEW p \in LargeBlocks(h),
           NEW r, r = Run(p, h.kup[p].size), NEW g, g = LargeFreed(h, p)
    PROVE  /\ HeapOK(g, H \cup {r}) /\ r \in Runs /\ r \notin H
           /\ SmallBlocks(g) = SmallBlocks(h) /\ LargeBlocks(g) = LargeBlocks(h) \ {p}
<1>1. h \in HeapState /\ Tiling(Tiles(h, H)) /\ H \subseteq Runs /\ PageList(h.page_list)
  BY DEF HeapOK, PagesOK
<1>2. p \in Nat \ {0} /\ p \in PageNo /\ p \notin Zones(h)
  BY ZonesAre
<1>3. h.kup[p] \in Usage /\ h.kup[p].type = "large" /\ h.kup[p].size \in Nat \ {0}
  BY <1>1, <1>2 DEF HeapState, Usage, LargeBlocks
<1>4. r \in Runs /\ p \in PagesIn(r)
  BY <1>2, <1>3, RunIs, RunOf
<1>5. PICK u : u = [h.kup[p] EXCEPT !.size = 0]
  OBVIOUS
<1>6. u \in Usage /\ u.type = "large" /\ u.size = 0
  BY <1>3, <1>5 DEF Usage
<1>7. PICK K : K = [h.kup EXCEPT ![p] = u]
  OBVIOUS
<1>8. /\ K \in [PageNo -> Usage] /\ K[p] = u
      /\ \A q \in PageNo \ {p} : K[q] = h.kup[q]
  BY <1>1, <1>2, <1>6, <1>7, HeapFields
<1>9. g = HeapBy(h, K, h.zone, h.zone_array, h.zone_free)
  BY <1>1, <1>5, <1>7 DEF HeapState, HeapBy, LargeFreed
<1>10. /\ g \in HeapState /\ g.page_list = h.page_list /\ g.kup = K /\ g.zone = h.zone
       /\ g.zone_array = h.zone_array /\ g.zone_free = h.zone_free
  <2>1. h.zone \in [PageNo -> Header] /\ h.zone_array \in [ChunkSize -> Seq(Nat)]
        /\ h.zone_free \in Seq(Nat)
    BY <1>1, HeapFields
  <2>2. IsHeap(g, h, K, h.zone, h.zone_array, h.zone_free)
    BY <1>1, <1>8, <1>9, <2>1, HeapIs
  <2> QED
    BY <2>2 DEF IsHeap
<1>11. p \notin Zones(g) /\ p \notin LargeBlocks(g)
  BY <1>6, <1>8, <1>10 DEF Zones, LargeBlocks
<1>12. ASSUME NEW q \in PageNo, q # p
       PROVE  (q \in Zones(g) <=> q \in Zones(h)) /\ (q \in LargeBlocks(g) <=> q \in LargeBlocks(h))
  BY <1>8, <1>10, <1>12 DEF Zones, LargeBlocks
<1>13. Zones(g) = Zones(h) /\ LargeBlocks(g) = LargeBlocks(h) \ {p}
  <2>1. Zones(g) \subseteq PageNo /\ Zones(h) \subseteq PageNo
        /\ LargeBlocks(g) \subseteq PageNo /\ LargeBlocks(h) \subseteq PageNo
    BY ZonesAre
  <2> QED
    BY <1>2, <1>11, <1>12, <2>1
<1>14. PICK w : w = <<"held", r>>
  OBVIOUS
<1>15. PICK v : v = <<"large", r>>
  OBVIOUS
<1>16. v \in Tiles(h, H) /\ v[2] = r /\ w[2] = r /\ v # w
  BY <1>14, <1>15 DEF Tiles
<1>17. r \notin H
  <2> SUFFICES ASSUME r \in H PROVE FALSE
    OBVIOUS
  <2>1. w \in Tiles(h, H)
    BY <1>14 DEF Tiles
  <2>2. PagesIn(w[2]) \cap PagesIn(v[2]) = {}
    BY <1>1, <1>16, <2>1 DEF Tiling
  <2> QED
    BY <1>4, <1>16, <2>2
<1>18. OtherTiles(g) = OtherTiles(h) \ {v}
  <2> DEFINE A == {<<"zone", Run(y, zone_page_cnt)>> : y \in Zones(h)}
             B == {<<"large", Run(q, h.kup[q].size)>> : q \in LargeBlocks(h)}
             C == {<<"large", Run(q, g.kup[q].size)>> : q \in LargeBlocks(h) \ {p}}
  <2>1. v \notin A
    BY <1>15
  <2>2. \A q \in LargeBlocks(h) : v = <<"large", Run(q, h.kup[q].size)>> <=> q = p
    BY <1>15, RunIs
  <2>3. \A q \in LargeBlocks(h) \ {p} : g.kup[q].size = h.kup[q].size
    BY <1>8, <1>10, ZonesAre
  <2>4. C = B \ {v}
    BY <2>2, <2>3
  <2>5. OtherTiles(h) = A \cup B /\ OtherTiles(g) = A \cup C
    BY <1>13 DEF OtherTiles
  <2> HIDE DEF A, B, C
  <2> QED
    BY <2>1, <2>4, <2>5
<1> DEFINE A == {<<"free", x>> : x \in Range(h.page_list)}
           B == {<<"held", x>> : x \in H}
           C == {<<"held", x>> : x \in H \cup {r}}
<1>19. C = B \cup {w} /\ v \notin A /\ v \notin B
  BY <1>14, <1>15
<1>20. Tiles(h, H) = A \cup OtherTiles(h) \cup B /\ Tiles(g, H \cup {r}) = A \cup OtherTiles(g) \cup C
  BY <1>10 DEF Tiles, OtherTiles
<1> HIDE DEF A, B, C
<1>21. Tiles(g, H \cup {r}) = (Tiles(h, H) \ {v}) \cup {w}
  BY <1>18, <1>19, <1>20
<1>22. PICK T : T = Tiles(h, H)
  OBVIOUS
<1>23. Tiling((T \ {v}) \cup {w})
  <2>1. Tiling(T) /\ v \in T /\ w[2] = v[2]
    BY <1>1, <1>16, <1>22
  <2> QED
    BY <2>1, OneTile
<1>24. PICK G : G = H \cup {r}
  OBVIOUS
<1>25. PagesOK(g, G)
  BY <1>1, <1>4, <1>10, <1>21, <1>22, <1>23, <1>24 DEF PagesOK
<1>26. SameZoneUse(g, h)
  <2>1. ASSUME NEW z \in Zones(h), NEW q \in PagesOf(z) PROVE g.kup[q] = h.kup[q]
    BY <1>1, <1>8, <1>10, ZonePages, LargeApart
  <2> QED
    BY <1>10, <1>13, <2>1 DEF SameZoneUse
<1>27. HeapOK(g, G) /\ SmallBlocks(g) = SmallBlocks(h)
  BY <1>25, <1>26, ZonesKept
<1> QED
  BY <1>4, <1>13, <1>17, <1>24, <1>27

\* All pages are free at first.
LEMMA HeapInitOK ==
    /\ HeapOK(HeapInit, {}) /\ SmallBlocks(HeapInit) = {} /\ LargeBlocks(HeapInit) = {}
    /\ HeapInit.page_list = <<Run(1, Pages)>>
<1>1. PICK h : h = HeapInit
  OBVIOUS
<1>2. /\ h.page_list = <<Run(1, Pages)>> /\ h.kup = [p \in PageNo |-> FREE]
      /\ h.zone = [p \in PageNo |-> NoZone] /\ h.zone_array = [s \in ChunkSize |-> <<>>]
      /\ h.zone_free = <<>>
  BY <1>1 DEF HeapInit
<1>3. PICK r \in Runs : r = Run(1, Pages)
  BY SlabAssumption, RunIs
<1>4. <<r>> \in Seq(Runs) /\ Len(<<r>>) = 1 /\ <<r>>[1] = r
  OBVIOUS
<1>5. PageList(h.page_list)
  BY <1>2, <1>3, <1>4 DEF PageList, Gapped
<1>6. FREE \in Usage /\ NoZone \in Header /\ FREE.type = "free"
  BY DEF FREE, Usage, NoZone, Header
<1>7. h \in HeapState
  BY <1>1, <1>3, <1>4, <1>6 DEF HeapInit, HeapState
<1>8. Zones(h) = {} /\ LargeBlocks(h) = {}
  BY <1>2, <1>6 DEF Zones, LargeBlocks
<1>9. PICK x : x = <<"free", r>>
  OBVIOUS
<1>10. Tiles(h, {}) = {x}
  <2>1. Range(h.page_list) = {r}
    <3>1. \A y : y \in Range(<<r>>) <=> \E i \in 1 .. Len(<<r>>) : <<r>>[i] = y
      BY <1>4, RangeIs
    <3> QED
      BY <1>2, <1>3, <1>4, <3>1
  <2> QED
    BY <1>8, <1>9, <2>1 DEF Tiles
<1>11. PagesIn(r) = PageNo
  BY <1>3, SlabAssumption DEF PagesIn, PageNo, Run, After
<1>12. Tiling({x})
  BY <1>9, <1>11 DEF Tiling
<1>13. PagesOK(h, {})
  BY <1>5, <1>7, <1>10, <1>12 DEF PagesOK
<1>14. IsInjective(<<>>) /\ \A z : ~Contains(<<>>, z)
  BY DEF IsInjective, Contains
<1>15. ZonesOK(h)
  BY <1>2, <1>8, <1>14 DEF ZonesOK, ListOK, FreeZonesOK
<1>16. SmallBlocks(h) = {}
  BY <1>8 DEF SmallBlocks
<1> QED
  BY <1>1, <1>2, <1>8, <1>13, <1>15, <1>16 DEF HeapOK

\* From the only free run.
LEMMA AllocFromOne ==
    ASSUME NEW h \in HeapState, NEW p \in Nat \ {0}, NEW m \in Nat \ {0},
           h.page_list = <<Run(p, m)>>, NEW n \in Nat \ {0}, n <= m
    PROVE  /\ Fits(h, n) # {} /\ PageFound(h, n) = p
           /\ n < m => rt_page_alloc(h, n).page_list = <<Run(p + n, m - n)>>
<1>1. PICK r \in Runs : r = Run(p, m) /\ r.start = p /\ r.page = m
  BY RunIs
<1>2. h.page_list = <<r>> /\ <<r>>[1] = r /\ DOMAIN <<r>> = {1}
  BY <1>1
<1>3. Fits(h, n) = {1}
  BY <1>1, <1>2 DEF Fits
<1>4. FirstFit(h, n) = 1
  BY <1>3 DEF FirstFit
<1>5. PageFound(h, n) = p
  BY <1>1, <1>2, <1>3, <1>4 DEF PageFound
<1>6. ASSUME n < m PROVE rt_page_alloc(h, n).page_list = <<Run(p + n, m - n)>>
  <2>1. rt_page_alloc(h, n) = [h EXCEPT !.page_list = [@ EXCEPT ![1] = Run(p + n, m - n)]]
    BY <1>1, <1>2, <1>3, <1>4, <1>6 DEF rt_page_alloc
  <2>2. [<<r>> EXCEPT ![1] = Run(p + n, m - n)] = <<Run(p + n, m - n)>>
    OBVIOUS
  <2> QED
    BY <1>2, <2>1, <2>2 DEF HeapState
<1> QED
  BY <1>3, <1>5, <1>6
=============================================================================
