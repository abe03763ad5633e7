-------------------------------- MODULE Pager -------------------------------
(***************************************************************************)
(* fluid.pager (MyInfusion.js): a table of records cut into pages, with a  *)
(* bar of page links, a choice of page sizes and sortable columns.  Every  *)
(* event computes a new model and hands it to fireModelChange, which sorts *)
(* the records anew and draws the rows and the bar.                        *)
(***************************************************************************)
EXTENDS Integers, Sequences, FiniteSets, SequencesExt

CONSTANTS
  MaxRange,   \* bound: records in the data model
  PageSizes,  \* the choices of the page size menu
  Column,     \* sortable columns
  Value,      \* Value[c][i]: what record i has in column c
  Locality,   \* pages kept at the ends of the bar, 3 in pagerBar
  MidLocality,\* pages kept around the current one, 1 in pagerBar
  None

RangeAssumption == MaxRange \in Nat /\ PageSizes \subseteq Nat \ {0}
LocalityAssumption == Locality \in Nat \ {0} /\ MidLocality \in Nat \ {0}
ValueAssumption == Value \in [Column -> [0 .. MaxRange - 1 -> Int]]

VARIABLES
  model,        \* the pager model: see Model
  permutation,  \* the order the sorter found, None without a sorted column
  rows,         \* the records drawn in the body, in order
  bar,          \* the page bar: its strategy, links and gaps, ranges, previous, next
  seen          \* history: what the pages drawn since the last change of
                \* order or page size showed

vars == <<model, permutation, rows, bar, seen>>

MinOf(a, b) == IF a < b THEN a ELSE b
MaxOf(a, b) == IF a > b THEN a ELSE b

ComputePageCount(m) == MaxOf(1, ((m.totalRange - 1) \div m.pageSize) + 1)
ComputePageLimit(m, page) == MinOf(m.totalRange, (page + 1) * m.pageSize)

(***************************************************************************)
(* basicSorter: an order of the records by the values of the column, the   *)
(* same one every time it is asked with the same model.                    *)
(***************************************************************************)
Key(m, i) == m.sortDir * Value[m.sortKey][i]
Before(m, i, j) == Key(m, i) < Key(m, j) \/ (Key(m, i) = Key(m, j) /\ i < j)
BasicSorter(m) ==
  SortSeq([k \in 1 .. m.totalRange |-> k - 1], LAMBDA i, j : Before(m, i, j))

(* directModelFilter: the records of one page, in the order of the sorter. *)
DirectModelFilter(m, perm, page) ==
  LET first == page * m.pageSize
      index(i) == IF perm = None THEN i ELSE perm[i + 1]
  IN  [k \in 1 .. MaxOf(0, ComputePageLimit(m, page) - first) |-> index(first + k - 1)]

(***************************************************************************)
(* gappedPageStrategy(Locality, MidLocality): the ends, what is near the   *)
(* current page, and one gap, -1, for every run of other pages.            *)
(***************************************************************************)
Kept(count, mid) ==
  {p \in 0 .. count - 1 : \/ p < Locality
                          \/ count - p - 1 < Locality
                          \/ p \in mid - MidLocality .. mid + MidLocality}

WithGaps(count, kept) ==
  LET all   == [i \in 1 .. count |-> i - 1]
      drawn == SelectSeq(all, LAMBDA p : p = 0 \/ {p - 1, p} \cap kept # {})
  IN  [i \in DOMAIN drawn |-> IF drawn[i] \in kept THEN drawn[i] ELSE -1]

GappedPageStrategy(count, mid) == WithGaps(count, Kept(count, mid))

(* consistentGappedPageStrategy: near an end that end is drawn wider.      *)
ConsistentGappedPageStrategy(count, mid) ==
  LET endWidth         == Locality + 2 + MidLocality
      anchoredEndWidth == endWidth + MidLocality
  IN  WithGaps(count, {p \in 0 .. count - 1 :
         \/ p < Locality \/ count - p <= Locality
         \/ mid < endWidth /\ p < anchoredEndWidth
         \/ mid >= count - endWidth /\ p >= count - anchoredEndWidth
         \/ p \in mid - MidLocality .. mid + MidLocality})

(* rangeAnnotator: the first and last record of every page with a link.    *)
RangeAnnotator(m, perm, page) ==
  LET index(i) == IF perm = None THEN i ELSE perm[i + 1]
  IN  <<index(page * m.pageSize), index(ComputePageLimit(m, page) - 1)>>

(* The page list, and the previous and next links.                         *)
PagerBar(m, perm, consistent) ==
  LET pages == IF consistent THEN ConsistentGappedPageStrategy(m.pageCount, m.pageIndex)
               ELSE GappedPageStrategy(m.pageCount, m.pageIndex)
  IN  [consistent |-> consistent,
       pages    |-> pages,
       range    |-> [p \in (ToSet(pages) \ {-1, m.pageIndex}) |-> RangeAnnotator(m, perm, p)],
       previous |-> m.pageIndex # 0,
       next     |-> m.pageIndex # m.pageCount - 1]

Clamped(m) ==
  LET counted == [m EXCEPT !.pageCount = ComputePageCount(m)]
  IN  IF counted.pageIndex >= counted.pageCount
      THEN [counted EXCEPT !.pageIndex = counted.pageCount - 1] ELSE counted

Permutation(m) == IF m.sortKey \in Column THEN BasicSorter(m) ELSE None

SameOrder(m) == /\ m.pageSize = model.pageSize
                /\ m.sortKey = model.sortKey
                /\ m.sortDir = model.sortDir

(* The listeners of onModelChange draw the body and the bars.              *)
OnModelChange(m) ==
  /\ rows' = DirectModelFilter(m, permutation', m.pageIndex)
  /\ bar' = PagerBar(m, permutation', bar.consistent)

FireModelChange(newModel, forceUpdate) ==
  LET m == Clamped(newModel)
  IN  IF forceUpdate \/ m.pageIndex # model.pageIndex \/ ~SameOrder(m)
      THEN /\ permutation' = Permutation(m)
           /\ model' = m
           /\ OnModelChange(m)
           /\ seen' = [p \in 0 .. m.pageCount - 1 |->
                         IF p = m.pageIndex THEN ToSet(rows')
                         ELSE IF SameOrder(m) THEN seen[p] ELSE {}]
      ELSE UNCHANGED vars

(* pagerImpl: the configured model, its range taken from the data model,   *)
(* and a forced change to the configured page.                             *)
Configured ==
  [pageIndex : {0, 1}, pageSize : PageSizes, totalRange : 0 .. MaxRange,
   pageCount : {0}, sortKey : Column \cup {None}, sortDir : {1, -1}]

Init ==
  \E m \in {Clamped(c) : c \in Configured} :
    /\ model = m
    /\ permutation = Permutation(m)
    /\ rows = DirectModelFilter(m, permutation, m.pageIndex)
    /\ \E consistent \in BOOLEAN : bar = PagerBar(m, permutation, consistent)
    /\ seen = [p \in 0 .. m.pageCount - 1 |->
                 IF p = m.pageIndex THEN ToSet(rows) ELSE {}]

(* initiatePageChange by a page link of the bar.                           *)
ClickPage(page) ==
  /\ Contains(bar.pages, page) /\ page # -1
  /\ FireModelChange([model EXCEPT !.pageIndex = page], FALSE)

(* Previous and next: drawn as disabled at the ends, but still bound.      *)
ClickRelative(step) ==
  FireModelChange([model EXCEPT !.pageIndex = MaxOf(0, @ + step)], FALSE)

InitiatePageSizeChange(size) ==
  FireModelChange([model EXCEPT !.pageSize = size], FALSE)

(* generateColumnClick: another column ascending, the same one turned      *)
(* round; either way from the first page.                                  *)
ColumnClick(c) ==
  LET dir == IF c = model.sortKey THEN -model.sortDir ELSE 1
  IN  FireModelChange([model EXCEPT !.sortKey = c, !.sortDir = dir, !.pageIndex = 0], TRUE)

Next ==
  \/ \E page \in 0 .. MaxRange : ClickPage(page)
  \/ \E step \in {-1, 1} : ClickRelative(step)
  \/ \E size \in PageSizes : InitiatePageSizeChange(size)
  \/ \E c \in Column : ColumnClick(c)

Spec == Init /\ [][Next]_vars

-----------------------------------------------------------------------------
Model == [pageIndex : Nat, pageSize : PageSizes, totalRange : 0 .. MaxRange,
          pageCount : Nat \ {0}, sortKey : Column \cup {None}, sortDir : {1, -1}]
TypeOK ==
  /\ model \in Model /\ model.pageIndex < model.pageCount
  /\ rows \in Seq(0 .. model.totalRange - 1)
  /\ bar.pages \in Seq(-1 .. model.pageCount - 1)

(* However the pages were turned since the records were last ordered, no   *)
(* record was shown on two pages, and once every page was shown so was     *)
(* every record: the order is found anew for each page and never differs.  *)
PagesTile ==
  LET turned == {p \in DOMAIN seen : seen[p] # {}}
  IN  /\ \A p, q \in turned : p # q => seen[p] \cap seen[q] = {}
      /\ turned = DOMAIN seen => UNION {seen[p] : p \in turned} = 0 .. model.totalRange - 1
      /\ model.totalRange > 0 => rows # <<>>

(* The bar shows the first, the last, the current page and its neighbours, *)
(* with single gaps between, and under the consistent strategy as many     *)
(* links on every page once there is anything to leave out; its previous   *)
(* and next links tell what they will do; the rows are in the order of the *)
(* column.                                                                 *)
BarServes ==
  /\ {0, model.pageCount - 1} \cup
       ((model.pageIndex - 1 .. model.pageIndex + 1) \cap DOMAIN seen) \subseteq ToSet(bar.pages)
  /\ \A i \in DOMAIN bar.pages \ {1} :
       IF bar.pages[i] = -1 THEN bar.pages[i - 1] # -1
       ELSE IF bar.pages[i - 1] = -1 THEN bar.pages[i] > bar.pages[i - 2] + 1
       ELSE bar.pages[i] = bar.pages[i - 1] + 1
  /\ LET width == 2 * Locality + 2 * MidLocality + 3
     IN  bar.consistent => Len(bar.pages) = MinOf(model.pageCount, width)
  /\ bar.previous <=> model.pageIndex > 0
  /\ bar.next <=> model.pageIndex < model.pageCount - 1
  /\ model.sortKey \in Column =>
       \A i, j \in DOMAIN rows : i < j => Key(model, rows[i]) <= Key(model, rows[j])

(* A page turned to begins and ends with the records its link announced.   *)
RangesHold ==
  \A p \in DOMAIN bar.range :
    model'.pageIndex = p /\ SameOrder(model') =>
      <<Head(rows'), Last(rows')>> = bar.range[p]
=============================================================================
