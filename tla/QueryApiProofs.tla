--------------------------- MODULE QueryApiProofs ---------------------------
(***************************************************************************)
(* Proofs about QueryApi: a walk by cursors over a listing neither repeats *)
(* nor skips a row, for any rows, limits and number of pages, whatever is  *)
(* inserted and deleted between them.                                      *)
(***************************************************************************)
EXTENDS QueryApi, SearchTextProofs, FiniteSetTheorems

-----------------------------------------------------------------------------
(* The order of a listing.                                                 *)

\* What the order of a listing reads of a row.
IsRow(list, r) ==
  /\ r.id \in Nat
  /\ list \in {"sessions", "audit"} => r.ts \in Nat
  /\ list = "entries" => r.ts \in Nat \cup {Null}

\* The rows of one table: finitely many, told apart by their ids.
IsTable(list, rows) == /\ IsFiniteSet(rows)
                       /\ \A r \in rows : IsRow(list, r)
                       /\ \A a, b \in rows : a.id = b.id => a = b

(* Every listing is in a strict order, and its ids break the ties. *)
LEMMA Ordered ==
  ASSUME NEW w, w.list \in Listings,
         NEW a, NEW b, NEW c, IsRow(w.list, a), IsRow(w.list, b), IsRow(w.list, c)
  PROVE  /\ ~Before(w, a, a)
         /\ Before(w, a, b) /\ Before(w, b, c) => Before(w, a, c)
         /\ a.id # b.id => Before(w, a, b) \/ Before(w, b, a)
<1>0. Null \notin Nat /\ a.id \in Nat /\ b.id \in Nat /\ c.id \in Nat
    BY QueryAssumption DEF IsRow
<1>1. CASE w.list \in {"devices", "files"}
  <2>1. \A x, y : Before(w, x, y) <=> x.id < y.id
      BY <1>1 DEF Before
  <2> QED BY <1>0, <2>1
<1>2. CASE w.list \in {"sessions", "audit"}
  <2>1. \A x, y : Before(w, x, y) <=> NewestFirst(x, y)
      BY <1>2 DEF Before
  <2>2. a.ts \in Nat /\ b.ts \in Nat /\ c.ts \in Nat
      BY <1>2 DEF IsRow
  <2>3. /\ ~NewestFirst(a, a)
        /\ NewestFirst(a, b) /\ NewestFirst(b, c) => NewestFirst(a, c)
        /\ a.id # b.id => NewestFirst(a, b) \/ NewestFirst(b, a)
      BY <1>0, <2>2 DEF NewestFirst
  <2> QED BY <2>1, <2>3
<1>3. CASE w.list = "entries"
  <2>1. \A x, y : Before(w, x, y) <=> EntryBefore(x, y)
      BY <1>3 DEF Before
  <2>2. a.ts \in Nat \cup {Null} /\ b.ts \in Nat \cup {Null} /\ c.ts \in Nat \cup {Null}
      BY <1>3 DEF IsRow
  <2>3. /\ ~EntryBefore(a, a)
        /\ EntryBefore(a, b) /\ EntryBefore(b, c) => EntryBefore(a, c)
        /\ a.id # b.id => EntryBefore(a, b) \/ EntryBefore(b, a)
      BY <1>0, <2>2 DEF EntryBefore
  <2> QED BY <2>1, <2>3
<1> QED BY <1>1, <1>2, <1>3 DEF Listings

(* Its order is all that a walk's position decides. *)
LEMMA SameOrder ==
  ASSUME NEW w, NEW v, w.list = v.list, NEW a, NEW b
  PROVE  Before(w, a, b) = Before(v, a, b)
BY DEF Before

Rank(w, rows, r) == Cardinality({x \in rows : Before(w, x, r)})

(* The rows of a listing have the ranks from zero up, each one once. *)
LEMMA Ranked ==
  ASSUME NEW w, w.list \in Listings, NEW rows, IsTable(w.list, rows)
  PROVE  /\ Cardinality(rows) \in Nat
         /\ \A r \in rows : Rank(w, rows, r) \in 0 .. Cardinality(rows) - 1
         /\ \A a, b \in rows : /\ Before(w, a, b) <=> Rank(w, rows, a) < Rank(w, rows, b)
                               /\ Rank(w, rows, a) = Rank(w, rows, b) => a = b
         /\ \A i \in 0 .. Cardinality(rows) - 1 : \E r \in rows : Rank(w, rows, r) = i
<1> DEFINE Below(r) == {x \in rows : Before(w, x, r)}
<1>1. IsFiniteSet(rows) /\ Cardinality(rows) \in Nat
    BY FS_CardinalityType DEF IsTable
<1>2. ASSUME NEW r \in rows
      PROVE  IsFiniteSet(Below(r)) /\ Rank(w, rows, r) \in 0 .. Cardinality(rows) - 1
  <2>1. r \notin Below(r)
      BY Ordered DEF IsTable
  <2>2. Below(r) \in SUBSET (rows \ {r})
      BY <2>1
  <2>3. IsFiniteSet(rows \ {r}) /\ Cardinality(rows \ {r}) = Cardinality(rows) - 1
      BY <1>1, FS_RemoveElement
  <2>4. IsFiniteSet(Below(r)) /\ Cardinality(Below(r)) <= Cardinality(rows \ {r})
    <3> HIDE DEF Below
    <3> QED BY <2>2, <2>3, FS_Subset
  <2>5. Cardinality(Below(r)) \in Nat
    <3> HIDE DEF Below
    <3> QED BY <2>4, FS_CardinalityType
  <2>6. Rank(w, rows, r) = Cardinality(Below(r))
      BY DEF Rank
  <2> HIDE DEF Below
  <2> QED BY <1>1, <2>3, <2>4, <2>5, <2>6
<1>a. \A r \in rows : Rank(w, rows, r) \in Nat
  <2> HIDE DEF Below
  <2> QED BY <1>1, <1>2
<1>3. ASSUME NEW a \in rows, NEW b \in rows, Before(w, a, b)
      PROVE  Rank(w, rows, a) < Rank(w, rows, b)
  <2>1. Below(a) \in SUBSET Below(b) /\ a \in Below(b) /\ a \notin Below(a)
      BY <1>3, Ordered DEF IsTable
  <2>2. Rank(w, rows, a) = Cardinality(Below(a)) /\ Rank(w, rows, b) = Cardinality(Below(b))
      BY DEF Rank
  <2>3. IsFiniteSet(Below(b))
      BY <1>2
  <2>4. Rank(w, rows, a) \in Nat /\ Rank(w, rows, b) \in Nat
      BY <1>a, Zenon
  <2> HIDE DEF Below
  <2>5. Cardinality(Below(a)) <= Cardinality(Below(b)) /\ Cardinality(Below(a)) # Cardinality(Below(b))
      BY <2>1, <2>3, FS_Subset
  <2> QED BY <2>2, <2>4, <2>5
<1>4. ASSUME NEW a \in rows, NEW b \in rows
      PROVE  /\ Before(w, a, b) <=> Rank(w, rows, a) < Rank(w, rows, b)
             /\ Rank(w, rows, a) = Rank(w, rows, b) => a = b
  <2>1. Rank(w, rows, a) \in Nat /\ Rank(w, rows, b) \in Nat
      BY <1>a, Zenon
  <2>2. a = b \/ Before(w, a, b) \/ Before(w, b, a)
      BY Ordered DEF IsTable
  <2>3. a = b => ~Before(w, a, b)
      BY Ordered DEF IsTable
  <2>4. /\ Before(w, a, b) => Rank(w, rows, a) < Rank(w, rows, b)
        /\ Before(w, b, a) => Rank(w, rows, b) < Rank(w, rows, a)
      BY <1>3
  <2> QED BY <2>1, <2>2, <2>3, <2>4
<1>5. \A i \in 0 .. Cardinality(rows) - 1 : \E r \in rows : Rank(w, rows, r) = i
  <2> DEFINE T == 0 .. Cardinality(rows) - 1
             f == [r \in rows |-> Rank(w, rows, r)]
  <2>1. f \in Injection(rows, T)
    <3>1. f \in [rows -> T] /\ \A a, b \in rows : f[a] = f[b] => a = b
        BY <1>2, <1>4
    <3> QED BY <3>1 DEF Injection, IsInjective
  <2>2. IsFiniteSet(T) /\ Cardinality(T) = Cardinality(rows)
    <3>1. 0 \in Int /\ Cardinality(rows) - 1 \in Int
        BY <1>1
    <3>2. IsFiniteSet(T) /\ Cardinality(T) = IF 0 > Cardinality(rows) - 1 THEN 0
                                             ELSE (Cardinality(rows) - 1) - 0 + 1
        BY <3>1, FS_Interval
    <3> HIDE DEF T
    <3> QED BY <1>1, <3>2
  <2>3. f \in Surjection(rows, T)
    <3> HIDE DEF f, T
    <3> QED BY <2>1, <2>2, FS_Injection
  <2>4. \A i \in T : \E r \in rows : f[r] = i
      BY <2>3 DEF Surjection
  <2> QED BY <2>4
<1> QED BY <1>1, <1>2, <1>4, <1>5

-----------------------------------------------------------------------------
(* One page.                                                               *)

(* LIMIT n: the first n rows behind the cursor, in order. *)
LEMMA Selected ==
  ASSUME NEW w, w.list \in Listings, IsTable(w.list, RowsAfter(w)), NEW n \in Nat,
         NEW sel, sel = Select(w, n)
  PROVE  /\ sel \in Seq(RowsAfter(w)) /\ Len(sel) <= StoreLimit(w, n)
         /\ \A i, j \in 1 .. Len(sel) : i < j => Before(w, sel[i], sel[j])
         /\ \A r \in RowsAfter(w) :
              \/ \E i \in 1 .. Len(sel) : sel[i] = r
              \/ Len(sel) = StoreLimit(w, n) /\ \A i \in 1 .. Len(sel) : Before(w, sel[i], r)
<1>0. PICK rows : rows = RowsAfter(w)
    OBVIOUS
<1>1. /\ Cardinality(rows) \in Nat
      /\ \A r \in rows : Rank(w, rows, r) \in 0 .. Cardinality(rows) - 1
      /\ \A a, b \in rows : /\ Before(w, a, b) <=> Rank(w, rows, a) < Rank(w, rows, b)
                            /\ Rank(w, rows, a) = Rank(w, rows, b) => a = b
      /\ \A i \in 0 .. Cardinality(rows) - 1 : \E r \in rows : Rank(w, rows, r) = i
  <2>1. IsTable(w.list, rows)
      BY <1>0
  <2> QED BY <2>1, Ranked
<1>2. StoreLimit(w, n) \in Nat
    BY QueryAssumption DEF StoreLimit
<1>3. PICK size \in Nat : /\ size = Min({StoreLimit(w, n), Cardinality(rows)})
                          /\ size <= StoreLimit(w, n) /\ size <= Cardinality(rows)
                          /\ size = StoreLimit(w, n) \/ size = Cardinality(rows)
  <2>1. PICK a, b : a = StoreLimit(w, n) /\ b = Cardinality(rows)
      OBVIOUS
  <2>2. a \in Nat /\ b \in Nat
      BY <1>1, <1>2, <2>1
  <2>3. \E x \in {a, b} : \A y \in {a, b} : x <= y
      BY <2>2
  <2>4. Min({a, b}) \in {a, b} /\ \A y \in {a, b} : Min({a, b}) <= y
      BY <2>3 DEF Min
  <2> QED BY <2>1, <2>2, <2>4
<1>4. sel = [i \in 1 .. size |-> CHOOSE r \in rows : Rank(w, rows, r) = i - 1]
    BY <1>0, <1>3 DEF Select, Rank
<1>5. \A i \in 1 .. size : sel[i] \in rows /\ Rank(w, rows, sel[i]) = i - 1
  <2> SUFFICES ASSUME NEW i \in 1 .. size PROVE sel[i] \in rows /\ Rank(w, rows, sel[i]) = i - 1
      OBVIOUS
  <2>1. i - 1 \in 0 .. Cardinality(rows) - 1
      BY <1>1, <1>3
  <2>2. \E r \in rows : Rank(w, rows, r) = i - 1
      BY <1>1, <2>1
  <2>3. sel[i] = CHOOSE r \in rows : Rank(w, rows, r) = i - 1
      BY <1>4
  <2> QED BY <2>2, <2>3
<1>6. sel \in Seq(rows) /\ Len(sel) = size
  <2>1. sel \in [1 .. size -> rows]
      BY <1>4, <1>5
  <2>2. sel \in Seq(rows)
      BY <1>3, <2>1, SeqDef
  <2>3. DOMAIN sel = 1 .. size /\ Len(sel) \in Nat /\ DOMAIN sel = 1 .. Len(sel)
      BY <2>1, <2>2, LenProperties
  <2> QED BY <1>3, <2>2, <2>3
<1>7. ASSUME NEW i \in 1 .. size, NEW j \in 1 .. size, i < j  PROVE Before(w, sel[i], sel[j])
  <2>1. Rank(w, rows, sel[i]) < Rank(w, rows, sel[j])
      BY <1>3, <1>5, <1>7
  <2> QED BY <1>1, <1>5, <2>1
<1>8. ASSUME NEW r \in rows
      PROVE  \/ \E i \in 1 .. size : sel[i] = r
             \/ size = StoreLimit(w, n) /\ \A i \in 1 .. size : Before(w, sel[i], r)
  <2>1. PICK k \in 0 .. Cardinality(rows) - 1 : k = Rank(w, rows, r)
      BY <1>1
  <2>2. CASE k < size
    <3>1. k + 1 \in 1 .. size /\ (k + 1) - 1 = k
        BY <1>3, <2>2
    <3>2. sel[k + 1] \in rows /\ Rank(w, rows, sel[k + 1]) = Rank(w, rows, r)
        BY <1>5, <2>1, <3>1
    <3> QED BY <1>1, <3>1, <3>2
  <2>3. CASE ~(k < size)
    <3>1. size = StoreLimit(w, n)
        BY <1>1, <1>3, <2>1, <2>3
    <3>2. \A i \in 1 .. size : Rank(w, rows, sel[i]) < Rank(w, rows, r)
        BY <1>3, <1>5, <2>1, <2>3
    <3> QED BY <1>1, <1>5, <3>1, <3>2
  <2> QED BY <2>2, <2>3
<1> QED BY <1>0, <1>3, <1>6, <1>7, <1>8

\* The audit store caps the row that would tell of a next page: a page of the
\* largest size says that it is the last one.
Whole(w) == w.list = "audit" => ClampLimit(w.limit) < MaxLimit

(* A page: the next rows in order; where it names a next page, all rows behind
   the cursor that it leaves out come behind its own cursor, and where it names
   none, it leaves out none. *)
LEMMA Paged ==
  ASSUME NEW w, w.list \in Listings, w.limit \in Nat \cup {Null},
         IsTable(w.list, RowsAfter(w)), NEW page, page = Page(w)
  PROVE  /\ page.items \in Seq(RowsAfter(w))
         /\ \A i, j \in 1 .. Len(page.items) : i < j => Before(w, page.items[i], page.items[j])
         /\ \/ /\ page.next = Null
               /\ Whole(w) => \A r \in RowsAfter(w) : \E i \in 1 .. Len(page.items) : page.items[i] = r
            \/ /\ Len(page.items) > 0
               /\ page.next = EncodeCursor(w, page.items[Len(page.items)])
               /\ \A r \in RowsAfter(w) :
                    \/ \E i \in 1 .. Len(page.items) : page.items[i] = r
                    \/ Before(w, page.items[Len(page.items)], r)
<1>1. PICK limit \in 1 .. MaxLimit : limit = ClampLimit(w.limit)
  <2>1. MaxLimit \in Nat /\ DefaultLimit \in 1 .. MaxLimit /\ Null \notin Nat
      BY QueryAssumption
  <2> QED BY <2>1 DEF ClampLimit
<1>2. PICK sel : sel = Select(w, limit + 1)
    OBVIOUS
<1>3. MaxLimit \in Nat /\ limit \in Nat /\ limit >= 1 /\ limit + 1 \in Nat
    BY <1>1, QueryAssumption
<1>4. /\ sel \in Seq(RowsAfter(w)) /\ Len(sel) \in Nat /\ Len(sel) <= StoreLimit(w, limit + 1)
      /\ \A i, j \in 1 .. Len(sel) : i < j => Before(w, sel[i], sel[j])
      /\ \A r \in RowsAfter(w) :
           \/ \E i \in 1 .. Len(sel) : sel[i] = r
           \/ Len(sel) = StoreLimit(w, limit + 1) /\ \A i \in 1 .. Len(sel) : Before(w, sel[i], r)
  <2>1. limit + 1 \in Nat
      BY <1>3
  <2> QED BY <1>2, <2>1, Selected, LenProperties
<1>5. StoreLimit(w, limit + 1) \in {limit, limit + 1} /\ (Whole(w) => StoreLimit(w, limit + 1) = limit + 1)
    BY <1>1, <1>3 DEF StoreLimit, Whole
<1>6. CASE Len(sel) > limit
  <2>1. PICK items : items = SubSeq(sel, 1, limit)
      OBVIOUS
  <2>2. page.items = items /\ page.next = EncodeCursor(w, sel[limit])
      BY <1>1, <1>2, <1>6, <2>1 DEF Page
  <2>3. items \in Seq(RowsAfter(w)) /\ Len(items) = limit /\ \A i \in 1 .. limit : items[i] = sel[i]
    <3>1. \A i \in 1 .. limit : sel[i] \in RowsAfter(w) /\ i \in 1 .. Len(sel)
        BY <1>3, <1>4, <1>6
    <3> QED BY <1>3, <1>4, <1>6, <2>1, <3>1, SubSeqProperties
  <2>4. \A i, j \in 1 .. limit : i < j => Before(w, items[i], items[j])
      BY <1>3, <1>4, <1>6, <2>3
  <2>5. ASSUME NEW r \in RowsAfter(w)
        PROVE  (\E i \in 1 .. limit : items[i] = r) \/ Before(w, items[limit], r)
    <3>1. CASE \E i \in 1 .. Len(sel) : sel[i] = r
      <4>1. PICK i \in 1 .. Len(sel) : sel[i] = r
          BY <3>1
      <4>2. CASE i <= limit
          BY <1>3, <2>3, <4>1, <4>2
      <4>3. CASE ~(i <= limit)
        <5>1. limit \in 1 .. Len(sel) /\ limit < i
            BY <1>3, <1>4, <1>6, <4>1, <4>3
        <5> QED BY <1>3, <1>4, <2>3, <4>1, <5>1
      <4> QED BY <4>2, <4>3
    <3>2. CASE \A i \in 1 .. Len(sel) : Before(w, sel[i], r)
        BY <1>3, <1>4, <1>6, <2>3, <3>2
    <3> QED BY <1>4, <3>1, <3>2
  <2>6. items[limit] = sel[limit] /\ limit > 0
      BY <1>3, <2>3
  <2> QED BY <2>2, <2>3, <2>4, <2>5, <2>6
<1>7. CASE ~(Len(sel) > limit)
  <2>1. page.items = sel /\ page.next = Null
      BY <1>1, <1>2, <1>7 DEF Page
  <2>2. Whole(w) => Len(sel) # StoreLimit(w, limit + 1)
      BY <1>3, <1>4, <1>5, <1>7
  <2> QED BY <1>4, <2>1, <2>2
<1> QED BY <1>6, <1>7

\* The cursor a walk has decoded is the one of row r.
PointsAt(w, r) == /\ w.cursor # Null /\ w.cursor.id = r.id
                  /\ w.list \notin {"devices", "files"} => w.cursor.ts = r.ts

(* The rows behind the cursor of a row are the ones that follow it. *)
LEMMA BehindCursor ==
  ASSUME NEW w, w.list \in Listings, NEW r, IsRow(w.list, r), PointsAt(w, r),
         \A x \in Rows(w) : IsRow(w.list, x)
  PROVE  RowsAfter(w) = {x \in Rows(w) : Before(w, r, x)}
<1>0. Null \notin Nat
    BY QueryAssumption
<1>1. CASE w.list \in {"devices", "files"}
  <2>1. RowsAfter(w) = {x \in Rows(w) : w.cursor = Null \/ x.id > w.cursor.id}
      BY <1>1 DEF RowsAfter
  <2>2. \A x \in Rows(w) : Before(w, r, x) <=> r.id < x.id
      BY <1>1 DEF Before
  <2>3. \A x \in Rows(w) : r.id < x.id <=> x.id > r.id
      BY DEF IsRow
  <2> QED BY <2>1, <2>2, <2>3 DEF PointsAt
<1>2. CASE w.list \in {"sessions", "audit"}
  <2>1. RowsAfter(w) = {x \in Rows(w) : x.ts < w.cursor.ts \/ (x.ts = w.cursor.ts /\ x.id < w.cursor.id)}
      BY <1>2 DEF RowsAfter, OlderThanCursor, PointsAt
  <2>2. \A x \in Rows(w) : Before(w, r, x) <=> NewestFirst(r, x)
      BY <1>2 DEF Before
  <2>3. \A x \in Rows(w) : NewestFirst(r, x) <=> x.ts < r.ts \/ (x.ts = r.ts /\ x.id < r.id)
      BY <1>2 DEF NewestFirst, IsRow
  <2>4. w.cursor.ts = r.ts /\ w.cursor.id = r.id
      BY <1>2 DEF PointsAt
  <2> QED BY <2>1, <2>2, <2>3, <2>4
<1>3. CASE w.list = "entries"
  <2>1. RowsAfter(w) = EntriesAfter(Rows(w), w.cursor)
      BY <1>3 DEF RowsAfter
  <2>2. \A x \in Rows(w) : Before(w, r, x) <=> EntryBefore(r, x)
      BY <1>3 DEF Before
  <2>3. w.cursor.ts = r.ts /\ w.cursor.id = r.id /\ w.cursor # Null
      BY <1>3 DEF PointsAt
  <2>4. r.ts \in Nat \cup {Null} /\ r.id \in Nat
        /\ \A x \in Rows(w) : x.ts \in Nat \cup {Null} /\ x.id \in Nat
      BY <1>3 DEF IsRow
  <2>5. CASE r.ts = Null
    <3>1. \A x \in Rows(w) : EntryBefore(r, x) <=> x.ts = Null /\ x.id > r.id
        BY <2>4, <2>5 DEF EntryBefore
    <3>2. RowsAfter(w) = {x \in Rows(w) : x.ts = Null /\ x.id > r.id}
        BY <2>1, <2>3, <2>5 DEF EntriesAfter
    <3> QED BY <2>2, <3>1, <3>2
  <2>6. CASE r.ts # Null
    <3>1. \A x \in Rows(w) : EntryBefore(r, x) <=>
            \/ x.ts # Null /\ (x.ts > r.ts \/ (x.ts = r.ts /\ x.id > r.id))
            \/ x.ts = Null
        BY <1>0, <2>4, <2>6 DEF EntryBefore
    <3>2. RowsAfter(w) = {x \in Rows(w) : \/ x.ts # Null /\ (x.ts > r.ts \/ (x.ts = r.ts /\ x.id > r.id))
                                          \/ x.ts = Null}
        BY <2>1, <2>3, <2>6 DEF EntriesAfter
    <3> QED BY <2>2, <3>1, <3>2
  <2> QED BY <2>5, <2>6
<1> QED BY <1>1, <1>2, <1>3 DEF Listings

-----------------------------------------------------------------------------
(* The tables.                                                             *)

TablesInv ==
  /\ backend \in Backends
  /\ ids \in [sessions : Nat, files : Nat, entries : Nat, audit : Nat]
  /\ IsFiniteSet(devices) /\ devices \subseteq Nat
  /\ IsTable("sessions", sessions) /\ \A r \in sessions : r.id <= ids.sessions
  /\ IsTable("files", files)       /\ \A r \in files : r.id <= ids.files
  /\ IsTable("entries", entries)   /\ \A r \in entries : r.id <= ids.entries
  /\ IsTable("audit", audit)       /\ \A r \in audit : r.id <= ids.audit

\* A row no listing can have shown yet.
Fresh(list, r) ==
  CASE list = "devices"  -> r.id \notin devices
    [] list = "sessions" -> r.id > ids.sessions
    [] list = "files"    -> r.id > ids.files
    [] list = "entries"  -> r.id > ids.entries
    [] list = "audit"    -> r.id > ids.audit

(* A part of a table is one. *)
LEMMA SubTable ==
  ASSUME NEW list, NEW rows, IsTable(list, rows), NEW part \in SUBSET rows
  PROVE  IsTable(list, part)
<1>1. IsFiniteSet(part)
    BY FS_Subset DEF IsTable
<1> QED BY <1>1 DEF IsTable

(* A row with the next id joins its table. *)
LEMMA AddedRow ==
  ASSUME NEW list, NEW rows, IsTable(list, rows), NEW n \in Nat, \A r \in rows : r.id <= n,
         NEW new, IsRow(list, new), new.id = n + 1
  PROVE  /\ IsTable(list, rows \cup {new}) /\ \A r \in rows \cup {new} : r.id <= n + 1
         /\ new.id > n
<1>1. IsFiniteSet(rows \cup {new})
    BY FS_AddElement DEF IsTable
<1>2. \A r \in rows : r.id \in Nat /\ r.id # new.id /\ r.id <= n + 1
    BY DEF IsTable, IsRow
<1> QED BY <1>1, <1>2 DEF IsTable

(* What a listing shows is a part of its table. *)
LEMMA RowsAreTables ==
  ASSUME TablesInv, NEW w, w.list \in Listings
  PROVE  /\ IsTable(w.list, Rows(w)) /\ \A r \in Rows(w) : ~Fresh(w.list, r)
         /\ RowsAfter(w) \in SUBSET Rows(w)
<1>1. CASE w.list = "devices"
  <2>1. Rows(w) = {[id |-> d] : d \in devices}
      BY <1>1 DEF Rows
  <2>2. \A r \in Rows(w) : r.id \in devices /\ r = [id |-> r.id]
      BY <2>1
  <2>3. IsFiniteSet(Rows(w))
    <3> DEFINE f == [d \in devices |-> [id |-> d]]
    <3>1. f \in Surjection(devices, Rows(w))
        BY <2>1 DEF Surjection
    <3> HIDE DEF f
    <3> QED BY <3>1, FS_Surjection DEF TablesInv
  <2>4. IsTable(w.list, Rows(w))
      BY <1>1, <2>2, <2>3 DEF IsTable, IsRow, TablesInv
  <2>5. \A r \in Rows(w) : ~Fresh(w.list, r)
      BY <1>1, <2>2 DEF Fresh
  <2> QED BY <1>1, <2>4, <2>5 DEF RowsAfter
<1>2. CASE w.list = "sessions"
  <2>1. Rows(w) \in SUBSET sessions
      BY <1>2 DEF Rows
  <2>2. \A r \in Rows(w) : ~Fresh(w.list, r)
      BY <1>2, <2>1 DEF Fresh, TablesInv, IsTable, IsRow
  <2> QED BY <1>2, <2>1, <2>2, SubTable DEF TablesInv, RowsAfter, OlderThanCursor
<1>3. CASE w.list = "files"
  <2>1. Rows(w) \in SUBSET files
      BY <1>3 DEF Rows
  <2>2. \A r \in Rows(w) : ~Fresh(w.list, r)
      BY <1>3, <2>1 DEF Fresh, TablesInv, IsTable, IsRow
  <2> QED BY <1>3, <2>1, <2>2, SubTable DEF TablesInv, RowsAfter
<1>4. CASE w.list = "entries"
  <2>1. Rows(w) \in SUBSET entries
      BY <1>4 DEF Rows
  <2>2. \A r \in Rows(w) : ~Fresh(w.list, r)
      BY <1>4, <2>1 DEF Fresh, TablesInv, IsTable, IsRow
  <2> QED BY <1>4, <2>1, <2>2, SubTable DEF TablesInv, RowsAfter, EntriesAfter
<1>5. CASE w.list = "audit"
  <2>1. Rows(w) \in SUBSET audit
      BY <1>5 DEF Rows
  <2>2. \A r \in Rows(w) : ~Fresh(w.list, r)
      BY <1>5, <2>1 DEF Fresh, TablesInv, IsTable, IsRow
  <2> QED BY <1>5, <2>1, <2>2, SubTable DEF TablesInv, RowsAfter, OlderThanCursor
<1> QED BY <1>1, <1>2, <1>3, <1>4, <1>5 DEF Listings

(* The rows a listing shows depend on what it lists only. *)
LEMMA SameRows ==
  ASSUME NEW w, NEW v, w.list = v.list, w.of = v.of, w.filter = v.filter
  PROVE  Rows(w) = Rows(v)
BY DEF Rows

\* Ids go up, and what a table gains has an id that was not given out.
Grows ==
  /\ UNCHANGED <<backend, walk>> /\ devices \subseteq devices'
  /\ ids.sessions <= ids'.sessions /\ ids.files <= ids'.files
  /\ ids.entries <= ids'.entries /\ ids.audit <= ids'.audit
  /\ \A r \in sessions' : r \in sessions \/ r.id > ids.sessions
  /\ \A r \in files' : r \in files \/ r.id > ids.files
  /\ \A r \in entries' : r \in entries \/ r.id > ids.entries
  /\ \A r \in audit' : r \in audit \/ r.id > ids.audit

(* So no listing gains a row that a walk may have passed, and none that was
   deleted comes back. *)
LEMMA GrownRows ==
  ASSUME TablesInv, TablesInv', Grows, NEW w, w.list \in Listings
  PROVE  /\ \A r \in Rows(w)' : r \in Rows(w) \/ Fresh(w.list, r)
         /\ \A r : IsRow(w.list, r) /\ Fresh(w.list, r)' => Fresh(w.list, r)
<1>1. CASE w.list = "devices"
  <2>1. Rows(w) = {[id |-> d] : d \in devices} /\ Rows(w)' = {[id |-> d] : d \in devices'}
      BY <1>1 DEF Rows
  <2>2. \A r : Fresh(w.list, r) <=> r.id \notin devices
      BY <1>1 DEF Fresh
  <2>3. \A r : Fresh(w.list, r)' <=> r.id \notin devices'
      BY <1>1 DEF Fresh
  <2>4. \A d : [id |-> d].id = d
      OBVIOUS
  <2> QED BY <2>1, <2>2, <2>3, <2>4 DEF Grows
<1>2. CASE w.list = "sessions"
  <2>1. \A r : r \in Rows(w)' <=> r \in sessions' /\ r.device = w.of
      BY <1>2 DEF Rows
  <2>2. \A r : r \in Rows(w) <=> r \in sessions /\ r.device = w.of
      BY <1>2 DEF Rows
  <2>3. \A r : (Fresh(w.list, r) <=> r.id > ids.sessions) /\ (Fresh(w.list, r)' <=> r.id > ids'.sessions)
      BY <1>2 DEF Fresh
  <2> QED BY <2>1, <2>2, <2>3 DEF Grows, IsRow, TablesInv
<1>3. CASE w.list = "files"
  <2>1. \A r : r \in Rows(w)' <=> r \in files' /\ r.session = w.of
      BY <1>3 DEF Rows
  <2>2. \A r : r \in Rows(w) <=> r \in files /\ r.session = w.of
      BY <1>3 DEF Rows
  <2>3. \A r : (Fresh(w.list, r) <=> r.id > ids.files) /\ (Fresh(w.list, r)' <=> r.id > ids'.files)
      BY <1>3 DEF Fresh
  <2> QED BY <2>1, <2>2, <2>3 DEF Grows, IsRow, TablesInv
<1>4. CASE w.list = "entries"
  <2>0. \A r : Matches(r, w.filter)' <=> Matches(r, w.filter)
      BY DEF Matches, Grows
  <2>1. \A r : r \in Rows(w)' <=> r \in entries' /\ r.session = w.of /\ Matches(r, w.filter)'
      BY <1>4 DEF Rows
  <2>2. \A r : r \in Rows(w) <=> r \in entries /\ r.session = w.of /\ Matches(r, w.filter)
      BY <1>4 DEF Rows
  <2>3. \A r : (Fresh(w.list, r) <=> r.id > ids.entries) /\ (Fresh(w.list, r)' <=> r.id > ids'.entries)
      BY <1>4 DEF Fresh
  <2> QED BY <2>0, <2>1, <2>2, <2>3 DEF Grows, IsRow, TablesInv
<1>5. CASE w.list = "audit"
  <2>1. Rows(w)' = audit' /\ Rows(w) = audit
      BY <1>5 DEF Rows
  <2>3. \A r : (Fresh(w.list, r) <=> r.id > ids.audit) /\ (Fresh(w.list, r)' <=> r.id > ids'.audit)
      BY <1>5 DEF Fresh
  <2> QED BY <2>1, <2>3 DEF Grows, IsRow, TablesInv
<1> QED BY <1>1, <1>2, <1>3, <1>4, <1>5 DEF Listings

-----------------------------------------------------------------------------
(* The writers.                                                            *)

Writer == \/ \E d \in Devices : UpsertDevice(d) \/ \E ts \in Times : InsertSession(d, ts)
          \/ \E s \in sessions : InsertFile(s) \/ DeleteSession(s)
          \/ \E f \in files, batch \in Batches : InsertEntries(f, batch)
          \/ \E ts \in Times : InsertAuditRow(ts)

(* One batch of entries joins the table. *)
LEMMA AddedBatch ==
  ASSUME TablesInv, NEW f \in files, NEW batch \in Batches, InsertEntries(f, batch)
  PROVE  TablesInv' /\ Grows
<1>1. PICK n \in Nat, len \in Nat : n = ids.entries /\ len = Len(batch)
    BY QueryAssumption DEF TablesInv
<1>2. PICK g : g = [i \in 1 .. len |->
        [id |-> n + i, session |-> f.session, file |-> f.id, ts |-> batch[i].ts,
         severity |-> batch[i].severity, message |-> Stored(batch[i].message),
         component |-> Stored(batch[i].component), parsed |-> batch[i]]]
    OBVIOUS
<1>3. PICK new : new = {g[i] : i \in 1 .. len}
    OBVIOUS
<1>4. \A i \in 1 .. len : g[i].id = n + i /\ g[i].ts = batch[i].ts
    BY <1>2
<1>5. entries' = entries \cup new
  <2>1. entries' = entries \cup
          {[id |-> n + i, session |-> f.session, file |-> f.id, ts |-> batch[i].ts,
            severity |-> batch[i].severity, message |-> Stored(batch[i].message),
            component |-> Stored(batch[i].component), parsed |-> batch[i]] : i \in 1 .. len}
      BY <1>1 DEF InsertEntries
  <2> QED BY <1>2, <1>3, <2>1
<1>6. \A r \in new : IsRow("entries", r) /\ r.id > n /\ r.id <= n + len
    BY <1>1, <1>3, <1>4, QueryAssumption DEF IsRow
<1>7. \A a, b \in new : a.id = b.id => a = b
    BY <1>3, <1>4
<1>8. IsFiniteSet(entries \cup new)
  <2>1. g \in Surjection(1 .. len, new)
    <3>1. g \in [1 .. len -> new] /\ \A x \in new : \E i \in 1 .. len : g[i] = x
        BY <1>2, <1>3
    <3> QED BY <3>1 DEF Surjection
  <2>2. IsFiniteSet(1 .. len)
      BY FS_Interval
  <2>3. IsFiniteSet(new)
      BY <2>1, <2>2, FS_Surjection
  <2> QED BY <2>3, FS_Union DEF TablesInv, IsTable
<1>9. \A r \in entries : r.id <= n /\ IsRow("entries", r) /\ r.id \in Nat
    BY <1>1 DEF TablesInv, IsTable, IsRow
<1>10. \A r \in new : r.id \in Nat
    BY <1>6 DEF IsRow
<1>11. IsTable("entries", entries') /\ \A r \in entries' : r.id <= n + len
  <2>1. \A a, b \in entries \cup new : a.id = b.id => a = b
    <3>1. \A a \in entries, b \in new : a.id # b.id
        BY <1>6, <1>9, <1>10
    <3> QED BY <1>7, <3>1 DEF TablesInv, IsTable
  <2>2. \A r \in entries : r.id <= n + len
      BY <1>9
  <2> QED BY <1>5, <1>6, <1>8, <1>9, <2>1, <2>2 DEF IsTable
<1>12. /\ ids' = [ids EXCEPT !.entries = @ + Len(batch)]
       /\ UNCHANGED <<backend, budget, devices, sessions, files, audit, walk>>
    BY DEF InsertEntries
<1>13. /\ ids' \in [sessions : Nat, files : Nat, entries : Nat, audit : Nat] /\ ids'.entries = n + len
       /\ ids'.sessions = ids.sessions /\ ids'.files = ids.files /\ ids'.audit = ids.audit
    BY <1>1, <1>12 DEF TablesInv
<1>14. TablesInv'
    BY <1>11, <1>12, <1>13 DEF TablesInv
<1>15. Grows
  <2>1. \A r \in entries' : r \in entries \/ r.id > ids.entries
      BY <1>1, <1>5, <1>6
  <2>2. ids.entries <= ids'.entries /\ ids.sessions <= ids'.sessions
        /\ ids.files <= ids'.files /\ ids.audit <= ids'.audit
      BY <1>1, <1>13 DEF TablesInv
  <2> QED BY <1>12, <2>1, <2>2 DEF Grows
<1> QED BY <1>14, <1>15

(* Every writer keeps the tables, and gives out ids that go up. *)
LEMMA WriterStep ==
  ASSUME TablesInv, Writer
  PROVE  TablesInv' /\ Grows
<1>0. /\ ids.sessions \in Nat /\ ids.files \in Nat /\ ids.entries \in Nat /\ ids.audit \in Nat
      /\ ids \in [sessions : Nat, files : Nat, entries : Nat, audit : Nat]
    BY DEF TablesInv
<1>1. ASSUME NEW d \in Devices, UpsertDevice(d) PROVE TablesInv' /\ Grows
  <2>1. /\ devices' = devices \cup {d}
        /\ UNCHANGED <<backend, sessions, files, entries, audit, ids, walk>>
      BY <1>1 DEF UpsertDevice
  <2>2. IsFiniteSet(devices') /\ devices' \subseteq Nat
      BY <2>1, FS_AddElement, QueryAssumption DEF TablesInv
  <2> QED BY <1>0, <2>1, <2>2 DEF TablesInv, Grows
<1>2. ASSUME NEW d \in Devices, NEW ts \in Times, InsertSession(d, ts) PROVE TablesInv' /\ Grows
  <2>1. PICK new : new = [id |-> ids.sessions + 1, device |-> d, ts |-> ts]
      OBVIOUS
  <2>2. new.id = ids.sessions + 1 /\ IsRow("sessions", new)
      BY <1>0, <2>1, QueryAssumption DEF IsRow
  <2>3. /\ ids' = [ids EXCEPT !.sessions = @ + 1] /\ sessions' = sessions \cup {new}
        /\ UNCHANGED <<backend, devices, files, entries, audit, walk>>
      BY <1>2, <2>1 DEF InsertSession
  <2>4. /\ ids' \in [sessions : Nat, files : Nat, entries : Nat, audit : Nat]
        /\ ids'.sessions = ids.sessions + 1
        /\ ids'.files = ids.files /\ ids'.entries = ids.entries /\ ids'.audit = ids.audit
      BY <1>0, <2>3
  <2>5. IsTable("sessions", sessions') /\ (\A r \in sessions' : r.id <= ids'.sessions)
        /\ new.id > ids.sessions
      BY <1>0, <2>2, <2>3, <2>4, AddedRow DEF TablesInv
  <2> QED BY <1>0, <2>3, <2>4, <2>5 DEF TablesInv, Grows
<1>3. ASSUME NEW s \in sessions, InsertFile(s) PROVE TablesInv' /\ Grows
  <2>1. PICK new : new = [id |-> ids.files + 1, session |-> s.id]
      OBVIOUS
  <2>2. new.id = ids.files + 1 /\ IsRow("files", new)
      BY <1>0, <2>1 DEF IsRow
  <2>3. /\ ids' = [ids EXCEPT !.files = @ + 1] /\ files' = files \cup {new}
        /\ UNCHANGED <<backend, devices, sessions, entries, audit, walk>>
      BY <1>3, <2>1 DEF InsertFile
  <2>4. /\ ids' \in [sessions : Nat, files : Nat, entries : Nat, audit : Nat]
        /\ ids'.files = ids.files + 1
        /\ ids'.sessions = ids.sessions /\ ids'.entries = ids.entries /\ ids'.audit = ids.audit
      BY <1>0, <2>3
  <2>5. IsTable("files", files') /\ (\A r \in files' : r.id <= ids'.files) /\ new.id > ids.files
      BY <1>0, <2>2, <2>3, <2>4, AddedRow DEF TablesInv
  <2> QED BY <1>0, <2>3, <2>4, <2>5 DEF TablesInv, Grows
<1>4. ASSUME NEW s \in sessions, DeleteSession(s) PROVE TablesInv' /\ Grows
  <2>1. /\ sessions' \in SUBSET sessions /\ files' \in SUBSET files /\ entries' \in SUBSET entries
        /\ UNCHANGED <<backend, devices, audit, ids, walk>>
      BY <1>4 DEF DeleteSession
  <2>2. IsTable("sessions", sessions') /\ IsTable("files", files') /\ IsTable("entries", entries')
      BY <2>1, SubTable DEF TablesInv
  <2> QED BY <1>0, <2>1, <2>2 DEF TablesInv, Grows
<1>5. ASSUME NEW f \in files, NEW batch \in Batches, InsertEntries(f, batch) PROVE TablesInv' /\ Grows
    BY <1>5, AddedBatch
<1>6. ASSUME NEW ts \in Times, InsertAuditRow(ts) PROVE TablesInv' /\ Grows
  <2>1. PICK new : new = [id |-> ids.audit + 1, ts |-> ts]
      OBVIOUS
  <2>2. new.id = ids.audit + 1 /\ IsRow("audit", new)
      BY <1>0, <2>1, QueryAssumption DEF IsRow
  <2>3. /\ ids' = [ids EXCEPT !.audit = @ + 1] /\ (audit' = audit \/ audit' = audit \cup {new})
        /\ UNCHANGED <<backend, devices, sessions, files, entries, walk>>
      BY <1>6, <2>1 DEF InsertAuditRow
  <2>4. /\ ids' \in [sessions : Nat, files : Nat, entries : Nat, audit : Nat]
        /\ ids'.audit = ids.audit + 1
        /\ ids'.sessions = ids.sessions /\ ids'.files = ids.files /\ ids'.entries = ids.entries
      BY <1>0, <2>3
  <2>5. IsTable("audit", audit \cup {new}) /\ (\A r \in audit \cup {new} : r.id <= ids'.audit)
        /\ new.id > ids.audit
      BY <1>0, <2>2, <2>4, AddedRow DEF TablesInv
  <2>6. IsTable("audit", audit') /\ (\A r \in audit' : r.id <= ids'.audit)
        /\ \A r \in audit' : r \in audit \/ r.id > ids.audit
      BY <2>3, <2>5 DEF TablesInv
  <2> QED BY <1>0, <2>3, <2>4, <2>6 DEF TablesInv, Grows
<1> QED BY <1>1, <1>2, <1>3, <1>4, <1>5, <1>6 DEF Writer

-----------------------------------------------------------------------------
(* The walk.                                                               *)

IsWalk(w) == w = [list |-> w.list, of |-> w.of, filter |-> w.filter, limit |-> w.limit,
                  cursor |-> w.cursor, stage |-> w.stage, got |-> w.got, base |-> w.base,
                  upTo |-> w.upTo]

Shown(w, r) == \E i \in 1 .. Len(w.got) : w.got[i] = r
LastShown(w) == w.got[Len(w.got)]
Active(w) == w.stage \in {"request", "query"}

\* A walk has shown rows in order, none of them new; its cursor is the one of
\* the last of them.
Placed(w) ==
  /\ IsWalk(w) /\ w.list \in Listings /\ w.limit \in Nat \cup {Null}
  /\ \E S : w.got \in Seq(S) /\ \A r \in S : IsRow(w.list, r) /\ ~Fresh(w.list, r)
  /\ InOrder(w)
  /\ \A r \in w.base : IsRow(w.list, r) /\ ~Fresh(w.list, r)
  /\ w.got = <<>> => (w.cursor # Null => w.cursor.id = Null)
  /\ w.got = <<>> /\ w.stage = "query" => w.cursor = Null
  /\ w.got # <<>> /\ Active(w) => PointsAt(w, LastShown(w))

\* What was there from the start has been shown or lies ahead; of the files,
\* everything has.
Covered(w) ==
  /\ w.got # <<>> /\ Active(w) =>
       \A r \in w.base : r \in Rows(w) => Shown(w, r) \/ Before(w, LastShown(w), r)
  /\ w.stage = "done" /\ Whole(w) => \A r \in w.base : r \in Rows(w) => Shown(w, r)
  /\ w.got # <<>> /\ w.list = "files" =>
       \A r \in Rows(w) : Shown(w, r) \/ Before(w, LastShown(w), r)

QueryInv == TablesInv /\ (walk # NoWalk => Placed(walk) /\ Covered(walk))

(* The last row shown is a row, and not a new one. *)
LEMMA LastIsRow ==
  ASSUME NEW w, Placed(w), w.got # <<>>
  PROVE  /\ IsRow(w.list, LastShown(w)) /\ ~Fresh(w.list, LastShown(w))
         /\ Len(w.got) \in Nat \ {0}
         /\ \A i \in 1 .. Len(w.got) : IsRow(w.list, w.got[i])
<1>1. PICK S : w.got \in Seq(S) /\ \A r \in S : IsRow(w.list, r) /\ ~Fresh(w.list, r)
    BY DEF Placed
<1>2. Len(w.got) \in Nat \ {0} /\ \A i \in 1 .. Len(w.got) : w.got[i] \in S
    BY <1>1, EmptySeq, LenProperties, ElementOfSeq
<1>3. LastShown(w) \in S
    BY <1>2 DEF LastShown
<1> QED BY <1>1, <1>2, <1>3

(* The writers leave the walk where it is. *)
LEMMA WalkUndisturbed ==
  ASSUME TablesInv, TablesInv', Grows, NEW w, w = walk, Placed(w), Covered(w)
  PROVE  Placed(w)' /\ Covered(w)'
<1>1. w.list \in Listings
    BY DEF Placed
<1>2. /\ \A r \in Rows(w)' : r \in Rows(w) \/ Fresh(w.list, r)
      /\ \A r : IsRow(w.list, r) /\ Fresh(w.list, r)' => Fresh(w.list, r)
    BY <1>1, GrownRows
<1>3. Placed(w)'
  <2>1. \E S : w.got \in Seq(S) /\ \A r \in S : IsRow(w.list, r) /\ ~Fresh(w.list, r)'
      BY <1>2 DEF Placed
  <2>2. \A r \in w.base : IsRow(w.list, r) /\ ~Fresh(w.list, r)'
      BY <1>2 DEF Placed
  <2> QED BY <2>1, <2>2 DEF Placed, InOrder, Before
<1>4. Covered(w)'
  <2>1. \A r \in w.base : r \in Rows(w)' => r \in Rows(w)
      BY <1>2 DEF Placed
  <2>2. ASSUME w.got # <<>>, w.list = "files", NEW r \in Rows(w)'
        PROVE  Shown(w, r) \/ Before(w, LastShown(w), r)
    <3>1. CASE r \in Rows(w)
        BY <2>2, <3>1 DEF Covered
    <3>2. CASE Fresh(w.list, r)
      <4>1. LastShown(w).id \in Nat /\ ~(LastShown(w).id > ids.files)
          BY <2>2, LastIsRow DEF IsRow, Fresh
      <4>2. r.id > ids.files
          BY <2>2, <3>2 DEF Fresh
      <4>3. r.id \in Nat
        <5>1. \A x \in Rows(w)' : x \in files'
            BY <2>2 DEF Rows
        <5> QED BY <5>1 DEF TablesInv, IsTable, IsRow
      <4>4. LastShown(w).id < r.id
          BY <4>1, <4>2, <4>3 DEF TablesInv
      <4> QED BY <2>2, <4>4 DEF Before
    <3> QED BY <1>2, <3>1, <3>2
  <2>3. \A r : Before(w, LastShown(w), r)' <=> Before(w, LastShown(w), r)
      BY DEF Before
  <2> QED BY <2>1, <2>2, <2>3 DEF Covered, Shown, LastShown, Active, Whole
<1> QED BY <1>3, <1>4

(* A new walk has shown nothing. *)
LEMMA StartStep ==
  ASSUME TablesInv, NEW w \in Walks(backend), Start(w)
  PROVE  Placed(walk') /\ Covered(walk')
<1>1. w.list \in Listings /\ w.limit \in Nat \cup {Null} /\ (w.cursor # Null => w.cursor.id = Null)
    BY QueryAssumption DEF TablesInv
<1>2. PICK v : /\ v = walk'
               /\ v = [list |-> w.list, of |-> w.of, filter |-> w.filter, limit |-> w.limit,
                       cursor |-> w.cursor, stage |-> "request", got |-> <<>>, base |-> Rows(w),
                       upTo |-> ids.entries]
    BY DEF Start
<1>3. /\ IsWalk(v) /\ v.list = w.list /\ v.limit = w.limit /\ v.cursor = w.cursor
      /\ v.stage = "request" /\ v.got = <<>> /\ v.base = Rows(w)
    BY <1>2 DEF IsWalk
<1>4. \A r \in Rows(w) : IsRow(w.list, r) /\ ~Fresh(w.list, r)
    BY <1>1, RowsAreTables DEF IsTable
<1>5. \E S : v.got \in Seq(S) /\ \A r \in S : IsRow(v.list, r) /\ ~Fresh(v.list, r)
  <2>1. <<>> \in Seq({})
      OBVIOUS
  <2> QED BY <1>3, <2>1
<1>6. InOrder(v)
    BY <1>3 DEF InOrder
<1>7. Placed(v) /\ Covered(v)
    BY <1>1, <1>3, <1>4, <1>5, <1>6 DEF Placed, Covered
<1> QED BY <1>2, <1>7

(* The first half of a handler moves no cursor. *)
LEMMA RequestStep ==
  ASSUME TablesInv, Placed(walk), Covered(walk), Request
  PROVE  Placed(walk') /\ Covered(walk')
<1>1. PICK w : w = walk
    OBVIOUS
<1>2. PICK stage : /\ walk' = [w EXCEPT !.stage = stage]
                   /\ stage \in {"400", "404", "query"}
                   /\ stage = "query" => ~BadCursor(w)
    BY <1>1 DEF Request
<1>3. PICK v : v = walk'
    OBVIOUS
<1>4. /\ IsWalk(v) /\ v.list = w.list /\ v.limit = w.limit /\ v.cursor = w.cursor /\ v.got = w.got
      /\ v.base = w.base /\ v.of = w.of /\ v.filter = w.filter /\ v.stage = stage
  <2>1. IsWalk(w)
      BY <1>1 DEF Placed
  <2>2. v = [list |-> w.list, of |-> w.of, filter |-> w.filter, limit |-> w.limit,
             cursor |-> w.cursor, stage |-> stage, got |-> w.got, base |-> w.base, upTo |-> w.upTo]
    <3>1. PICK a, b, c, d, e, f, g, h, i :
            w = [list |-> a, of |-> b, filter |-> c, limit |-> d, cursor |-> e, stage |-> f,
                 got |-> g, base |-> h, upTo |-> i]
        BY <2>1 DEF IsWalk
    <3>2. v = [list |-> a, of |-> b, filter |-> c, limit |-> d, cursor |-> e, stage |-> stage,
               got |-> g, base |-> h, upTo |-> i]
        BY <1>2, <1>3, <3>1
    <3> QED BY <3>1, <3>2
  <2> QED BY <2>2 DEF IsWalk
<1>5. w.stage = "request"
    BY <1>1 DEF Request
<1>6. Placed(w) /\ Covered(w)
    BY <1>1
<1>7. \A a, b : Before(v, a, b) <=> Before(w, a, b)
    BY <1>4, SameOrder
<1>8. Rows(v) = Rows(w)
    BY <1>4, SameRows
<1>9. Placed(v)
  <2>1. v.got = <<>> /\ v.stage = "query" => v.cursor = Null
      BY <1>2, <1>4, <1>6 DEF Placed, BadCursor
  <2>2. v.got # <<>> => PointsAt(v, LastShown(v))
      BY <1>4, <1>5, <1>6 DEF Placed, PointsAt, LastShown, Active
  <2>3. InOrder(v)
      BY <1>4, <1>6, <1>7 DEF Placed, InOrder
  <2> QED BY <1>4, <1>6, <2>1, <2>2, <2>3 DEF Placed
<1>10. Covered(v)
  <2>1. v.stage # "done"
      BY <1>2, <1>4
  <2>2. LastShown(v) = LastShown(w) /\ (\A r : Shown(v, r) <=> Shown(w, r)) /\ Active(w)
      BY <1>4, <1>5 DEF LastShown, Shown, Active
  <2> QED BY <1>4, <1>6, <1>7, <1>8, <2>1, <2>2 DEF Covered
<1> QED BY <1>3, <1>9, <1>10

(* Without a cursor a listing shows all its rows. *)
LEMMA FirstPage ==
  ASSUME NEW w, w.list \in Listings, w.cursor = Null
  PROVE  RowsAfter(w) = Rows(w)
BY DEF RowsAfter, OlderThanCursor, EntriesAfter, Listings

(* The cursor of a row survives its encoding, the missing time of an entry
   included. *)
LEMMA CursorOfRow ==
  ASSUME NEW w, w.list \in Listings, NEW r, IsRow(w.list, r),
         NEW c, c = EncodeCursor(w, r), NEW d, d = DecodeCursor(c)
  PROVE  /\ c # Null /\ d # Null /\ d.id = r.id
         /\ w.list \notin {"devices", "files"} => d.ts = r.ts
<1>1. PICK text : c = [text |-> text, id |-> r.id] /\
        text = IF w.list \in {"devices", "files"} THEN <<>> ELSE IF r.ts = Null THEN <<>> ELSE <<r.ts>>
    BY DEF EncodeCursor
<1>2. r.id \in Nat /\ (w.list \notin {"devices", "files"} => r.ts \in Nat \cup {Null})
    BY DEF IsRow, Listings
<1>3. text \in Seq(Nat)
  <2>1. \A x \in Nat : <<x>> \in Seq(Nat)
      OBVIOUS
  <2>2. <<>> \in Seq(Nat)
      OBVIOUS
  <2> QED BY <1>1, <1>2, <2>1, <2>2
<1>4. c # Null
  <2>1. c \in [text : Seq(Nat), id : Nat]
      BY <1>1, <1>2, <1>3
  <2> QED BY <2>1, QueryAssumption
<1>5. PICK ts : d = [ts |-> ts, id |-> r.id] /\ ts = IF text = <<>> THEN Null ELSE text[1]
    BY <1>1, <1>4 DEF DecodeCursor
<1>6. w.list \notin {"devices", "files"} => ts = r.ts
  <2>1. \A x : <<x>> # <<>> /\ <<x>>[1] = x
      OBVIOUS
  <2> QED BY <1>1, <1>5, <2>1
<1>7. ts \in Nat \cup {Null}
  <2>1. w.list \in {"devices", "files"} => ts = Null
      BY <1>1, <1>5
  <2> QED BY <1>2, <1>6, <2>1
<1>8. d # Null
  <2>1. d \in [ts : Nat \cup {Null}, id : Nat]
      BY <1>2, <1>5, <1>7
  <2> QED BY <2>1, QueryAssumption
<1>9. d.id = r.id /\ d.ts = ts
    BY <1>5
<1> QED BY <1>4, <1>6, <1>8, <1>9

(* A page follows what was shown before, and nothing lies between. *)
LEMMA QueryStep ==
  ASSUME TablesInv, Placed(walk), Covered(walk), Query
  PROVE  Placed(walk') /\ Covered(walk')
<1>1. PICK w : w = walk
    OBVIOUS
<1>2. PICK page : page = Page(w)
    OBVIOUS
<1>3. PICK cursor, stage : /\ walk' = [w EXCEPT !.got = w.got \o page.items, !.cursor = cursor, !.stage = stage]
                           /\ cursor = DecodeCursor(page.next)
                           /\ stage = IF page.next = Null THEN "done" ELSE "request"
    BY <1>1, <1>2 DEF Query
<1>4. Placed(w) /\ Covered(w) /\ w.stage = "query" /\ w.list \in Listings /\ w.limit \in Nat \cup {Null}
    BY <1>1 DEF Query, Placed
<1>5. PICK v : v = walk'
    OBVIOUS
<1>6. PICK items, old : items = page.items /\ old = w.got
    OBVIOUS
<1>7. /\ IsWalk(v) /\ v.list = w.list /\ v.limit = w.limit /\ v.cursor = cursor /\ v.got = old \o items
      /\ v.base = w.base /\ v.of = w.of /\ v.filter = w.filter /\ v.stage = stage
  <2>1. PICK a, b, c, d, e, f, h, i :
          w = [list |-> a, of |-> b, filter |-> c, limit |-> d, cursor |-> e, stage |-> f,
               got |-> old, base |-> h, upTo |-> i]
      BY <1>4, <1>6 DEF Placed, IsWalk
  <2>2. PICK all : all = old \o items
      OBVIOUS
  <2>3. walk' = [w EXCEPT !.got = all, !.cursor = cursor, !.stage = stage]
      BY <1>3, <1>6, <2>2
  <2>4. v = [list |-> a, of |-> b, filter |-> c, limit |-> d, cursor |-> cursor, stage |-> stage,
             got |-> all, base |-> h, upTo |-> i]
      BY <1>5, <2>1, <2>3
  <2> QED BY <2>1, <2>2, <2>4 DEF IsWalk
<1>8. /\ IsTable(w.list, Rows(w)) /\ RowsAfter(w) \in SUBSET Rows(w) /\ IsTable(w.list, RowsAfter(w))
      /\ \A r \in Rows(w) : IsRow(w.list, r) /\ ~Fresh(w.list, r)
    BY <1>4, RowsAreTables, SubTable DEF IsTable
<1>9. \A a, b : Before(v, a, b) <=> Before(w, a, b)
    BY <1>7, SameOrder
<1>10. Rows(v) = Rows(w)
    BY <1>7, SameRows
<1>11. /\ items \in Seq(RowsAfter(w))
       /\ \A i, j \in 1 .. Len(items) : i < j => Before(w, items[i], items[j])
       /\ \/ /\ page.next = Null
             /\ Whole(w) => \A r \in RowsAfter(w) : \E i \in 1 .. Len(items) : items[i] = r
          \/ /\ Len(items) > 0
             /\ page.next = EncodeCursor(w, items[Len(items)])
             /\ \A r \in RowsAfter(w) :
                  (\E i \in 1 .. Len(items) : items[i] = r) \/ Before(w, items[Len(items)], r)
    BY <1>2, <1>4, <1>6, <1>8, Paged
<1>12. PICK m \in Nat : m = Len(items) /\ \A i \in 1 .. m : items[i] \in RowsAfter(w)
    BY <1>11, LenProperties, ElementOfSeq
<1>13. \A i \in 1 .. m : IsRow(w.list, items[i]) /\ ~Fresh(w.list, items[i]) /\ items[i] \in Rows(w)
    BY <1>8, <1>12
<1>14. PICK S : old \in Seq(S) /\ \A r \in S : IsRow(w.list, r) /\ ~Fresh(w.list, r)
    BY <1>4, <1>6 DEF Placed
<1>15. PICK n \in Nat : n = Len(old) /\ \A i \in 1 .. n : old[i] \in S
    BY <1>14, LenProperties, ElementOfSeq
\* The concatenation, position by position.
<1>16. /\ old \o items \in Seq(S \cup RowsAfter(w)) /\ Len(old \o items) = n + m
       /\ \A i \in 1 .. n : (old \o items)[i] = old[i]
       /\ \A i \in 1 .. m : (old \o items)[n + i] = items[i]
  <2>1. old \in Seq(S \cup RowsAfter(w)) /\ items \in Seq(S \cup RowsAfter(w))
      BY <1>11, <1>14, SeqMonotonic
  <2>2. /\ old \o items \in Seq(S \cup RowsAfter(w)) /\ Len(old \o items) = n + m
        /\ \A i \in 1 .. n + m : (old \o items)[i] = IF i <= n THEN old[i] ELSE items[i - n]
      BY <1>12, <1>15, <2>1, ConcatProperties
  <2>3. \A i \in 1 .. n : i \in 1 .. n + m /\ i <= n
      OBVIOUS
  <2>4. \A i \in 1 .. m : n + i \in 1 .. n + m /\ ~(n + i <= n) /\ (n + i) - n = i
      OBVIOUS
  <2> QED BY <2>2, <2>3, <2>4
<1>17. PICK all : all = old \o items
    OBVIOUS
<1>18. /\ all \in Seq(S \cup RowsAfter(w)) /\ Len(all) = n + m /\ v.got = all
       /\ \A i \in 1 .. n : all[i] = old[i]
       /\ \A i \in 1 .. m : all[n + i] = items[i]
    BY <1>7, <1>16, <1>17
\* All that was shown comes before the page.
<1>19. ASSUME NEW i \in 1 .. n, NEW r \in RowsAfter(w)  PROVE Before(w, old[i], r)
  <2>1. n > 0 /\ old # <<>> /\ old[n] = LastShown(w)
    <3>1. n > 0
        BY <1>15
    <3>2. Len(<<>>) = 0
        OBVIOUS
    <3> QED BY <1>6, <1>15, <3>1, <3>2 DEF LastShown
  <2>2. PointsAt(w, old[n])
      BY <1>4, <1>6, <2>1 DEF Placed, Active
  <2>3. IsRow(w.list, old[n]) /\ IsRow(w.list, old[i])
      BY <1>14, <1>15, <2>1
  <2>4. Before(w, old[n], r) /\ IsRow(w.list, r)
      BY <1>4, <1>8, <2>2, <2>3, BehindCursor
  <2>5. CASE i = n
      BY <2>4, <2>5
  <2>6. CASE i # n
    <3>1. Before(w, old[i], old[n])
      <4>1. n \in 1 .. n /\ i < n
          BY <2>1, <2>6
      <4> QED BY <1>4, <1>6, <1>15, <4>1 DEF Placed, InOrder
    <3> QED BY <1>4, <2>3, <2>4, <3>1, Ordered
  <2> QED BY <2>5, <2>6
<1>20. InOrder(v)
  <2> SUFFICES ASSUME NEW i \in 1 .. n + m, NEW j \in 1 .. n + m, i < j PROVE Before(w, all[i], all[j])
      BY <1>9, <1>18 DEF InOrder
  <2>1. CASE j <= n
    <3>1. i \in 1 .. n /\ j \in 1 .. n
        BY <2>1
    <3> QED BY <1>4, <1>6, <1>15, <1>18, <3>1 DEF Placed, InOrder
  <2>2. CASE i <= n /\ ~(j <= n)
    <3>1. i \in 1 .. n /\ j - n \in 1 .. m /\ n + (j - n) = j
        BY <2>2
    <3>2. all[j] = items[j - n] /\ all[i] = old[i]
        BY <1>18, <3>1
    <3> QED BY <1>12, <1>19, <3>1, <3>2
  <2>3. CASE ~(i <= n)
    <3>1. i - n \in 1 .. m /\ j - n \in 1 .. m /\ n + (j - n) = j /\ n + (i - n) = i /\ i - n < j - n
        BY <2>3
    <3>2. all[j] = items[j - n] /\ all[i] = items[i - n]
        BY <1>18, <3>1
    <3> QED BY <1>11, <1>12, <3>1, <3>2
  <2> QED BY <2>1, <2>2, <2>3
\* What a page shows, and what is behind its cursor.
<1>21. /\ \A r : Shown(w, r) => Shown(v, r)
       /\ \A i \in 1 .. m : Shown(v, items[i])
  <2>1. \A i \in 1 .. n : i \in 1 .. n + m
      OBVIOUS
  <2>2. \A i \in 1 .. m : n + i \in 1 .. n + m
      OBVIOUS
  <2> QED BY <1>6, <1>15, <1>18, <2>1, <2>2 DEF Shown
<1>22. ASSUME NEW r \in Rows(w), old # <<>> => Shown(w, r) \/ Before(w, LastShown(w), r)
       PROVE  Shown(w, r) \/ r \in RowsAfter(w)
  <2>1. CASE old = <<>>
    <3>1. w.cursor = Null
        BY <1>4, <1>6, <2>1 DEF Placed
    <3> QED BY <1>4, <3>1, FirstPage
  <2>2. CASE old # <<>>
    <3>1. PointsAt(w, LastShown(w)) /\ IsRow(w.list, LastShown(w))
        BY <1>4, <1>6, <2>2, LastIsRow DEF Placed, Active
    <3>2. RowsAfter(w) = {x \in Rows(w) : Before(w, LastShown(w), x)}
        BY <1>4, <1>8, <3>1, BehindCursor
    <3> QED BY <1>22, <2>2, <3>2
  <2> QED BY <2>1, <2>2
<1>23. ASSUME NEW r \in Rows(w), r \in w.base \/ w.list = "files"
       PROVE  Shown(w, r) \/ r \in RowsAfter(w)
  <2>1. old # <<>> => Shown(w, r) \/ Before(w, LastShown(w), r)
      BY <1>4, <1>6, <1>23 DEF Covered, Active
  <2> QED BY <1>22, <2>1
<1>24. \E T : v.got \in Seq(T) /\ \A r \in T : IsRow(v.list, r) /\ ~Fresh(v.list, r)
    BY <1>7, <1>8, <1>14, <1>18
<1>25. \A r \in v.base : IsRow(v.list, r) /\ ~Fresh(v.list, r)
    BY <1>4, <1>7 DEF Placed
<1>26. CASE /\ page.next = Null
            /\ Whole(w) => \A r \in RowsAfter(w) : \E i \in 1 .. Len(items) : items[i] = r
  <2>1. v.stage = "done" /\ v.cursor = Null
      BY <1>3, <1>7, <1>26 DEF DecodeCursor
  <2>2. Placed(v)
      BY <1>4, <1>7, <1>20, <1>24, <1>25, <2>1 DEF Placed, Active
  <2>3. Whole(v) <=> Whole(w)
      BY <1>7 DEF Whole
  <2>4. ASSUME NEW r \in Rows(w), r \in w.base \/ w.list = "files", Whole(w)  PROVE Shown(v, r)
      BY <1>12, <1>21, <1>23, <1>26, <2>4
  <2>5. w.list = "files" => Whole(w)
      BY DEF Whole
  <2>6. Covered(v)
      BY <1>7, <1>10, <2>1, <2>3, <2>4, <2>5 DEF Covered, Active
  <2> QED BY <1>5, <2>2, <2>6
<1>27. CASE /\ m > 0
            /\ page.next = EncodeCursor(w, items[m])
            /\ \A r \in RowsAfter(w) : (\E i \in 1 .. m : items[i] = r) \/ Before(w, items[m], r)
  <2>1. m \in 1 .. m
      BY <1>27
  <2>2. page.next # Null /\ cursor # Null /\ cursor.id = items[m].id
        /\ (w.list \notin {"devices", "files"} => cursor.ts = items[m].ts)
      BY <1>3, <1>4, <1>13, <1>27, <2>1, CursorOfRow
  <2>3. LastShown(v) = items[m]
      BY <1>18, <2>1 DEF LastShown
  <2>4. v.stage = "request" /\ v.got # <<>> /\ PointsAt(v, LastShown(v))
    <3>1. v.stage = "request"
        BY <1>3, <1>7, <2>2
    <3>2. v.got # <<>>
      <4>1. Len(v.got) > 0 /\ Len(<<>>) = 0
          BY <1>18, <2>1
      <4> QED BY <4>1
    <3>3. PointsAt(v, LastShown(v))
        BY <1>7, <2>2, <2>3 DEF PointsAt
    <3> QED BY <3>1, <3>2, <3>3
  <2>5. Placed(v)
      BY <1>4, <1>7, <1>20, <1>24, <1>25, <2>4 DEF Placed
  <2>6. ASSUME NEW r \in Rows(w), r \in w.base \/ w.list = "files"
        PROVE  Shown(v, r) \/ Before(v, LastShown(v), r)
      BY <1>9, <1>21, <1>23, <1>27, <2>3, <2>6
  <2>7. Covered(v)
      BY <1>7, <1>10, <2>4, <2>6 DEF Covered
  <2> QED BY <1>5, <2>5, <2>7
<1> QED BY <1>11, <1>12, <1>26, <1>27

-----------------------------------------------------------------------------
(* The theorems.                                                           *)

(* The invariant of the listings: tables with ids that go up, and a walk that
   has shown the rows up to its cursor, in order. *)
THEOREM QueryInductive == Spec => []QueryInv
<1>1. Init => QueryInv
  <2> SUFFICES ASSUME Init PROVE QueryInv
      OBVIOUS
  <2>1. IsFiniteSet({})
      BY FS_EmptySet
  <2>2. ids \in [sessions : Nat, files : Nat, entries : Nat, audit : Nat]
      BY DEF Init
  <2> QED BY <2>1, <2>2 DEF Init, QueryInv, TablesInv, IsTable
<1>2. QueryInv /\ [Next]_vars => QueryInv'
  <2> SUFFICES ASSUME QueryInv, [Next]_vars PROVE QueryInv'
      OBVIOUS
  <2>1. TablesInv /\ (walk # NoWalk => Placed(walk) /\ Covered(walk))
      BY DEF QueryInv
  <2>2. PICK w : w = walk
      OBVIOUS
  <2>3. PICK v : v = walk'
      OBVIOUS
  <2>4. CASE Writer
    <3>1. TablesInv' /\ Grows
        BY <2>1, <2>4, WriterStep
    <3>2. v = w
        BY <2>2, <2>3, <3>1 DEF Grows
    <3>3. w # NoWalk => Placed(w)' /\ Covered(w)'
        BY <2>1, <2>2, <3>1, WalkUndisturbed
    <3> QED BY <2>3, <3>1, <3>2, <3>3 DEF QueryInv
  <2>5. ASSUME UNCHANGED <<backend, tables>>, v # NoWalk => Placed(v) /\ Covered(v)
        PROVE  QueryInv'
    <3>1. TablesInv'
        BY <2>1, <2>5 DEF TablesInv, tables
    <3>2. \A list, r : Fresh(list, r)' <=> Fresh(list, r)
        BY <2>5 DEF Fresh, tables
    <3>3. Rows(v)' = Rows(v)
        BY <2>5 DEF Rows, Matches, tables
    <3>4. Placed(v) => Placed(v)'
        BY <3>2 DEF Placed, InOrder, Before
    <3>5. Covered(v) => Covered(v)'
        BY <3>3 DEF Covered, Shown, LastShown, Active, Whole, Before
    <3> QED BY <2>3, <2>5, <3>1, <3>4, <3>5 DEF QueryInv
  <2>6. ASSUME NEW x \in Walks(backend), Start(x) PROVE QueryInv'
      BY <2>1, <2>3, <2>5, <2>6, StartStep DEF Start
  <2>7. CASE Request
    <3>1. walk # NoWalk
        BY <2>7 DEF Request, NoWalk
    <3> QED BY <2>1, <2>3, <2>5, <2>7, <3>1, RequestStep DEF Request
  <2>8. CASE Query
    <3>1. walk # NoWalk
        BY <2>8 DEF Query, NoWalk
    <3> QED BY <2>1, <2>3, <2>5, <2>8, <3>1, QueryStep DEF Query
  <2>9. CASE UNCHANGED vars
      BY <2>1, <2>3, <2>5, <2>9 DEF vars
  <2> QED BY <2>4, <2>6, <2>7, <2>8, <2>9 DEF Next, Writer
<1> QED BY <1>1, <1>2, PTL DEF Spec

\* No client asks the audit log for pages of the largest size.
AuditPagesFit == \A b \in Backends : \A w \in Walks(b) : Whole(w)

(* No file of a session ever appears behind the cursor of a walk over its
   files, for any number of sessions, files and pages. *)
THEOREM NoFileIsMissed == Spec => []NoFileBehind
<1>1. QueryInv => NoFileBehind
  <2> SUFFICES ASSUME QueryInv, walk # NoWalk, walk.list = "files", walk.got # <<>>,
                      NEW f \in Rows(walk), f.id <= walk.got[Len(walk.got)].id
               PROVE  f \in Range(walk.got)
      BY DEF NoFileBehind
  <2>1. PICK w : w = walk
      OBVIOUS
  <2>2. Placed(w) /\ Covered(w) /\ w.list \in Listings
      BY <2>1 DEF QueryInv, Placed
  <2>3. Shown(w, f) \/ Before(w, LastShown(w), f)
      BY <2>1, <2>2 DEF Covered
  <2>4. IsRow(w.list, f)
      BY <2>1, <2>2, RowsAreTables DEF QueryInv, IsTable
  <2>5. ~Before(w, LastShown(w), f)
    <3>1. LastShown(w).id \in Nat /\ f.id \in Nat /\ f.id <= LastShown(w).id
        BY <2>1, <2>2, <2>4, LastIsRow DEF IsRow, LastShown
    <3>2. ~(LastShown(w).id < f.id)
        BY <3>1
    <3> QED BY <2>1, <3>2 DEF Before
  <2>6. \E i \in DOMAIN w.got : w.got[i] = f
    <3>1. DOMAIN w.got = 1 .. Len(w.got)
        BY <2>2, LenProperties DEF Placed
    <3> QED BY <2>3, <2>5, <3>1 DEF Shown
  <2> QED BY <2>1, <2>6 DEF Range
<1> QED BY <1>1, QueryInductive, PTL

\* A walk is one that some client asked for.
Asked == walk # NoWalk =>
           \E x \in Walks(backend) :
             walk.list = x.list /\ walk.limit = x.limit /\ walk.filter = x.filter

(* Its listing, its limit and its filter are the ones it was started with. *)
LEMMA AskedStep ==
  ASSUME QueryInv, Asked, [Next]_vars
  PROVE  Asked'
<1>1. PICK w : w = walk
    OBVIOUS
<1>2. ASSUME UNCHANGED <<backend, walk>> PROVE Asked'
    BY <1>2 DEF Asked
<1>3. CASE Writer
    BY <1>2, <1>3, WriterStep DEF QueryInv, Grows
<1>4. ASSUME NEW x \in Walks(backend), Start(x) PROVE Asked'
  <2>1. /\ walk'.list = x.list /\ walk'.limit = x.limit /\ walk'.filter = x.filter
        /\ backend' = backend
      BY <1>4 DEF Start
  <2> QED BY <2>1 DEF Asked
<1>5. CASE Request \/ Query
  <2>1. walk # NoWalk /\ UNCHANGED backend
      BY <1>5 DEF Request, Query, NoWalk
  <2>2. PICK a, b, c, d, e, f, g, h, i :
          w = [list |-> a, of |-> b, filter |-> c, limit |-> d, cursor |-> e, stage |-> f,
               got |-> g, base |-> h, upTo |-> i]
      BY <1>1, <2>1 DEF QueryInv, Placed, IsWalk
  <2>3. CASE Request
    <3>1. PICK s : walk' = [w EXCEPT !.stage = s]
        BY <1>1, <2>3 DEF Request
    <3> QED BY <2>1, <2>2, <3>1, <1>1 DEF Asked
  <2>4. CASE Query
    <3>1. PICK p, q, s : walk' = [w EXCEPT !.got = p, !.cursor = q, !.stage = s]
      <4>1. PICK page : page = Page(w)
          OBVIOUS
      <4> QED BY <1>1, <2>4, <4>1 DEF Query
    <3> QED BY <2>1, <2>2, <3>1, <1>1 DEF Asked
  <2> QED BY <1>5, <2>3, <2>4
<1>6. CASE UNCHANGED vars
    BY <1>2, <1>6 DEF vars
<1> QED BY <1>3, <1>4, <1>5, <1>6 DEF Next, Writer

(* Where no client asks the audit log for pages of the largest size, no walk
   goes back or repeats a row, and one that ends without an error has returned
   every row that was there from its first request to its last, whatever is
   inserted and deleted between its pages. *)
THEOREM WalksExact ==
  ASSUME AuditPagesFit
  PROVE  Spec => []WalkExact
<1>1. Init => Asked
    BY DEF Init, Asked
<1>2. QueryInv /\ Asked /\ [Next]_vars => Asked'
    BY AskedStep
<1>3. QueryInv /\ Asked => WalkExact
  <2> SUFFICES ASSUME QueryInv, Asked, walk # NoWalk
               PROVE  /\ InOrder(walk)
                      /\ walk.stage = "done" => (walk.base \cap Rows(walk)) \subseteq Range(walk.got)
      BY DEF WalkExact
  <2>1. PICK w : w = walk
      OBVIOUS
  <2>2. Placed(w) /\ Covered(w)
      BY <2>1 DEF QueryInv
  <2>3. Whole(w)
    <3>1. PICK x \in Walks(backend) : w.list = x.list /\ w.limit = x.limit
        BY <2>1 DEF Asked
    <3>2. Whole(x)
        BY DEF AuditPagesFit, QueryInv, TablesInv
    <3> QED BY <3>1, <3>2 DEF Whole
  <2>4. ASSUME w.stage = "done", NEW r \in w.base, r \in Rows(w)  PROVE r \in Range(w.got)
    <3>1. DOMAIN w.got = 1 .. Len(w.got)
        BY <2>2, LenProperties DEF Placed
    <3>2. \E i \in DOMAIN w.got : w.got[i] = r
        BY <2>2, <2>3, <2>4, <3>1 DEF Covered, Shown
    <3> QED BY <3>2 DEF Range
  <2> QED BY <2>1, <2>2, <2>4 DEF Placed
<1> QED BY <1>1, <1>2, <1>3, QueryInductive, PTL DEF Spec

-----------------------------------------------------------------------------
(* What the stores keep and what a search finds.                           *)

\* The entries have the text the parser produced, and a message is a text.
EntriesInv == StoredVerbatim /\ \A e \in entries : IsText(e.message)

(* Both stores give a text back as it was. *)
LEMMA StoredIsText ==
  ASSUME NEW text, text = Null \/ IsText(text)
  PROVE  Stored(text) = text
<1>1. text \in Seq(Range(text)) \cup {Null}
    BY DEF IsText
<1>2. CopyField(PushTextOrNull(text, Null), Null) = text
    BY <1>1, CopyRoundTrip
<1> QED BY <1>2 DEF Stored

(* Only a batch of the parse worker adds entries. *)
LEMMA EntriesStep ==
  ASSUME EntriesInv, [Next]_vars
  PROVE  EntriesInv'
<1>1. ASSUME entries' \subseteq entries PROVE EntriesInv'
    BY <1>1 DEF EntriesInv, StoredVerbatim
<1>2. ASSUME NEW f \in files, NEW batch \in Batches, InsertEntries(f, batch) PROVE EntriesInv'
  <2>1. PICK n : n = ids.entries
      OBVIOUS
  <2>2. entries' = entries \cup
          {[id |-> n + i, session |-> f.session, file |-> f.id, ts |-> batch[i].ts,
            severity |-> batch[i].severity, message |-> Stored(batch[i].message),
            component |-> Stored(batch[i].component), parsed |-> batch[i]] : i \in 1 .. Len(batch)}
      BY <1>2, <2>1 DEF InsertEntries
  <2>3. ASSUME NEW e \in entries', e \notin entries
        PROVE  IsText(e.message) /\ e.message = e.parsed.message /\ e.component = e.parsed.component
    <3>1. PICK i \in 1 .. Len(batch) : /\ e.message = Stored(batch[i].message)
                                       /\ e.component = Stored(batch[i].component)
                                       /\ e.parsed = batch[i]
        BY <2>2, <2>3
    <3>2. IsText(batch[i].message) /\ (batch[i].component = Null \/ IsText(batch[i].component))
        BY QueryAssumption
    <3> QED BY <3>1, <3>2, StoredIsText
  <2> QED BY <2>3 DEF EntriesInv, StoredVerbatim
<1>3. ASSUME NEW d \in Devices, UpsertDevice(d) PROVE EntriesInv'
    BY <1>1, <1>3 DEF UpsertDevice
<1>4. ASSUME NEW d \in Devices, NEW ts \in Times, InsertSession(d, ts) PROVE EntriesInv'
    BY <1>1, <1>4 DEF InsertSession
<1>5. ASSUME NEW s \in sessions, InsertFile(s) PROVE EntriesInv'
    BY <1>1, <1>5 DEF InsertFile
<1>6. ASSUME NEW s \in sessions, DeleteSession(s) PROVE EntriesInv'
    BY <1>1, <1>6 DEF DeleteSession
<1>7. ASSUME NEW ts \in Times, InsertAuditRow(ts) PROVE EntriesInv'
    BY <1>1, <1>7 DEF InsertAuditRow
<1>8. ASSUME NEW x \in Walks(backend), Start(x) PROVE EntriesInv'
    BY <1>1, <1>8 DEF Start, tables
<1>9. CASE Request \/ Query
    BY <1>1, <1>9 DEF Request, Query, tables
<1>10. CASE UNCHANGED vars
    BY <1>1, <1>10 DEF vars, tables
<1> QED BY <1>2, <1>3, <1>4, <1>5, <1>6, <1>7, <1>8, <1>9, <1>10 DEF Next

(* Both stores give back the text the parser produced, for texts of any length
   over any characters, the two characters of the NULL marker included. *)
THEOREM TextsVerbatim == Spec => []StoredVerbatim
<1>1. Init => EntriesInv
    BY DEF Init, EntriesInv, StoredVerbatim
<1>2. EntriesInv => StoredVerbatim
    BY DEF EntriesInv
<1> QED BY <1>1, <1>2, EntriesStep, PTL DEF Spec

\* SQLite is searched for texts without metacharacters only.
SearchesPlain ==
  \A b \in Backends : \A w \in Walks(b) :
    b # "postgres" /\ w.filter.q # Null =>
      \A k \in 1 .. Len(w.filter.q) : w.filter.q[k] \notin Metacharacters

(* A pattern that some client's search is made of finds what contains its text. *)
LEMMA SearchFinds ==
  ASSUME SearchesPlain, NEW b \in Backends, NEW x \in Walks(b), x.filter.q # Null,
         NEW text, IsText(text)
  PROVE  Like(b, BuildLikePattern(x.filter.q), text) <=> HasSubstring(b, text, x.filter.q)
<1>1. PICK q : q = x.filter.q
    OBVIOUS
<1>2. IsText(q)
    BY <1>1, QueryAssumption
<1>3. q \in Seq(Range(q)) /\ Len(text) \in Nat
    BY <1>2, LenProperties DEF IsText
<1>4. b = "postgres" \/ \A k \in 1 .. Len(q) : q[k] \notin Metacharacters
    BY <1>1 DEF SearchesPlain
<1> QED BY <1>1, <1>3, <1>4, LikeIsSubstring

\* A search has shown only what contains the text, and all entries it may still
\* have to show that were there when it began are in its base.
Found(engine, w) ==
  w.list = "entries" /\ w.filter.q # Null =>
    /\ \A i \in 1 .. Len(w.got) : HasSubstring(engine, w.got[i].message, w.filter.q)
    /\ w.upTo \in Nat /\ w.upTo <= ids.entries
    /\ \A e \in Rows(w) : e.id <= w.upTo => e \in w.base

(* A page adds rows of the listing, and a walk keeps what it was started with. *)
LEMMA WalkGoesOn ==
  ASSUME QueryInv, Request \/ Query
  PROVE  /\ walk # NoWalk
         /\ walk'.list = walk.list /\ walk'.of = walk.of /\ walk'.filter = walk.filter
         /\ walk'.base = walk.base /\ walk'.upTo = walk.upTo
         /\ \/ walk'.got = walk.got
            \/ \E items \in Seq(Rows(walk)) : walk'.got = walk.got \o items
<1>1. walk # NoWalk
    BY DEF Request, Query, NoWalk
<1>2. PICK w : w = walk
    OBVIOUS
<1>3. Placed(w) /\ Covered(w) /\ TablesInv
    BY <1>1, <1>2 DEF QueryInv
<1>4. PICK a, b, c, d, e, f, g, h, i :
        w = [list |-> a, of |-> b, filter |-> c, limit |-> d, cursor |-> e, stage |-> f,
             got |-> g, base |-> h, upTo |-> i]
    BY <1>3 DEF Placed, IsWalk
<1>5. CASE Request
  <2>1. PICK s : walk' = [w EXCEPT !.stage = s]
      BY <1>2, <1>5 DEF Request
  <2> QED BY <1>1, <1>2, <1>4, <2>1
<1>6. CASE Query
  <2>1. PICK page : page = Page(w)
      OBVIOUS
  <2>2. PICK all : all = w.got \o page.items
      OBVIOUS
  <2>3. PICK q, s : walk' = [w EXCEPT !.got = all, !.cursor = q, !.stage = s]
      BY <1>2, <1>6, <2>1, <2>2 DEF Query
  <2>4. w.list \in Listings /\ w.limit \in Nat \cup {Null}
      BY <1>3 DEF Placed
  <2>5. IsTable(w.list, RowsAfter(w)) /\ RowsAfter(w) \in SUBSET Rows(w)
      BY <1>3, <2>4, RowsAreTables, SubTable
  <2>6. page.items \in Seq(RowsAfter(w))
      BY <2>1, <2>4, <2>5, Paged
  <2>7. page.items \in Seq(Rows(w))
      BY <2>5, <2>6, SeqMonotonic
  <2> QED BY <1>1, <1>2, <1>4, <2>2, <2>3, <2>7
<1> QED BY <1>5, <1>6

(* Whatever is inserted and deleted meanwhile, a search stays one. *)
LEMMA FoundStep ==
  ASSUME SearchesPlain, QueryInv, Asked, EntriesInv, [Next]_vars,
         walk # NoWalk => Found(backend, walk)
  PROVE  walk' # NoWalk => Found(backend, walk)'
<1>1. PICK w, b : w = walk /\ b = backend
    OBVIOUS
<1>2. PICK v : v = walk'
    OBVIOUS
<1>3. TablesInv /\ ids.entries \in Nat /\ (w # NoWalk => Found(b, w) /\ Placed(w))
    BY <1>1 DEF QueryInv, TablesInv
<1>4. CASE Writer
  <2>1. TablesInv' /\ Grows
      BY <1>3, <1>4, WriterStep
  <2>2. v = w /\ backend' = b
      BY <1>1, <1>2, <2>1 DEF Grows
  <2>3. ASSUME w # NoWalk, w.list = "entries", w.filter.q # Null
        PROVE  /\ w.upTo <= ids'.entries
               /\ \A e \in Rows(w)' : e.id <= w.upTo => e \in w.base
    <3>1. w.upTo \in Nat /\ w.upTo <= ids.entries /\ \A e \in Rows(w) : e.id <= w.upTo => e \in w.base
        BY <1>3, <2>3 DEF Found
    <3>2. ids.entries <= ids'.entries /\ ids'.entries \in Nat
        BY <2>1 DEF Grows, TablesInv
    <3>3. \A e \in Rows(w)' : e \in Rows(w) \/ e.id > ids.entries
      <4>1. \A e \in Rows(w)' : e \in Rows(w) \/ Fresh(w.list, e)
          BY <1>3, <2>1, <2>3, GrownRows DEF Listings
      <4> QED BY <2>3, <4>1 DEF Fresh
    <3>4. \A e \in Rows(w)' : e.id \in Nat
      <4>1. \A e \in Rows(w)' : e \in entries'
          BY <2>3 DEF Rows
      <4> QED BY <2>1, <4>1 DEF TablesInv, IsTable, IsRow
    <3> QED BY <1>3, <3>1, <3>2, <3>3, <3>4
  <2>4. w # NoWalk => Found(b, w)'
      BY <1>3, <2>3 DEF Found
  <2> QED BY <1>2, <2>2, <2>4
<1>5. ASSUME UNCHANGED <<backend, tables>>, v # NoWalk => Found(b, v)
      PROVE  v # NoWalk => Found(backend, walk)'
  <2>1. Rows(v)' = Rows(v)
      BY <1>5 DEF Rows, Matches, tables
  <2>2. Found(b, v)' <=> Found(b, v)
      BY <1>5, <2>1 DEF Found, tables
  <2> QED BY <1>1, <1>2, <1>5, <2>2
<1>6. ASSUME NEW x \in Walks(backend), Start(x) PROVE walk' # NoWalk => Found(backend, walk)'
  <2>1. /\ v.list = x.list /\ v.of = x.of /\ v.filter = x.filter
        /\ v.got = <<>> /\ v.base = Rows(x) /\ v.upTo = ids.entries
      BY <1>2, <1>6 DEF Start
  <2>2. Rows(v) = Rows(x)
      BY <2>1, SameRows
  <2>3. Found(b, v)
      BY <1>3, <2>1, <2>2 DEF Found
  <2> QED BY <1>2, <1>5, <1>6, <2>3 DEF Start
<1>7. CASE Request \/ Query
  <2>1. /\ w # NoWalk
        /\ v.list = w.list /\ v.of = w.of /\ v.filter = w.filter
        /\ v.base = w.base /\ v.upTo = w.upTo
        /\ v.got = w.got \/ \E items \in Seq(Rows(w)) : v.got = w.got \o items
      BY <1>1, <1>2, <1>7, WalkGoesOn
  <2>2. Rows(v) = Rows(w)
      BY <2>1, SameRows
  <2>3. ASSUME w.list = "entries", w.filter.q # Null
        PROVE  \A i \in 1 .. Len(v.got) : HasSubstring(b, v.got[i].message, w.filter.q)
    <3>1. \A i \in 1 .. Len(w.got) : HasSubstring(b, w.got[i].message, w.filter.q)
        BY <1>3, <2>1, <2>3 DEF Found
    <3>2. ASSUME NEW e \in Rows(w)  PROVE HasSubstring(b, e.message, w.filter.q)
      <4>1. e \in entries /\ Like(b, BuildLikePattern(w.filter.q), e.message)
          BY <1>1, <2>3 DEF Rows, Matches
      <4>2. PICK x \in Walks(b) : w.filter = x.filter
          BY <1>1, <2>1 DEF Asked
      <4>3. b \in Backends /\ IsText(e.message)
          BY <1>1, <1>3, <4>1 DEF TablesInv, EntriesInv
      <4> QED BY <2>3, <4>1, <4>2, <4>3, SearchFinds
    <3>3. CASE v.got = w.got
        BY <3>1, <3>3
    <3>4. ASSUME NEW items \in Seq(Rows(w)), v.got = w.got \o items
          PROVE  \A i \in 1 .. Len(v.got) : HasSubstring(b, v.got[i].message, w.filter.q)
      <4>1. PICK S : w.got \in Seq(S)
          BY <1>3, <2>1 DEF Placed
      <4>2. PICK old, m, n : old = w.got /\ n = Len(old) /\ n \in Nat /\ m = Len(items) /\ m \in Nat
          BY <4>1, LenProperties
      <4>3. Len(old \o items) = n + m
            /\ \A i \in 1 .. n + m : (old \o items)[i] = IF i <= n THEN old[i] ELSE items[i - n]
        <5>1. old \in Seq(S \cup Rows(w)) /\ items \in Seq(S \cup Rows(w))
            BY <4>1, <4>2, SeqMonotonic
        <5> QED BY <4>2, <5>1, ConcatProperties
      <4>4. ASSUME NEW i \in 1 .. n + m  PROVE HasSubstring(b, v.got[i].message, w.filter.q)
        <5>1. CASE i <= n
          <6>1. i \in 1 .. n /\ v.got[i] = old[i]
              BY <3>4, <4>2, <4>3, <5>1
          <6> QED BY <3>1, <4>2, <6>1
        <5>2. CASE ~(i <= n)
          <6>1. i - n \in 1 .. m
              BY <4>2, <5>2
          <6>2. items[i - n] \in Rows(w)
              BY <4>2, <6>1, ElementOfSeq
          <6>3. v.got[i] = items[i - n]
              BY <3>4, <4>2, <4>3, <5>2
          <6> QED BY <3>2, <6>2, <6>3
        <5> QED BY <5>1, <5>2
      <4> QED BY <3>4, <4>2, <4>3, <4>4
    <3> QED BY <2>1, <3>3, <3>4
  <2>4. Found(b, v)
      BY <1>3, <2>1, <2>2, <2>3 DEF Found
  <2> QED BY <1>2, <1>5, <1>7, <2>4 DEF Request, Query
<1>8. CASE UNCHANGED vars
  <2>1. v = w
      BY <1>1, <1>2, <1>8 DEF vars
  <2> QED BY <1>1, <1>2, <1>3, <1>5, <1>8, <2>1 DEF vars
<1> QED BY <1>2, <1>4, <1>6, <1>7, <1>8 DEF Next, Writer

(* A search returns the entries whose message contains the text, and no others,
   whatever characters the text is made of on Postgres, and for texts without
   metacharacters on SQLite. *)
THEOREM SearchesExact ==
  ASSUME SearchesPlain
  PROVE  Spec => []SearchIsSubstring
<1> DEFINE SearchInv == /\ QueryInv /\ Asked /\ EntriesInv
                        /\ walk # NoWalk => Found(backend, walk)
<1>1. Init => Asked /\ EntriesInv /\ (walk # NoWalk => Found(backend, walk))
    BY DEF Init, Asked, EntriesInv, StoredVerbatim
<1>2. QueryInv /\ Asked /\ EntriesInv /\ (walk # NoWalk => Found(backend, walk)) /\ [Next]_vars
        => Asked' /\ EntriesInv' /\ (walk # NoWalk => Found(backend, walk))'
    BY AskedStep, EntriesStep, FoundStep
<1>3. QueryInv /\ Asked /\ EntriesInv /\ (walk # NoWalk => Found(backend, walk)) => SearchIsSubstring
  <2> SUFFICES ASSUME SearchInv, walk # NoWalk, walk.list = "entries", walk.filter.q # Null
               PROVE  /\ \A e \in Range(walk.got) : HasSubstring(backend, e.message, walk.filter.q)
                      /\ walk.stage = "done" /\ OnlyText(walk.filter) =>
                           \A e \in entries : e.session = walk.of /\ e.id <= walk.upTo
                                              /\ HasSubstring(backend, e.message, walk.filter.q)
                                                => e \in Range(walk.got)
      BY DEF SearchIsSubstring
  <2>1. PICK w, b : w = walk /\ b = backend
      OBVIOUS
  <2>2. Placed(w) /\ Covered(w) /\ Found(b, w) /\ b \in Backends /\ EntriesInv
      BY <2>1 DEF QueryInv, TablesInv
  <2>3. Range(w.got) = {w.got[i] : i \in 1 .. Len(w.got)}
    <3>1. DOMAIN w.got = 1 .. Len(w.got)
        BY <2>2, LenProperties DEF Placed
    <3> QED BY <3>1 DEF Range
  <2>4. \A e \in Range(w.got) : HasSubstring(b, e.message, w.filter.q)
      BY <2>1, <2>2, <2>3 DEF Found
  <2>5. ASSUME w.stage = "done", OnlyText(w.filter), NEW e \in entries, e.session = w.of,
               e.id <= w.upTo, HasSubstring(b, e.message, w.filter.q)
        PROVE  e \in Range(w.got)
    <3>1. PICK x \in Walks(b) : w.filter = x.filter
        BY <2>1 DEF Asked
    <3>2. Like(b, BuildLikePattern(w.filter.q), e.message)
        BY <2>1, <2>2, <2>5, <3>1, SearchFinds DEF EntriesInv
    <3>3. /\ w.filter.file = Null /\ w.filter.severity = Null
          /\ w.filter.after = Null /\ w.filter.before = Null
        BY <2>5 DEF OnlyText
    <3>4. e \in Rows(w)
        BY <2>1, <2>5, <3>2, <3>3 DEF Rows, Matches
    <3>5. e \in w.base
        BY <2>1, <2>2, <2>5, <3>4 DEF Found
    <3>6. Shown(w, e)
        BY <2>1, <2>2, <2>5, <3>4, <3>5 DEF Covered, Whole
    <3> QED BY <2>3, <3>6 DEF Shown
  <2> QED BY <2>1, <2>4, <2>5
<1> QED BY <1>1, <1>2, <1>3, QueryInductive, PTL DEF Spec
=============================================================================
