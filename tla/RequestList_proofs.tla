------------------------- MODULE RequestList_proofs -------------------------
(***************************************************************************)
(* Proofs about the list of conversations, for any conversations and any   *)
(* page size: it has no hole, and its rows are Core's.                     *)
(*                                                                         *)
(* A page that is read holds every conversation down to where it ends, and *)
(* every one called since an earlier page was read, for they fit a page.   *)
(* What happens until the page arrives brings calls that are newer than    *)
(* it, and deletions; neither makes a hole.                                *)
(*                                                                         *)
(* A row is what Core had of its conversation at some time (OlderRows), so *)
(* a later page replaces it by Core's or a newer one.  What a page under   *)
(* way may bring back of a deleted conversation is counted from the        *)
(* deletion on (Leftovers).                                                *)
(***************************************************************************)
EXTENDS RequestList, FiniteSetTheorems, WellFoundedInduction, TLAPS

Rows == [Session -> [at : Nat, changed : Nat]]
Pages == [rows : Rows, next : Nat, at : Nat]
Newer(at) == {t \in Existing : core[t].at > at}

\* The page holds what Core has between two times.
Holds(page, low, high) ==
    \A s \in Existing : low <= core[s].at /\ core[s].at <= high => s \in In(page.rows)
\* The page holds what was called after a time, as far as it had been when it
\* was read.
Covers(page, at) ==
    \A s \in Existing : at < core[s].at /\ core[s].at <= page.at => s \in In(page.rows)

TypeOK ==
    /\ core \in Rows /\ clock \in Nat /\ \A s \in Session : core[s].at <= clock
    /\ items \in Rows /\ queued \subseteq Session
    /\ cursor \in Nat /\ cursor <= clock /\ seen \in Nat /\ seen <= clock
    /\ read \in [phase : {"idle", "sent", "read"}, load : BOOLEAN, page : Pages]
    /\ read.page.at <= clock /\ read.page.next <= clock
    /\ more \in [phase : {"idle", "read"}, from : Nat, page : Pages]
    /\ more.from <= clock /\ more.page.next <= clock
    /\ del \in [phase : {"idle", "sent", "done", "read"}, purge : BOOLEAN,
                gone : SUBSET Session, current : BOOLEAN, page : Pages]
    /\ del.page.at <= clock /\ del.page.next <= clock

\* What was called since a page was read fits a page.
Fits == \A at \in Reads : Cardinality(Newer(at)) <= Limit

\* A page under way.
ReadInv ==
    read.phase = "read" =>
        /\ Holds(read.page, read.page.next, read.page.at)
        /\ Covers(read.page, seen)
        /\ \A s \in Existing :
            read.page.at < core[s].at /\ core[s].at <= seen => s \in In(items)
MoreInv ==
    more.phase = "read" =>
        /\ more.from # 0
        /\ \A s \in Existing :
            more.page.next <= core[s].at /\ core[s].at < more.from => s \in In(more.page.rows)
DelInv ==
    /\ del.phase \in {"done", "read"} => del.gone \cap Existing = {}
    /\ del.phase = "read" => Holds(del.page, del.page.next, del.page.at)
    /\ del.phase = "read" /\ read.phase = "read" =>
        Covers(del.page, read.page.at) /\ Covers(read.page, del.page.at)

\* The list is whole, or it was emptied and starts again.
Whole == \A s \in Existing : cursor <= core[s].at /\ core[s].at <= seen => s \in In(items)
Emptied == In(items) = {} /\ cursor = 0 /\ (read.phase = "read" => seen <= read.page.at)

GapInv == TypeOK /\ Fits /\ ReadInv /\ MoreInv /\ DelInv /\ (Whole \/ Emptied)

-----------------------------------------------------------------------------
LEMMA LeastExists ==
    ASSUME NEW T \in SUBSET Nat, T # {}
    PROVE  \E x \in T : \A y \in T : x <= y
<1>1. PICK x \in T : \A y \in T : ~(<<y, x>> \in OpToRel(<, Nat))
  BY NatLessThanWellFounded, WFMin
<1>2. \A y \in T : ~(y < x)
  BY <1>1 DEF OpToRel
<1>3. QED
  BY <1>2

\* Of any conversations one has the newest call, and one the oldest.
LEMMA NewestAndOldest ==
    ASSUME TypeOK, NEW R \in SUBSET Existing, R # {}
    PROVE  /\ \E s \in R : \A t \in R : core[t].at <= core[s].at
           /\ \E s \in R : \A t \in R : core[s].at <= core[t].at
<1> DEFINE ages == {clock - core[s].at : s \in R}
           times == {core[s].at : s \in R}
<1>1. \A s \in R : core[s].at \in Nat /\ core[s].at <= clock /\ clock \in Nat
  BY DEF TypeOK, Existing, Rows
<1>2. \E s \in R : \A t \in R : core[t].at <= core[s].at
  <2>1. ages \in SUBSET Nat /\ ages # {}
    BY <1>1
  <2>2. PICK x \in ages : \A y \in ages : x <= y
    BY <2>1, LeastExists
  <2>3. PICK s \in R : x = clock - core[s].at
    BY <2>2
  <2>4. \A t \in R : clock - core[s].at <= clock - core[t].at
    BY <2>2, <2>3
  <2>5. QED
    BY <1>1, <2>4
<1>3. \E s \in R : \A t \in R : core[s].at <= core[t].at
  <2>1. times \in SUBSET Nat /\ times # {}
    BY <1>1
  <2>2. PICK x \in times : \A y \in times : x <= y
    BY <2>1, LeastExists
  <2>3. QED
    BY <2>2
<1>4. QED
  BY <1>2, <1>3

\* The rest of Core's list behind a cursor, and the rows a page takes of it.
Rest(from) == {s \in Existing : from = 0 \/ core[s].at < from}
Taken(from) ==
    {s \in Rest(from) : Cardinality({t \in Rest(from) : core[t].at > core[s].at}) < Limit}

LEMMA PageIs ==
    ASSUME TypeOK, NEW from
    PROVE  /\ PageFrom(from).rows = [s \in Session |-> IF s \in Taken(from) THEN core[s] ELSE NoRow]
           /\ Taken(from) = Rest(from) => PageFrom(from).next = 0
           /\ Taken(from) # Rest(from) =>
                PageFrom(from).next =
                    CHOOSE at \in {core[s].at : s \in Taken(from)} :
                        \A s \in Taken(from) : core[s].at >= at
           /\ PageFrom(from).at = clock
           /\ PageFrom(from) = [rows |-> PageFrom(from).rows, next |-> PageFrom(from).next,
                               at |-> PageFrom(from).at]
           /\ In(PageFrom(from).rows) = Taken(from)
<1>1. PageFrom(from) =
        [rows |-> [s \in Session |-> IF s \in Taken(from) THEN core[s] ELSE NoRow],
         next |-> IF Taken(from) = Rest(from) THEN 0
                  ELSE CHOOSE at \in {core[s].at : s \in Taken(from)} :
                         \A s \in Taken(from) : core[s].at >= at,
         at |-> clock]
  BY DEF PageFrom, Rest, Taken
<1> DEFINE oldest == CHOOSE at \in {core[s].at : s \in Taken(from)} :
                        \A s \in Taken(from) : core[s].at >= at
           rows == [s \in Session |-> IF s \in Taken(from) THEN core[s] ELSE NoRow]
<1>2. In(rows) = Taken(from)
  BY DEF In, Taken, Rest, Existing, NoRow
<1> HIDE DEF oldest, rows
<1>3. PageFrom(from) =
        [rows |-> rows, next |-> IF Taken(from) = Rest(from) THEN 0 ELSE oldest, at |-> clock]
  BY <1>1 DEF oldest, rows
<1>4. /\ PageFrom(from).rows = rows /\ PageFrom(from).at = clock
      /\ Taken(from) = Rest(from) => PageFrom(from).next = 0
      /\ Taken(from) # Rest(from) => PageFrom(from).next = oldest
  BY <1>3
<1>5. PageFrom(from) = [rows |-> PageFrom(from).rows, next |-> PageFrom(from).next,
                        at |-> PageFrom(from).at]
  BY <1>3
<1>6. QED
  BY <1>2, <1>4, <1>5 DEF oldest, rows

\* A page that ends behind a row ends behind its oldest one.
LEMMA NextIsOldest ==
    ASSUME ListAssumption, TypeOK, NEW from \in Nat, Taken(from) # Rest(from)
    PROVE  \E s \in Taken(from) :
              /\ PageFrom(from).next = core[s].at
              /\ \A t \in Taken(from) : core[s].at <= core[t].at
<1>1. Rest(from) \in SUBSET Existing /\ Rest(from) # {} /\ Taken(from) \in SUBSET Existing
  BY DEF Rest, Taken
<1>2. Taken(from) # {}
  <2>1. PICK s \in Rest(from) : \A t \in Rest(from) : core[t].at <= core[s].at
    BY <1>1, NewestAndOldest
  <2>2. {t \in Rest(from) : core[t].at > core[s].at} = {}
    BY <1>1, <2>1 DEF TypeOK, Existing, Rows
  <2>3. QED
    BY <2>2, FS_EmptySet DEF Taken, ListAssumption
<1>3. PICK s \in Taken(from) : \A t \in Taken(from) : core[s].at <= core[t].at
  BY <1>1, <1>2, NewestAndOldest
<1> DEFINE Least(at) == at \in {core[t].at : t \in Taken(from)} /\ \A t \in Taken(from) : core[t].at >= at
<1>4. \A t \in Taken(from) : core[t].at \in Nat
  BY <1>1 DEF TypeOK, Existing, Rows
<1>5. Least(core[s].at)
  BY <1>3, <1>4
<1>6. Least(PageFrom(from).next)
  <2>1. PageFrom(from).next =
          CHOOSE at \in {core[t].at : t \in Taken(from)} :
              \A t \in Taken(from) : core[t].at >= at
    BY PageIs
  <2>2. QED
    BY <1>5, <2>1
<1>7. PageFrom(from).next = core[s].at
  BY <1>3, <1>4, <1>6
<1>8. QED
  BY <1>3, <1>7

\* A page holds every conversation from where it begins down to where it ends.
LEMMA PageHolds ==
    ASSUME ListAssumption, TypeOK, NEW from \in Nat
    PROVE  /\ PageFrom(from) \in Pages
           /\ PageFrom(from).at = clock /\ PageFrom(from).next <= clock
           /\ \A s \in Existing :
                PageFrom(from).next <= core[s].at /\ (from = 0 \/ core[s].at < from)
                    => s \in In(PageFrom(from).rows)
<1> DEFINE page == PageFrom(from)
<1>1. page.next \in Nat /\ page.next <= clock
  <2>1. CASE Taken(from) = Rest(from)
    <3>1. page.next = 0
      BY <2>1, PageIs
    <3>2. QED
      BY <3>1 DEF TypeOK
  <2>2. CASE Taken(from) # Rest(from)
    BY <2>2, NextIsOldest DEF Taken, Rest, Existing, TypeOK, Rows
  <2>3. QED
    BY <2>1, <2>2
<1>2. page.rows \in Rows
  <2>1. page.rows = [s \in Session |-> IF s \in Taken(from) THEN core[s] ELSE NoRow]
    BY PageIs
  <2>2. \A s \in Session : core[s] \in [at : Nat, changed : Nat]
    BY DEF TypeOK, Rows
  <2>3. QED
    BY <2>1, <2>2 DEF Rows, NoRow
<1>3. page \in Pages /\ page.at = clock
  <2>1. page.at = clock /\ page = [rows |-> page.rows, next |-> page.next, at |-> page.at]
    BY PageIs
  <2>2. clock \in Nat
    BY DEF TypeOK
  <2>3. QED
    BY <1>1, <1>2, <2>1, <2>2 DEF Pages
<1>4. ASSUME NEW s \in Existing, page.next <= core[s].at, from = 0 \/ core[s].at < from
      PROVE  s \in In(page.rows)
  <2>1. s \in Rest(from)
    BY <1>4 DEF Rest
  <2>2. CASE Taken(from) = Rest(from)
    BY <2>1, <2>2, PageIs
  <2>3. CASE Taken(from) # Rest(from)
    <3>1. PICK t \in Taken(from) : page.next = core[t].at
      BY <2>3, NextIsOldest
    <3> DEFINE above(u) == {v \in Rest(from) : core[v].at > core[u].at}
    <3>2. IsFiniteSet(Rest(from))
      BY FS_Subset DEF ListAssumption, Rest, Existing
    <3>3. above(s) \in SUBSET above(t)
      BY <1>4, <2>1, <3>1 DEF Taken, Rest, Existing, TypeOK, Rows
    <3>4. IsFiniteSet(above(t))
      BY <3>2, FS_Subset
    <3>5. Cardinality(above(s)) <= Cardinality(above(t))
      BY <3>3, <3>4, FS_Subset
    <3>6. Cardinality(above(t)) < Limit
      BY <3>1 DEF Taken
    <3>7. Cardinality(above(s)) \in Nat /\ Cardinality(above(t)) \in Nat
      BY <3>3, <3>4, FS_Subset, FS_CardinalityType
    <3>8. s \in Taken(from)
      BY <2>1, <3>5, <3>6, <3>7 DEF Taken, ListAssumption
    <3>9. QED
      BY <3>8, PageIs
  <2>4. QED
    BY <2>2, <2>3
<1>5. QED
  BY <1>1, <1>3, <1>4

\* The first page holds what was called since some time, when that fits it.
LEMMA PageCovers ==
    ASSUME ListAssumption, TypeOK, NEW at \in Nat, Cardinality(Newer(at)) <= Limit
    PROVE  Covers(PageFrom(0), at)
<1> SUFFICES ASSUME NEW s \in Existing, at < core[s].at
             PROVE  s \in Taken(0)
  BY PageIs DEF Covers
<1> DEFINE above == {t \in Rest(0) : core[t].at > core[s].at}
<1>1. s \in Rest(0) /\ s \in Newer(at) /\ s \notin above
  BY DEF Rest, Newer, Existing, TypeOK, Rows
<1>2. above \in SUBSET Newer(at)
  BY DEF Rest, Newer, Existing, TypeOK, Rows
<1>3. IsFiniteSet(Newer(at))
  BY FS_Subset DEF ListAssumption, Newer, Existing
<1>4. IsFiniteSet(above) /\ Cardinality(above) <= Cardinality(Newer(at)) /\ above # Newer(at)
  BY <1>1, <1>2, <1>3, FS_Subset
<1>5. Cardinality(above) # Cardinality(Newer(at))
  BY <1>2, <1>3, <1>4, FS_Subset
<1>6. Cardinality(above) \in Nat /\ Cardinality(Newer(at)) \in Nat
  BY <1>3, <1>4, FS_CardinalityType
<1>7. Cardinality(above) < Limit
  BY <1>4, <1>5, <1>6 DEF ListAssumption
<1>8. QED
  BY <1>1, <1>7 DEF Taken

-----------------------------------------------------------------------------
LEMMA NowFits ==
    ASSUME ListAssumption, TypeOK
    PROVE  Cardinality(Newer(clock)) <= Limit
<1>1. Newer(clock) = {}
  BY DEF Newer, Existing, TypeOK, Rows
<1>2. QED
  BY <1>1, FS_EmptySet DEF ListAssumption

LEMMA InitGapInv == ASSUME ListAssumption, Init PROVE GapInv
<1>1. NoRows \in Rows /\ NoPage \in Pages
  BY DEF NoRows, NoRow, Rows, NoPage, Pages
<1>2. clock \in Nat /\ core \in Rows /\ \A s \in Session : core[s].at <= clock
  <2>1. Cardinality(Session) \in Nat
    BY FS_CardinalityType DEF ListAssumption
  <2>2. PICK n \in 0 .. Cardinality(Session) :
          \E old \in [Session -> 0 .. n] :
            core = [s \in Session |-> [at |-> old[s], changed |-> old[s]]] /\ clock = n
    BY DEF Init
  <2>3. PICK old \in [Session -> 0 .. n] :
            core = [s \in Session |-> [at |-> old[s], changed |-> old[s]]] /\ clock = n
    BY <2>2
  <2>4. QED
    BY <2>1, <2>3 DEF Rows
<1>3. read = [phase |-> "sent", load |-> TRUE, page |-> NoPage] /\ more = NoMore /\ del = NoDelete
  BY DEF Init, Load, NoRead
<1>4. TypeOK
  BY <1>1, <1>2, <1>3 DEF Init, TypeOK, NoMore, NoDelete, NoPage
<1>5. Fits
  <2>1. Reads = {clock}
    BY <1>3 DEF Init, Reads, NoDelete
  <2>2. QED
    BY <2>1, <1>4, NowFits DEF Fits
<1>6. ReadInv /\ MoreInv /\ DelInv
  BY <1>3 DEF ReadInv, MoreInv, DelInv, NoMore, NoDelete
<1>7. Emptied
  BY <1>3 DEF Init, Emptied, In, NoRows
<1>8. QED
  BY <1>4, <1>5, <1>6, <1>7 DEF GapInv

\* What was read stays true while Core's conversations get newer calls or go.
LEMMA LaterCalls ==
    ASSUME GapInv, UNCHANGED <<items, cursor, seen, read, more>>, core' \in Rows,
           \A s \in Existing' : core'[s].at > clock \/ (s \in Existing /\ core'[s].at = core[s].at)
    PROVE  /\ ReadInv' /\ MoreInv' /\ (Whole \/ Emptied)'
           /\ del.phase = "read" /\ UNCHANGED del => DelInv' \/ del.gone \cap Existing' # {}
<1> DEFINE Same(s) == s \in Existing /\ core'[s].at = core[s].at
<1>1. \A s \in Existing' : s \in Session /\ core'[s].at \in Nat
  BY DEF Existing, Rows
<1>2. /\ clock \in Nat /\ seen \in Nat /\ seen <= clock
      /\ read.page.at \in Nat /\ read.page.at <= clock
      /\ more.from \in Nat /\ more.from <= clock
      /\ del.page.at \in Nat /\ del.page.at <= clock
  BY DEF GapInv, TypeOK, Pages
<1>3. \A s \in Existing' : core'[s].at <= clock => Same(s)
  BY <1>1, <1>2
<1> HIDE DEF Same
<1>4. \A s \in Existing' :
        /\ core'[s].at <= seen => Same(s)
        /\ core'[s].at <= read.page.at => Same(s)
        /\ core'[s].at < more.from => Same(s)
        /\ core'[s].at <= del.page.at => Same(s)
  BY <1>1, <1>2, <1>3
<1>5. ReadInv'
  <2> SUFFICES ASSUME read.phase = "read"
               PROVE  /\ Holds(read.page, read.page.next, read.page.at)'
                      /\ Covers(read.page, seen)'
                      /\ \A s \in Existing' :
                           read.page.at < core'[s].at /\ core'[s].at <= seen => s \in In(items)
    BY DEF ReadInv, In
  <2>1. Holds(read.page, read.page.next, read.page.at)'
    BY <1>4 DEF Same, GapInv, ReadInv, Holds, In
  <2>2. Covers(read.page, seen)'
    BY <1>4 DEF Same, GapInv, ReadInv, Covers, In
  <2>3. \A s \in Existing' :
           read.page.at < core'[s].at /\ core'[s].at <= seen => s \in In(items)
    BY <1>4 DEF Same, GapInv, ReadInv
  <2>4. QED
    BY <2>1, <2>2, <2>3
<1>6. MoreInv'
  BY <1>4 DEF Same, GapInv, MoreInv, In
<1>7. (Whole \/ Emptied)'
  BY <1>4 DEF Same, GapInv, Whole, Emptied, In
<1>8. ASSUME del.phase = "read", UNCHANGED del, del.gone \cap Existing' = {}
      PROVE  DelInv'
  <2>1. Holds(del.page, del.page.next, del.page.at)'
    BY <1>4, <1>8 DEF Same, GapInv, DelInv, Holds, In
  <2>2. ASSUME read.phase = "read"
        PROVE  Covers(del.page, read.page.at)' /\ Covers(read.page, del.page.at)'
    BY <1>4, <1>8, <2>2 DEF Same, GapInv, DelInv, Covers, In
  <2>3. QED
    BY <1>8, <2>1, <2>2 DEF DelInv
<1>9. QED
  BY <1>5, <1>6, <1>7, <1>8

-----------------------------------------------------------------------------
LEMMA CoreChangesKeepsInv ==
    ASSUME ListAssumption, GapInv, CoreChanges
    PROVE  GapInv'
<1>1. /\ clock' = clock + 1 /\ clock \in Nat
      /\ UNCHANGED <<items, queued, cursor, following, read, more, del, seen>>
  BY DEF CoreChanges, list, history, GapInv, TypeOK
<1>2. PICK s \in Session : Called(s) \/ Updated(s)
  BY DEF CoreChanges
<1>3. /\ core \in Rows /\ core' = [core EXCEPT ![s] = core'[s]]
      /\ core'[s] \in [at : Nat, changed : Nat]
      /\ Called(s) => core'[s].at = clock + 1
      /\ Updated(s) => s \in Existing /\ core'[s].at = core[s].at
  <2>1. core \in Rows /\ core[s] \in [at : Nat, changed : Nat]
    BY DEF GapInv, TypeOK, Rows
  <2>2. CASE Called(s)
    BY <1>1, <2>1, <2>2 DEF Called, Updated, Rows
  <2>3. CASE Updated(s)
    <3> DEFINE row == [core[s] EXCEPT !.changed = clock + 1]
    <3>1. core' = [core EXCEPT ![s] = row] /\ s \in Existing
      BY <2>3 DEF Updated
    <3>2. row \in [at : Nat, changed : Nat] /\ row.at = core[s].at /\ row.changed = clock + 1
      BY <1>1, <2>1
    <3>3. core[s].at <= clock
      BY DEF GapInv, TypeOK
    <3>4. QED
      BY <1>1, <2>1, <3>1, <3>2, <3>3 DEF Called, Rows
  <2>4. QED
    BY <1>2, <2>2, <2>3
<1>4. core' \in Rows /\ \A t \in Session : core'[t].at <= clock'
  <2>1. core' \in Rows
    BY <1>3 DEF Rows
  <2>2. \A t \in Session \ {s} : core'[t] = core[t] /\ core[t].at \in Nat /\ core[t].at <= clock
    BY <1>3 DEF GapInv, TypeOK, Rows
  <2>3. core'[s].at <= clock'
    BY <1>1, <1>2, <1>3 DEF GapInv, TypeOK, Rows
  <2>4. QED
    BY <1>1, <2>1, <2>2, <2>3
<1>5. TypeOK'
  BY <1>1, <1>4 DEF GapInv, TypeOK, Pages
<1>6. \A t \in Existing' : core'[t].at > clock \/ (t \in Existing /\ core'[t].at = core[t].at)
  BY <1>1, <1>2, <1>3 DEF Existing, Rows
<1>7. ReadInv' /\ MoreInv' /\ (Whole \/ Emptied)'
  BY <1>1, <1>4, <1>6, LaterCalls
<1>8. del.phase \in {"done", "read"} => del.gone \cap Existing' = {}
  <2>1. CASE Called(s)
    BY <1>3, <2>1 DEF Called, Existing, GapInv, DelInv, Rows
  <2>2. CASE Updated(s)
    BY <1>3, <2>2 DEF Existing, GapInv, DelInv, Rows
  <2>3. QED
    BY <1>2, <2>1, <2>2
<1>9. DelInv'
  <2>1. CASE del.phase = "read"
    BY <1>1, <1>4, <1>6, <1>8, <2>1, LaterCalls
  <2>2. CASE del.phase # "read"
    BY <1>1, <1>8, <2>2 DEF DelInv
  <2>3. QED
    BY <2>1, <2>2
<1>10. Fits'
  <2>1. Reads' = Reads
    BY <1>1 DEF Reads
  <2> SUFFICES ASSUME NEW at \in Reads
               PROVE  Cardinality(Newer(at)') <= Limit
    BY <2>1 DEF Fits
  <2>2. IsFiniteSet(Existing)
    BY FS_Subset DEF ListAssumption, Existing
  <2>3. CASE Called(s)
    <3> DEFINE calledSince == {s} \cup {t \in Existing : core[t].at > at}
    <3>1. Newer(at)' \in SUBSET calledSince
      BY <1>3 DEF Newer, Existing, Rows
    <3>2. IsFiniteSet(calledSince) /\ Cardinality(calledSince) <= Limit
      <4>1. IsFiniteSet({t \in Existing : core[t].at > at})
        BY <2>2, FS_Subset
      <4>2. QED
        BY <2>3, <4>1, FS_AddElement DEF Called
    <3>3. QED
      BY <3>1, <3>2, FS_Subset, FS_CardinalityType DEF ListAssumption
  <2>4. CASE Updated(s)
    <3>1. Newer(at)' = Newer(at)
      BY <1>3, <2>4 DEF Newer, Existing, Rows
    <3>2. QED
      BY <3>1 DEF GapInv, Fits
  <2>5. QED
    BY <1>2, <2>3, <2>4
<1>11. QED
  BY <1>5, <1>7, <1>9, <1>10 DEF GapInv

\* No read forgets a call that has to fit a page with others.
LEMMA SameFits ==
    ASSUME ListAssumption, GapInv, UNCHANGED core,
           \A at \in Reads' : at \in Nat /\ \E low \in Reads \cup {clock} : low <= at
    PROVE  Fits'
<1> SUFFICES ASSUME NEW at \in Reads' PROVE Cardinality(Newer(at)') <= Limit
  BY DEF Fits
<1>1. at \in Nat
  OBVIOUS
<1>2. PICK low \in Reads \cup {clock} : low <= at
  OBVIOUS
<1>3. low \in Nat
  BY <1>2 DEF Reads, GapInv, TypeOK, Pages
<1>4. Cardinality(Newer(low)) <= Limit
  BY <1>2, NowFits DEF GapInv, Fits
<1>5. IsFiniteSet(Newer(low))
  BY FS_Subset DEF ListAssumption, Newer, Existing
<1>6. Newer(at)' \in SUBSET Newer(low)
  BY <1>1, <1>2, <1>3 DEF Newer, Existing, GapInv, TypeOK, Rows
<1>7. QED
  BY <1>4, <1>5, <1>6, FS_Subset, FS_CardinalityType DEF ListAssumption

LEMMA DeleteServedKeepsInv ==
    ASSUME ListAssumption, GapInv, DeleteServed
    PROVE  GapInv'
<1>1. /\ UNCHANGED <<clock, items, queued, cursor, following, read, more, seen>>
      /\ del.phase = "sent" /\ del'.phase = "done"
  BY DEF DeleteServed, list, GapInv, TypeOK
<1>2. PICK gone :
        /\ gone \subseteq Session
        /\ core' = [s \in Session |-> IF s \in gone THEN [core[s] EXCEPT !.at = 0] ELSE core[s]]
        /\ del' = [del EXCEPT !.phase = "done", !.gone = gone]
  <2>1. PICK before \in (IF del.purge THEN 1 .. clock + 1 ELSE {0}) :
          LET gone == IF del.purge THEN {s \in Existing : core[s].at < before} ELSE del.gone
          IN /\ core' = [s \in Session |-> IF s \in gone THEN [core[s] EXCEPT !.at = 0] ELSE core[s]]
             /\ del' = [del EXCEPT !.phase = "done", !.gone = gone]
    BY DEF DeleteServed
  <2> DEFINE gone == IF del.purge THEN {s \in Existing : core[s].at < before} ELSE del.gone
  <2>2. gone \subseteq Session
    BY DEF Existing, GapInv, TypeOK
  <2>3. QED
    BY <2>1, <2>2
<1>3. \A s \in Session :
        /\ core[s] \in [at : Nat, changed : Nat] /\ core[s].at <= clock
        /\ core'[s] \in [at : Nat, changed : Nat]
        /\ IF s \in gone THEN core'[s].at = 0 ELSE core'[s] = core[s]
  <2>1. \A s \in Session : core[s] \in [at : Nat, changed : Nat] /\ core[s].at <= clock
    BY DEF GapInv, TypeOK, Rows
  <2>2. \A s \in Session :
          /\ [core[s] EXCEPT !.at = 0] \in [at : Nat, changed : Nat]
          /\ [core[s] EXCEPT !.at = 0].at = 0
    BY <2>1
  <2>3. QED
    BY <1>2, <2>1, <2>2
<1>4. core' \in Rows /\ \A s \in Session : core'[s].at <= clock
  <2>1. core' \in Rows
    BY <1>2, <1>3 DEF Rows
  <2>2. clock \in Nat
    BY DEF GapInv, TypeOK
  <2>3. QED
    BY <1>3, <2>1, <2>2
<1>5. TypeOK'
  BY <1>1, <1>2, <1>4 DEF GapInv, TypeOK
<1>6. Existing' \subseteq Existing /\ \A s \in Existing' : core'[s].at = core[s].at /\ s \notin gone
  BY <1>3 DEF Existing
<1>7. ReadInv' /\ MoreInv' /\ (Whole \/ Emptied)'
  BY <1>1, <1>4, <1>6, LaterCalls
<1>8. DelInv'
  <2>1. del'.gone = gone
    BY <1>2 DEF GapInv, TypeOK
  <2>2. QED
    BY <1>1, <1>6, <2>1 DEF DelInv
<1>9. Fits'
  <2> SUFFICES ASSUME NEW at \in Reads'
               PROVE  Cardinality(Newer(at)') <= Limit
    BY DEF Fits
  <2>1. at \in Reads
    BY <1>1 DEF Reads
  <2>2. Newer(at)' \in SUBSET Newer(at)
    BY <1>6 DEF Newer
  <2>3. IsFiniteSet(Newer(at)) /\ Cardinality(Newer(at)) <= Limit
    BY <2>1, FS_Subset DEF ListAssumption, Newer, Existing, GapInv, Fits
  <2>4. QED
    BY <2>2, <2>3, FS_Subset, FS_CardinalityType DEF ListAssumption
<1>10. QED
  BY <1>5, <1>7, <1>8, <1>9 DEF GapInv

-----------------------------------------------------------------------------
LEMMA VisitKeepsInv ==
    ASSUME ListAssumption, GapInv, Visit
    PROVE  GapInv'
<1>1. /\ UNCHANGED <<core, clock, seen>>
      /\ read' = Load /\ more' = NoMore /\ del' = [del EXCEPT !.current = FALSE]
      /\ UNCHANGED <<items, queued, cursor>> \/ (items' = NoRows /\ queued' = {} /\ cursor' = 0)
  BY DEF Visit, list, history
<1>2. NoRows \in Rows /\ NoPage \in Pages
  BY DEF NoRows, NoRow, Rows, NoPage, Pages
<1>3. read' = [phase |-> "sent", load |-> TRUE, page |-> NoPage]
  BY <1>1 DEF Load, NoRead
<1>4. /\ del'.phase = del.phase /\ del'.gone = del.gone /\ del'.page = del.page
      /\ del' \in [phase : {"idle", "sent", "done", "read"}, purge : BOOLEAN,
                   gone : SUBSET Session, current : BOOLEAN, page : Pages]
  BY <1>1 DEF GapInv, TypeOK
<1>5. TypeOK'
  BY <1>1, <1>2, <1>3, <1>4 DEF GapInv, TypeOK, NoMore, NoPage
<1>6. Fits'
  <2>1. Reads' \subseteq Reads
    BY <1>1, <1>3, <1>4 DEF Reads
  <2>2. \A at \in Reads : at \in Nat
    BY DEF Reads, GapInv, TypeOK, Pages
  <2>3. QED
    BY <1>1, <2>1, <2>2, SameFits
<1>7. ReadInv' /\ MoreInv'
  BY <1>1, <1>3 DEF ReadInv, MoreInv, NoMore
<1>8. DelInv'
  BY <1>1, <1>3, <1>4 DEF GapInv, DelInv, Holds, Existing, In
<1>9. (Whole \/ Emptied)'
  <2>1. CASE UNCHANGED <<items, queued, cursor>>
    BY <1>1, <1>3, <2>1 DEF GapInv, Whole, Emptied, In, Existing
  <2>2. CASE items' = NoRows /\ cursor' = 0
    BY <1>3, <2>2 DEF Emptied, In, NoRows
  <2>3. QED
    BY <1>1, <2>1, <2>2
<1>10. QED
  BY <1>5, <1>6, <1>7, <1>8, <1>9 DEF GapInv

LEMMA ReadServedKeepsInv ==
    ASSUME ListAssumption, GapInv, ReadServed
    PROVE  GapInv'
<1>1. /\ UNCHANGED <<core, clock, items, queued, cursor, more, del, seen>>
      /\ read' = [read EXCEPT !.phase = "read", !.page = PageFrom(0)]
  BY DEF ReadServed, list, history
<1>2. /\ PageFrom(0) \in Pages /\ PageFrom(0).at = clock /\ PageFrom(0).next <= clock
      /\ \A s \in Existing : PageFrom(0).next <= core[s].at => s \in In(PageFrom(0).rows)
  BY PageHolds DEF GapInv
<1>3. /\ read'.phase = "read" /\ read'.page = PageFrom(0)
      /\ read' \in [phase : {"idle", "sent", "read"}, load : BOOLEAN, page : Pages]
  BY <1>1, <1>2 DEF GapInv, TypeOK
<1>4. TypeOK'
  BY <1>1, <1>2, <1>3 DEF GapInv, TypeOK
<1>5. \A at \in Reads : at \in Nat /\ at <= clock /\ Covers(PageFrom(0), at)
  BY PageCovers DEF Reads, GapInv, TypeOK, Fits, Pages
<1>6. \A s \in Existing : core[s].at \in Nat /\ core[s].at <= clock
  BY DEF GapInv, TypeOK, Existing, Rows
<1>7. seen \in Reads /\ (del.phase = "read" => del.page.at \in Reads)
  BY DEF Reads
<1>8. clock \in Nat /\ seen \in Nat /\ seen <= clock
  BY DEF GapInv, TypeOK
<1>9. Fits'
  <2>1. Reads' \subseteq Reads \cup {clock}
    BY <1>1, <1>2, <1>3 DEF Reads
  <2>2. QED
    BY <1>1, <1>5, <1>8, <2>1, SameFits
<1>10. ReadInv'
  <2>1. Holds(read.page, read.page.next, read.page.at)'
    BY <1>1, <1>2, <1>3 DEF Holds, Existing, In
  <2>2. Covers(read.page, seen)'
    BY <1>1, <1>3, <1>5, <1>7 DEF Covers, Existing, In
  <2>3. \A s \in Existing' : ~(read'.page.at < core'[s].at /\ core'[s].at <= seen')
    BY <1>1, <1>2, <1>3, <1>6, <1>8 DEF Existing
  <2>4. QED
    BY <2>1, <2>2, <2>3 DEF ReadInv
<1>11. MoreInv'
  BY <1>1 DEF GapInv, MoreInv, In, Existing
<1>12. DelInv'
  <2>1. del.phase = "read" => Covers(read.page, del.page.at)'
    BY <1>1, <1>3, <1>5, <1>7 DEF Covers, Existing, In
  <2>2. Covers(del.page, read.page.at)'
    BY <1>1, <1>2, <1>3, <1>6, <1>8 DEF Covers, Existing
  <2>3. QED
    BY <1>1, <2>1, <2>2 DEF GapInv, DelInv, Holds, Existing, In
<1>13. (Whole \/ Emptied)'
  BY <1>1, <1>2, <1>3, <1>8 DEF GapInv, Whole, Emptied, In, Existing
<1>14. QED
  BY <1>4, <1>9, <1>10, <1>11, <1>12, <1>13 DEF GapInv

LEMMA ReadFailsKeepsInv ==
    ASSUME ListAssumption, GapInv, ReadFails
    PROVE  GapInv'
<1>1. /\ UNCHANGED <<core, clock, items, queued, cursor, more, del, seen>>
      /\ read' = [phase |-> "idle", load |-> FALSE, page |-> NoPage]
  BY DEF ReadFails, list, history, NoRead
<1>2. NoPage \in Pages /\ NoPage.at = 0 /\ NoPage.next = 0
  BY DEF NoPage, NoRows, NoRow, Rows, Pages
<1>3. TypeOK'
  BY <1>1, <1>2 DEF GapInv, TypeOK
<1>4. Fits'
  <2>1. Reads' \subseteq Reads
    BY <1>1 DEF Reads
  <2>2. \A at \in Reads : at \in Nat
    BY DEF Reads, GapInv, TypeOK, Pages
  <2>3. QED
    BY <1>1, <2>1, <2>2, SameFits
<1>5. ReadInv' /\ MoreInv' /\ DelInv' /\ (Whole \/ Emptied)'
  BY <1>1 DEF GapInv, ReadInv, MoreInv, DelInv, Holds, Whole, Emptied, In, Existing
<1>6. QED
  BY <1>3, <1>4, <1>5 DEF GapInv

LEMMA ReadAnsweredKeepsInv ==
    ASSUME ListAssumption, GapInv, ReadAnswered
    PROVE  GapInv'
<1>1. /\ UNCHANGED <<core, clock, more, del>> /\ read.phase = "read"
      /\ read' = [phase |-> "idle", load |-> FALSE, page |-> NoPage]
      /\ Replaced(read.page) \/ Merged(read.page)
  BY DEF ReadAnswered, NoRead
<1>2. NoPage \in Pages /\ NoPage.at = 0 /\ NoPage.next = 0
  BY DEF NoPage, NoRows, NoRow, Rows, Pages
<1>3. /\ read.page \in Pages /\ read.page.rows \in Rows /\ read.page.at \in Nat
      /\ read.page.next \in Nat /\ read.page.at <= clock /\ read.page.next <= clock
  BY DEF GapInv, TypeOK, Pages
<1>4. seen' = read.page.at \/ (seen' = seen /\ read.page.at <= seen)
  BY <1>1, <1>3 DEF Replaced, Merged, GapInv, TypeOK
<1>5. TypeOK'
  <2>1. items' \in Rows /\ queued' \subseteq Session
    BY <1>1, <1>3 DEF Replaced, Merged, GapInv, TypeOK, Rows, In
  <2>2. cursor' \in Nat /\ cursor' <= clock /\ seen' \in Nat /\ seen' <= clock
    BY <1>1, <1>3, <1>4 DEF Replaced, Merged, GapInv, TypeOK
  <2>3. QED
    BY <1>1, <1>2, <2>1, <2>2 DEF GapInv, TypeOK
<1>6. Fits'
  <2>1. \A at \in Reads' : at \in Reads
    BY <1>1, <1>4 DEF Reads
  <2>2. \A at \in Reads : at \in Nat
    BY DEF Reads, GapInv, TypeOK, Pages
  <2>3. QED
    BY <1>1, <2>1, <2>2, SameFits
<1>7. ReadInv' /\ MoreInv' /\ DelInv'
  BY <1>1 DEF GapInv, ReadInv, MoreInv, DelInv, Holds, In, Existing
<1>8. Whole'
  <2>1. \A s \in Existing : read.page.next <= core[s].at /\ core[s].at <= read.page.at => s \in In(read.page.rows)
    BY <1>1 DEF GapInv, ReadInv, Holds
  <2>2. In(read.page.rows) \subseteq In(items)'
    BY <1>1 DEF Replaced, Merged, In
  <2>3. \A s \in Existing : s \in Session /\ core[s].at \in Nat
    BY DEF Existing, GapInv, TypeOK, Rows
  <2>4. CASE Replaced(read.page)
    BY <1>1, <2>1, <2>2, <2>4 DEF Replaced, Whole, Existing
  <2>5. CASE Merged(read.page)
    <3>1. In(items) \subseteq In(items)'
      BY <2>5 DEF Merged, In
    <3>2. CASE In(items) \ queued = {}
      <4>1. cursor' = read.page.next
        BY <2>5, <3>2 DEF Merged
      <4>2. \A s \in Existing : read.page.at < core[s].at /\ core[s].at <= seen => s \in In(items)
        BY <1>1 DEF GapInv, ReadInv
      <4>3. QED
        BY <1>1, <1>3, <1>4, <2>1, <2>2, <2>3, <3>1, <4>1, <4>2 DEF Whole, Existing
    <3>3. CASE In(items) \ queued # {}
      <4>1. cursor' = cursor /\ Whole
        BY <2>5, <3>3 DEF Merged, GapInv, Emptied
      <4>2. \A s \in Existing : seen < core[s].at /\ core[s].at <= read.page.at => s \in In(read.page.rows)
        BY <1>1 DEF GapInv, ReadInv, Covers
      <4>3. seen \in Nat
        BY DEF GapInv, TypeOK
      <4>4. QED
        BY <1>1, <1>3, <1>4, <2>2, <2>3, <3>1, <4>1, <4>2, <4>3 DEF Whole, Existing
    <3>4. QED
      BY <3>2, <3>3
  <2>6. QED
    BY <1>1, <2>4, <2>5
<1>9. QED
  BY <1>5, <1>6, <1>7, <1>8 DEF GapInv

-----------------------------------------------------------------------------
\* Steps that leave Core, the reads and the deletion alone.
LEMMA ListStepKeepsInv ==
    ASSUME ListAssumption, GapInv, UNCHANGED <<core, clock, read, del, seen>>,
           items' \in Rows, queued' \subseteq Session, cursor' \in Nat, cursor' <= clock,
           In(items) \subseteq In(items)', MoreInv', (Whole \/ Emptied)',
           more' \in [phase : {"idle", "read"}, from : Nat, page : Pages],
           more'.from <= clock, more'.page.next <= clock
    PROVE  GapInv'
<1>1. TypeOK'
  BY DEF GapInv, TypeOK
<1>2. Fits'
  <2>1. \A at \in Reads' : at \in Reads
    BY DEF Reads
  <2>2. \A at \in Reads : at \in Nat
    BY DEF Reads, GapInv, TypeOK, Pages
  <2>3. QED
    BY <2>1, <2>2, SameFits
<1>3. DelInv'
  BY DEF GapInv, DelInv, Holds, Covers, In, Existing
<1>4. ReadInv'
  <2>1. read.phase = "read" =>
          Holds(read.page, read.page.next, read.page.at)' /\ Covers(read.page, seen)'
    BY DEF GapInv, ReadInv, Holds, Covers, In, Existing
  <2>2. read.phase = "read" =>
          \A s \in Existing : read.page.at < core[s].at /\ core[s].at <= seen => s \in In(items)
    BY DEF GapInv, ReadInv
  <2>3. QED
    BY <2>1, <2>2 DEF ReadInv, Existing
<1>5. QED
  BY <1>1, <1>2, <1>3, <1>4 DEF GapInv

LEMMA ScrollsKeepInv ==
    ASSUME ListAssumption, GapInv, Scroll \/ ApplyQueue
    PROVE  GapInv'
<1>1. /\ UNCHANGED <<core, clock, read, del, seen, items, cursor, more>>
      /\ queued' \subseteq Session
  BY DEF Scroll, ApplyQueue, list, history, GapInv, TypeOK
<1>2. MoreInv' /\ (Whole \/ Emptied)' /\ In(items) \subseteq In(items)'
  BY <1>1 DEF GapInv, MoreInv, Whole, Emptied, In, Existing
<1>3. QED
  BY <1>1, <1>2, ListStepKeepsInv DEF GapInv, TypeOK

LEMMA LoadMoreKeepsInv ==
    ASSUME ListAssumption, GapInv, LoadMore
    PROVE  GapInv'
<1>1. /\ UNCHANGED <<core, clock, read, del, seen, items, queued, cursor>> /\ cursor # 0
      /\ more' = [phase |-> "read", from |-> cursor, page |-> PageFrom(cursor)]
  BY DEF LoadMore, list, history
<1>2. cursor \in Nat /\ cursor <= clock
  BY DEF GapInv, TypeOK
<1>3. /\ PageFrom(cursor) \in Pages /\ PageFrom(cursor).next <= clock
      /\ \A s \in Existing : PageFrom(cursor).next <= core[s].at /\ core[s].at < cursor
            => s \in In(PageFrom(cursor).rows)
  BY <1>2, PageHolds DEF GapInv
<1>4. MoreInv'
  BY <1>1, <1>3 DEF MoreInv, In, Existing
<1>5. (Whole \/ Emptied)' /\ In(items) \subseteq In(items)'
  BY <1>1 DEF GapInv, Whole, Emptied, In, Existing
<1>6. QED
  BY <1>1, <1>2, <1>3, <1>4, <1>5, ListStepKeepsInv DEF GapInv, TypeOK

LEMMA MoreAnsweredKeepsInv ==
    ASSUME ListAssumption, GapInv, MoreAnswered \/ MoreFails
    PROVE  GapInv'
<1>1. /\ UNCHANGED <<core, clock, read, del, seen, queued>>
      /\ more' = [phase |-> "idle", from |-> 0, page |-> NoPage] /\ more.phase = "read"
      /\ UNCHANGED <<items, cursor>> \/ (cursor = more.from /\ Appended(more.page))
  BY DEF MoreAnswered, MoreFails, Appended, Usable, list, history, NoMore, GapInv, TypeOK
<1>2. NoPage \in Pages /\ NoPage.at = 0 /\ NoPage.next = 0
  BY DEF NoPage, NoRows, NoRow, Rows, Pages
<1>3. MoreInv'
  BY <1>1 DEF MoreInv
<1>4. more.page.rows \in Rows /\ more.page.next \in Nat /\ more.page.next <= clock
  BY DEF GapInv, TypeOK, Pages
<1>5. /\ items' \in Rows /\ cursor' \in Nat /\ cursor' <= clock
      /\ In(items) \subseteq In(items)'
  BY <1>1, <1>4 DEF Appended, GapInv, TypeOK, Rows, In
<1>6. (Whole \/ Emptied)'
  <2>1. CASE UNCHANGED <<items, cursor>>
    BY <1>1, <2>1 DEF GapInv, Whole, Emptied, In, Existing
  <2>2. CASE cursor = more.from /\ Appended(more.page)
    <3>1. Whole /\ \A s \in Existing :
            more.page.next <= core[s].at /\ core[s].at < cursor => s \in In(more.page.rows)
      BY <1>1, <2>2 DEF GapInv, MoreInv, Emptied
    <3>2. cursor' = more.page.next /\ In(more.page.rows) \cup In(items) \subseteq In(items)'
      BY <2>2 DEF Appended, In
    <3>3. \A s \in Existing : core[s].at \in Nat
      BY DEF Existing, GapInv, TypeOK, Rows
    <3>4. cursor \in Nat
      BY DEF GapInv, TypeOK
    <3>5. Whole'
      BY <1>1, <3>1, <3>2, <3>3, <3>4 DEF Whole, Existing
    <3>6. QED
      BY <3>5
  <2>3. QED
    BY <1>1, <2>1, <2>2
<1>7. QED
  BY <1>1, <1>2, <1>3, <1>5, <1>6, ListStepKeepsInv DEF GapInv, TypeOK

-----------------------------------------------------------------------------
LEMMA DeleteKeepsInv ==
    ASSUME ListAssumption, GapInv, Delete
    PROVE  GapInv'
<1>1. /\ UNCHANGED <<core, clock, read, more, seen, items, queued, cursor>>
      /\ del.phase = "idle" /\ del'.phase = "sent"
      /\ \E gone \in SUBSET Session, purge \in BOOLEAN :
            del' = [phase |-> "sent", purge |-> purge, gone |-> gone, current |-> TRUE, page |-> NoPage]
  <2>1. CASE \E gone \in SUBSET (In(items) \ queued) \ {{}} :
               del' = [NoDelete EXCEPT !.phase = "sent", !.gone = gone, !.current = TRUE]
    BY <2>1 DEF Delete, NoDelete, In, list, history
  <2>2. CASE del' = [NoDelete EXCEPT !.phase = "sent", !.purge = TRUE, !.current = TRUE]
    BY <2>2 DEF Delete, NoDelete, list, history
  <2>3. QED
    BY <2>1, <2>2 DEF Delete
<1>2. NoPage \in Pages /\ NoPage.at = 0 /\ NoPage.next = 0
  BY DEF NoPage, NoRows, NoRow, Rows, Pages
<1>3. /\ del' \in [phase : {"idle", "sent", "done", "read"}, purge : BOOLEAN,
                   gone : SUBSET Session, current : BOOLEAN, page : Pages]
      /\ del'.page = NoPage
  BY <1>1, <1>2
<1>4. TypeOK'
  BY <1>1, <1>2, <1>3 DEF GapInv, TypeOK
<1>5. Fits'
  <2>1. \A at \in Reads' : at \in Reads
    BY <1>1 DEF Reads
  <2>2. \A at \in Reads : at \in Nat
    BY DEF Reads, GapInv, TypeOK, Pages
  <2>3. QED
    BY <1>1, <2>1, <2>2, SameFits
<1>6. DelInv'
  BY <1>1 DEF DelInv
<1>7. ReadInv' /\ MoreInv' /\ (Whole \/ Emptied)'
  BY <1>1 DEF GapInv, ReadInv, MoreInv, Holds, Covers, Whole, Emptied, In, Existing
<1>8. QED
  BY <1>4, <1>5, <1>6, <1>7 DEF GapInv

LEMMA DeletionEndsKeepsInv ==
    ASSUME ListAssumption, GapInv, DeleteAnswered \/ DeleteFails
    PROVE  GapInv'
<1>1. /\ UNCHANGED <<core, clock, read, more, seen, cursor>>
      /\ del' = [phase |-> "idle", purge |-> FALSE, gone |-> {}, current |-> FALSE, page |-> NoPage]
  BY DEF DeleteAnswered, DeleteFails, Dropped, NoDelete, list
<1>2. /\ items' \in Rows /\ queued' \subseteq Session
      /\ In(items)' \subseteq In(items)
      /\ \A s \in Existing : s \in In(items) => s \in In(items)'
  <2>1. CASE UNCHANGED <<items, queued>>
    BY <2>1 DEF GapInv, TypeOK, In
  <2>2. CASE DeleteAnswered
    <3>1. PICK gone \in {del.gone, {}} : Dropped(gone)
      BY <2>2 DEF DeleteAnswered
    <3>2. gone \cap Existing = {}
      BY <2>2, <3>1 DEF DeleteAnswered, GapInv, DelInv
    <3>3. \A s \in Session : items'[s] = IF s \in gone THEN NoRow ELSE items[s]
      BY <3>1 DEF Dropped
    <3>4. items' \in Rows
      BY <3>1 DEF Dropped, GapInv, TypeOK, Rows, NoRow
    <3>5. queued' \subseteq Session
      BY <3>1 DEF Dropped, GapInv, TypeOK
    <3>6. QED
      BY <3>2, <3>3, <3>4, <3>5 DEF In, Existing
  <2>3. QED
    BY <2>1, <2>2 DEF DeleteFails, list
<1>3. NoPage \in Pages /\ NoPage.at = 0 /\ NoPage.next = 0
  BY DEF NoPage, NoRows, NoRow, Rows, Pages
<1>4. TypeOK'
  BY <1>1, <1>2, <1>3 DEF GapInv, TypeOK
<1>5. Fits'
  <2>1. \A at \in Reads' : at \in Reads
    BY <1>1 DEF Reads
  <2>2. \A at \in Reads : at \in Nat
    BY DEF Reads, GapInv, TypeOK, Pages
  <2>3. QED
    BY <1>1, <2>1, <2>2, SameFits
<1>6. DelInv' /\ MoreInv'
  BY <1>1 DEF DelInv, GapInv, MoreInv, In, Existing
<1>7. ReadInv'
  <2>1. read.phase = "read" =>
          Holds(read.page, read.page.next, read.page.at)' /\ Covers(read.page, seen)'
    BY <1>1 DEF GapInv, ReadInv, Holds, Covers, In, Existing
  <2>2. read.phase = "read" =>
          \A s \in Existing : read.page.at < core[s].at /\ core[s].at <= seen => s \in In(items)'
    BY <1>2 DEF GapInv, ReadInv
  <2>3. QED
    BY <1>1, <2>1, <2>2 DEF ReadInv, Existing
<1>8. (Whole \/ Emptied)'
  <2>1. CASE Whole
    BY <1>1, <1>2, <2>1 DEF Whole, Existing
  <2>2. CASE Emptied
    BY <1>1, <1>2, <2>2 DEF Emptied
  <2>3. QED
    BY <2>1, <2>2 DEF GapInv
<1>9. QED
  BY <1>4, <1>5, <1>6, <1>7, <1>8 DEF GapInv

\* The page a purge reads at its end, like a poll.
LEMMA PurgeReadsKeepsInv ==
    ASSUME ListAssumption, GapInv, PurgeReads
    PROVE  GapInv'
<1>1. /\ UNCHANGED <<core, clock, items, queued, cursor, more, read, seen>> /\ del.phase = "done"
      /\ del' = [del EXCEPT !.phase = "read", !.page = PageFrom(0)]
  BY DEF PurgeReads, list, history
<1>2. /\ PageFrom(0) \in Pages /\ PageFrom(0).at = clock /\ PageFrom(0).next <= clock
      /\ \A s \in Existing : PageFrom(0).next <= core[s].at => s \in In(PageFrom(0).rows)
  BY PageHolds DEF GapInv
<1>3. /\ del'.phase = "read" /\ del'.page = PageFrom(0) /\ del'.gone = del.gone
      /\ del' \in [phase : {"idle", "sent", "done", "read"}, purge : BOOLEAN,
                   gone : SUBSET Session, current : BOOLEAN, page : Pages]
  BY <1>1, <1>2 DEF GapInv, TypeOK
<1>4. TypeOK'
  BY <1>1, <1>2, <1>3 DEF GapInv, TypeOK
<1>5. \A at \in Reads : at \in Nat /\ at <= clock /\ Covers(PageFrom(0), at)
  BY PageCovers DEF Reads, GapInv, TypeOK, Fits, Pages
<1>6. \A s \in Existing : core[s].at \in Nat /\ core[s].at <= clock
  BY DEF GapInv, TypeOK, Existing, Rows
<1>7. clock \in Nat
  BY DEF GapInv, TypeOK
<1>8. Fits'
  <2>1. Reads' \subseteq Reads \cup {clock}
    BY <1>1, <1>2, <1>3 DEF Reads
  <2>2. QED
    BY <1>1, <1>5, <1>7, <2>1, SameFits
<1>9. ReadInv' /\ MoreInv' /\ (Whole \/ Emptied)'
  BY <1>1 DEF GapInv, ReadInv, MoreInv, Holds, Covers, Whole, Emptied, In, Existing
<1>10. DelInv'
  <2>1. Holds(del.page, del.page.next, del.page.at)'
    BY <1>1, <1>2, <1>3 DEF Holds, Existing, In
  <2>2. read.phase = "read" => Covers(del.page, read.page.at)'
    BY <1>1, <1>3, <1>5 DEF Covers, Existing, In, Reads
  <2>3. Covers(read.page, del.page.at)'
    BY <1>1, <1>2, <1>3, <1>6, <1>7 DEF Covers, Existing, GapInv, TypeOK, Pages
  <2>4. QED
    BY <1>1, <1>3, <2>1, <2>2, <2>3 DEF GapInv, DelInv, Existing
<1>11. QED
  BY <1>4, <1>8, <1>9, <1>10 DEF GapInv

LEMMA PurgeAnsweredKeepsInv ==
    ASSUME ListAssumption, GapInv, PurgeAnswered
    PROVE  GapInv'
<1>1. /\ UNCHANGED <<core, clock, more, read>> /\ del.phase = "read"
      /\ del' = [phase |-> "idle", purge |-> FALSE, gone |-> {}, current |-> FALSE, page |-> NoPage]
      /\ Replaced(del.page) \/ UNCHANGED <<items, queued, cursor, seen>>
  BY DEF PurgeAnswered, NoDelete, list
<1>2. NoPage \in Pages /\ NoPage.at = 0 /\ NoPage.next = 0
  BY DEF NoPage, NoRows, NoRow, Rows, Pages
<1>3. /\ del.page.rows \in Rows /\ del.page.at \in Nat
      /\ del.page.next \in Nat /\ del.page.at <= clock /\ del.page.next <= clock
  BY DEF GapInv, TypeOK, Pages
<1>4. seen' = del.page.at \/ seen' = seen
  BY <1>1 DEF Replaced
<1>5. TypeOK'
  BY <1>1, <1>2, <1>3 DEF GapInv, TypeOK, Replaced
<1>6. Fits'
  <2>1. \A at \in Reads' : at \in Reads
    BY <1>1, <1>4 DEF Reads
  <2>2. \A at \in Reads : at \in Nat
    BY DEF Reads, GapInv, TypeOK, Pages
  <2>3. QED
    BY <1>1, <2>1, <2>2, SameFits
<1>7. MoreInv' /\ DelInv'
  BY <1>1 DEF GapInv, MoreInv, DelInv, In, Existing
<1>8. CASE Replaced(del.page)
  <2>1. /\ items' = del.page.rows /\ cursor' = del.page.next /\ seen' = del.page.at
        /\ Holds(del.page, del.page.next, del.page.at)
        /\ read.phase = "read" => Covers(del.page, read.page.at) /\ Covers(read.page, del.page.at)
    BY <1>1, <1>8 DEF Replaced, GapInv, DelInv
  <2>2. Whole'
    BY <1>1, <2>1 DEF Whole, Holds, Existing
  <2>3. ReadInv'
    BY <1>1, <2>1 DEF GapInv, ReadInv, Holds, Covers, Existing, In
  <2>4. QED
    BY <1>5, <1>6, <1>7, <2>2, <2>3 DEF GapInv
<1>9. CASE UNCHANGED <<items, queued, cursor, seen>>
  <2>1. ReadInv' /\ (Whole \/ Emptied)'
    BY <1>1, <1>9 DEF GapInv, ReadInv, Holds, Covers, Whole, Emptied, In, Existing
  <2>2. QED
    BY <1>5, <1>6, <1>7, <2>1 DEF GapInv
<1>10. QED
  BY <1>1, <1>8, <1>9

-----------------------------------------------------------------------------
LEMMA StepKeepsGapInv ==
    ASSUME ListAssumption, GapInv, [Next]_vars
    PROVE  GapInv'
<1>1. CASE UNCHANGED vars
  BY <1>1 DEF vars, list, history, GapInv, TypeOK, Fits, Newer, Reads, ReadInv, MoreInv, DelInv,
              Holds, Covers, Whole, Emptied, In, Existing
<1>2. CASE Next
  BY <1>2, CoreChangesKeepsInv, VisitKeepsInv, ReadServedKeepsInv, ReadFailsKeepsInv,
     ReadAnsweredKeepsInv, ScrollsKeepInv, LoadMoreKeepsInv, MoreAnsweredKeepsInv, DeleteKeepsInv,
     DeleteServedKeepsInv, DeletionEndsKeepsInv, PurgeReadsKeepsInv, PurgeAnsweredKeepsInv
     DEF Next
<1>3. QED
  BY <1>1, <1>2

\* Whatever the list of RequestRecords.tsx and the pages of Core overtake, the
\* list holds every conversation down to where it goes on, those apart that
\* have not been read yet.
THEOREM ListIsWhole ==
    ASSUME ListAssumption
    PROVE  Spec => []ListHasNoGap
<1>1. Init => GapInv
  BY InitGapInv
<1>2. GapInv /\ [Next]_vars => GapInv'
  BY StepKeepsGapInv
<1>3. GapInv => ListHasNoGap
  BY DEF GapInv, Whole, Emptied, ListHasNoGap
<1>4. QED
  BY <1>1, <1>2, <1>3, PTL DEF Spec

-----------------------------------------------------------------------------
\* A row, wherever it is, is Core's or an older one.
OlderRow(s, row) ==
    row # NoRow =>
        /\ row.changed <= core[s].changed
        /\ s \in Existing /\ row.changed = core[s].changed => row = core[s]
OlderRows(rows) == \A s \in Session : OlderRow(s, rows[s])

CoreRows == \A s \in Session : core[s].at <= core[s].changed /\ core[s].changed <= clock

\* What is left of a deleted conversation: a row whose deletion is on its way to
\* the list, or one that it cannot follow.
Leftovers ==
    /\ \A s \in In(items) \ Existing :
        s \in stray \/ (del.phase \in {"done", "read"} /\ s \in del.gone)
    /\ \A s \in Arriving \ Existing : s \in stray
    /\ del.phase = "read" => In(del.page.rows) \subseteq Existing

RowsInv ==
    /\ CoreRows
    /\ OlderRows(items) /\ OlderRows(read.page.rows)
    /\ OlderRows(more.page.rows) /\ OlderRows(del.page.rows)
    /\ queued \subseteq In(items)
    /\ Leftovers

LEMMA OlderNothing ==
    /\ In(NoRows) = {} /\ OlderRows(NoRows) /\ NoRows \in Rows
    /\ NoPage.rows = NoRows
BY DEF In, NoRows, NoRow, OlderRows, OlderRow, NoPage, Rows

\* A page that is read has Core's rows.
LEMMA PageIsCores ==
    ASSUME TypeOK, NEW from \in Nat
    PROVE  OlderRows(PageFrom(from).rows) /\ In(PageFrom(from).rows) \subseteq Existing
<1>1. PageFrom(from).rows = [s \in Session |-> IF s \in Taken(from) THEN core[s] ELSE NoRow]
  BY PageIs
<1>2. \A s \in Session : OlderRow(s, NoRow) /\ OlderRow(s, core[s])
  BY DEF OlderRow, TypeOK, Rows
<1>3. In(PageFrom(from).rows) = Taken(from) /\ Taken(from) \subseteq Existing
  BY PageIs DEF Taken, Rest
<1>4. QED
  BY <1>1, <1>2, <1>3 DEF OlderRows

\* Core's rows change to newer ones.
LEMMA OlderStays ==
    ASSUME TypeOK, core' \in Rows, CoreRows, NEW rows \in Rows, OlderRows(rows),
           \A s \in Session :
              \/ core'[s] = core[s]
              \/ core'[s].changed = clock + 1
              \/ core'[s].at = 0 /\ core'[s].changed = core[s].changed
    PROVE  \A s \in Session : OlderRow(s, rows[s])'
<1> SUFFICES ASSUME NEW s \in Session
             PROVE  OlderRow(s, rows[s])'
  OBVIOUS
<1>1. /\ rows[s] \in [at : Nat, changed : Nat] /\ clock \in Nat
      /\ core[s] \in [at : Nat, changed : Nat] /\ core'[s] \in [at : Nat, changed : Nat]
      /\ core[s].changed <= clock /\ OlderRow(s, rows[s])
  BY DEF Rows, TypeOK, CoreRows, OlderRows
<1>2. CASE core'[s] = core[s]
  BY <1>1, <1>2 DEF OlderRow, Existing
<1>3. CASE core'[s].changed = clock + 1
  BY <1>1, <1>3 DEF OlderRow
<1>4. CASE core'[s].at = 0 /\ core'[s].changed = core[s].changed
  BY <1>1, <1>4 DEF OlderRow, Existing
<1>5. QED
  BY <1>2, <1>3, <1>4

\* A step of Core: what the page holds stays.
LEMMA CoreStepKeepsRows ==
    ASSUME TypeOK, TypeOK', RowsInv, UNCHANGED <<items, queued, read, more>>, del'.page = del.page,
           CoreRows', Leftovers',
           \A s \in Session :
              \/ core'[s] = core[s]
              \/ core'[s].changed = clock + 1
              \/ core'[s].at = 0 /\ core'[s].changed = core[s].changed
    PROVE  RowsInv'
<1>1. core' \in Rows
  BY DEF TypeOK
<1>2. PICK a \in Rows, b \in Rows, c \in Rows, d \in Rows :
        a = items /\ b = read.page.rows /\ c = more.page.rows /\ d = del.page.rows
  BY DEF TypeOK, Pages
<1>3. OlderRows(a) /\ OlderRows(b) /\ OlderRows(c) /\ OlderRows(d)
  BY <1>2 DEF RowsInv
<1>4. \A s \in Session : OlderRow(s, a[s])' /\ OlderRow(s, b[s])' /\ OlderRow(s, c[s])' /\ OlderRow(s, d[s])'
  BY <1>1, <1>3, OlderStays DEF RowsInv
<1>5. items' = a /\ read'.page.rows = b /\ more'.page.rows = c /\ del'.page.rows = d
  BY <1>2
<1>6. /\ OlderRows(items)' /\ OlderRows(read.page.rows)'
      /\ OlderRows(more.page.rows)' /\ OlderRows(del.page.rows)'
  BY <1>4, <1>5 DEF OlderRows
<1>7. QED
  BY <1>6 DEF RowsInv, In

\* A step of the page: its rows are some that it held already, or that it reads.
LEMMA PageStepKeepsRows ==
    ASSUME RowsInv, UNCHANGED <<core, clock>>,
           \A s \in Session :
              items'[s] \in {items[s], read.page.rows[s], more.page.rows[s], del.page.rows[s], NoRow},
           read'.page.rows \in {read.page.rows, NoRows} \/ OlderRows(read'.page.rows),
           more'.page.rows \in {more.page.rows, NoRows} \/ OlderRows(more'.page.rows),
           del'.page.rows \in {del.page.rows, NoRows} \/ OlderRows(del'.page.rows),
           queued' \subseteq In(items'), Leftovers'
    PROVE  RowsInv'
<1>1. \A s \in Session : \A row : OlderRow(s, row) => OlderRow(s, row)'
  BY DEF OlderRow, Existing
<1>2. /\ OlderRows(items) /\ OlderRows(read.page.rows) /\ OlderRows(more.page.rows)
      /\ OlderRows(del.page.rows) /\ OlderRows(NoRows)
  BY OlderNothing DEF RowsInv
<1>3. \A s \in Session : OlderRow(s, NoRow)
  BY DEF OlderRow
<1>4. OlderRows(items)'
  BY <1>1, <1>2, <1>3 DEF OlderRows
<1>5. OlderRows(read.page.rows)' /\ OlderRows(more.page.rows)' /\ OlderRows(del.page.rows)'
  BY <1>1, <1>2 DEF OlderRows
<1>6. CoreRows'
  BY DEF RowsInv, CoreRows
<1>7. QED
  BY <1>4, <1>5, <1>6 DEF RowsInv, In

-----------------------------------------------------------------------------
LEMMA InitRowsInv == ASSUME ListAssumption, Init PROVE RowsInv
<1>1. CoreRows
  <2>1. Cardinality(Session) \in Nat
    BY FS_CardinalityType DEF ListAssumption
  <2>2. PICK n \in 0 .. Cardinality(Session) :
          \E old \in [Session -> 0 .. n] :
            core = [s \in Session |-> [at |-> old[s], changed |-> old[s]]] /\ clock = n
    BY DEF Init
  <2>3. PICK old \in [Session -> 0 .. n] :
            core = [s \in Session |-> [at |-> old[s], changed |-> old[s]]] /\ clock = n
    BY <2>2
  <2>4. QED
    BY <2>1, <2>3 DEF CoreRows
<1>2. /\ items = NoRows /\ queued = {} /\ read.page.rows = NoRows
      /\ more.page.rows = NoRows /\ del.page.rows = NoRows /\ del.phase = "idle"
  BY OlderNothing DEF Init, Load, NoRead, NoMore, NoDelete
<1>3. Leftovers
  BY <1>2, OlderNothing DEF Leftovers, Arriving
<1>4. QED
  BY <1>1, <1>2, <1>3, OlderNothing DEF RowsInv

LEMMA CoreChangesKeepsRows ==
    ASSUME ListAssumption, GapInv, RowsInv, CoreChanges
    PROVE  RowsInv'
<1>1. /\ clock' = clock + 1 /\ clock \in Nat
      /\ UNCHANGED <<items, queued, read, more, del, stray>>
  BY DEF CoreChanges, list, history, GapInv, TypeOK
<1>2. PICK s \in Session : Called(s) \/ Updated(s)
  BY DEF CoreChanges
<1>3. TypeOK /\ TypeOK'
  BY CoreChangesKeepsInv DEF GapInv
<1>4. /\ core[s] \in [at : Nat, changed : Nat] /\ core[s].at <= clock
      /\ \A t \in Session : core[t] \in [at : Nat, changed : Nat]
      /\ core \in [Session -> [at : Nat, changed : Nat]]
  BY <1>3 DEF TypeOK, Rows
<1>5. /\ \A t \in Session \ {s} : core'[t] = core[t]
      /\ core'[s].changed = clock + 1 /\ core'[s].at \in {core[s].at, clock + 1}
      /\ core[s].at > 0 => core'[s].at > 0
  BY <1>1, <1>2, <1>4 DEF Called, Updated
<1>6. CoreRows'
  BY <1>1, <1>4, <1>5 DEF RowsInv, CoreRows
<1>7. Existing \subseteq Existing'
  BY <1>5 DEF Existing
<1>8. Leftovers'
  BY <1>1, <1>7 DEF RowsInv, Leftovers, Arriving, In
<1>9. QED
  BY <1>1, <1>3, <1>5, <1>6, <1>8, CoreStepKeepsRows

LEMMA DeleteServedKeepsRows ==
    ASSUME ListAssumption, GapInv, RowsInv, DeleteServed
    PROVE  RowsInv'
<1>1. /\ UNCHANGED <<clock, items, queued, read, more>> /\ del.phase = "sent"
  BY DEF DeleteServed, list
<1>2. PICK gone \in SUBSET Session :
        /\ core' = [s \in Session |-> IF s \in gone THEN [core[s] EXCEPT !.at = 0] ELSE core[s]]
        /\ stray' = stray \cup (gone \cap Arriving)
        /\ del' = [del EXCEPT !.phase = "done", !.gone = gone]
  <2>1. PICK before \in (IF del.purge THEN 1 .. clock + 1 ELSE {0}) :
          LET gone == IF del.purge THEN {s \in Existing : core[s].at < before} ELSE del.gone
          IN /\ core' = [s \in Session |-> IF s \in gone THEN [core[s] EXCEPT !.at = 0] ELSE core[s]]
             /\ stray' = stray \cup (gone \cap Arriving)
             /\ del' = [del EXCEPT !.phase = "done", !.gone = gone]
    BY DEF DeleteServed
  <2> DEFINE gone == IF del.purge THEN {s \in Existing : core[s].at < before} ELSE del.gone
  <2>2. gone \in SUBSET Session
    BY DEF Existing, GapInv, TypeOK
  <2>3. QED
    BY <2>1, <2>2
<1>3. del'.phase = "done" /\ del'.gone = gone /\ del'.page = del.page
  BY <1>2 DEF GapInv, TypeOK
<1>4. TypeOK /\ TypeOK'
  BY DeleteServedKeepsInv DEF GapInv
<1>5. \A s \in Session : core[s] \in [at : Nat, changed : Nat]
  BY <1>4 DEF TypeOK, Rows
<1>6. \A s \in Session :
        /\ [core[s] EXCEPT !.at = 0].at = 0
        /\ [core[s] EXCEPT !.at = 0].changed = core[s].changed
  BY <1>5
<1>7. \A s \in Session :
        /\ s \notin gone => core'[s] = core[s]
        /\ s \in gone => core'[s].at = 0 /\ core'[s].changed = core[s].changed
  BY <1>2, <1>6
<1>8. CoreRows'
  BY <1>1, <1>5, <1>7 DEF RowsInv, CoreRows
<1>9. \A s \in Existing \ gone : s \in Existing'
  BY <1>7 DEF Existing
<1>10. Leftovers'
  BY <1>1, <1>2, <1>3, <1>9 DEF RowsInv, Leftovers, Arriving, In
<1>11. QED
  BY <1>1, <1>3, <1>4, <1>7, <1>8, <1>10, CoreStepKeepsRows DEF RowsInv

LEMMA VisitKeepsRows ==
    ASSUME RowsInv, GapInv, Visit
    PROVE  RowsInv'
<1>1. /\ UNCHANGED <<core, clock, stray>>
      /\ read' = Load /\ more' = NoMore /\ del' = [del EXCEPT !.current = FALSE]
      /\ UNCHANGED <<items, queued>> \/ (items' = NoRows /\ queued' = {})
  BY DEF Visit, list, history
<1>2. read'.page.rows = NoRows /\ more'.page.rows = NoRows
  BY <1>1, OlderNothing DEF Load, NoRead, NoMore
<1>3. del'.phase = del.phase /\ del'.gone = del.gone /\ del'.page = del.page
  BY <1>1 DEF GapInv, TypeOK
<1>4. /\ In(items') \subseteq In(items) /\ queued' \subseteq In(items')
      /\ \A s \in Session : items'[s] \in {items[s], NoRow}
  <2>1. CASE UNCHANGED <<items, queued>>
    BY <2>1 DEF RowsInv, In
  <2>2. CASE items' = NoRows /\ queued' = {}
    BY <2>2 DEF In, NoRows
  <2>3. QED
    BY <1>1, <2>1, <2>2
<1>5. Leftovers'
  BY <1>1, <1>2, <1>3, <1>4, OlderNothing DEF RowsInv, Leftovers, Arriving, Existing, In
<1>6. QED
  BY <1>1, <1>2, <1>3, <1>4, <1>5, PageStepKeepsRows

LEMMA ReadServedKeepsRows ==
    ASSUME RowsInv, GapInv, ReadServed
    PROVE  RowsInv'
<1>1. /\ UNCHANGED <<core, clock, items, queued, more, del, stray>>
      /\ read' = [read EXCEPT !.phase = "read", !.page = PageFrom(0)]
  BY DEF ReadServed, list, history
<1>2. OlderRows(PageFrom(0).rows) /\ In(PageFrom(0).rows) \subseteq Existing
  BY PageIsCores DEF GapInv
<1>3. read'.page = PageFrom(0)
  BY <1>1 DEF GapInv, TypeOK
<1>4. Leftovers'
  BY <1>1, <1>2, <1>3 DEF RowsInv, Leftovers, Arriving, Existing, In
<1>5. QED
  BY <1>1, <1>2, <1>3, <1>4, PageStepKeepsRows DEF RowsInv

LEMMA ReadFailsKeepsRows ==
    ASSUME RowsInv, GapInv, ReadFails
    PROVE  RowsInv'
<1>1. UNCHANGED <<core, clock, items, queued, more, del, stray>> /\ read'.page.rows = NoRows
  BY OlderNothing DEF ReadFails, list, history, NoRead
<1>2. Leftovers'
  BY <1>1, OlderNothing DEF RowsInv, Leftovers, Arriving, Existing, In
<1>3. QED
  BY <1>1, <1>2, PageStepKeepsRows DEF RowsInv

LEMMA ReadAnsweredKeepsRows ==
    ASSUME RowsInv, GapInv, ReadAnswered
    PROVE  RowsInv'
<1>1. /\ UNCHANGED <<core, clock, more, del, stray>> /\ read'.page.rows = NoRows
      /\ Replaced(read.page) \/ Merged(read.page)
  BY OlderNothing DEF ReadAnswered, NoRead
<1>2. \A s \in Session : items'[s] \in {items[s], read.page.rows[s]}
  BY <1>1 DEF Replaced, Merged
<1>3. queued' \subseteq In(items')
  <2>1. CASE Replaced(read.page)
    BY <2>1 DEF Replaced
  <2>2. CASE Merged(read.page)
    BY <2>2 DEF Merged, In, RowsInv
  <2>3. QED
    BY <1>1, <2>1, <2>2
<1>4. In(items') \subseteq In(items) \cup In(read.page.rows)
  BY <1>2 DEF In
<1>5. Leftovers'
  BY <1>1, <1>4, OlderNothing DEF RowsInv, Leftovers, Arriving, Existing, In
<1>6. QED
  BY <1>1, <1>2, <1>3, <1>5, PageStepKeepsRows

LEMMA ScrollsKeepRows ==
    ASSUME RowsInv, GapInv, Scroll \/ ApplyQueue
    PROVE  RowsInv'
<1>1. UNCHANGED <<core, clock, items, read, more, del, stray>> /\ queued' \subseteq queued
  BY DEF Scroll, ApplyQueue, list, history
<1>2. Leftovers'
  BY <1>1 DEF RowsInv, Leftovers, Arriving, Existing, In
<1>3. QED
  BY <1>1, <1>2, PageStepKeepsRows DEF RowsInv

LEMMA LoadMoreKeepsRows ==
    ASSUME RowsInv, GapInv, LoadMore
    PROVE  RowsInv'
<1>1. /\ UNCHANGED <<core, clock, items, queued, read, del, stray>>
      /\ more'.page = PageFrom(cursor) /\ cursor \in Nat
  BY DEF LoadMore, list, history, GapInv, TypeOK
<1>2. OlderRows(PageFrom(cursor).rows) /\ In(PageFrom(cursor).rows) \subseteq Existing
  BY <1>1, PageIsCores DEF GapInv
<1>3. Leftovers'
  BY <1>1, <1>2 DEF RowsInv, Leftovers, Arriving, Existing, In
<1>4. QED
  BY <1>1, <1>2, <1>3, PageStepKeepsRows DEF RowsInv

LEMMA MoreEndsKeepsRows ==
    ASSUME RowsInv, GapInv, MoreAnswered \/ MoreFails
    PROVE  RowsInv'
<1>1. /\ UNCHANGED <<core, clock, read, del, stray>> /\ more'.page.rows = NoRows
      /\ UNCHANGED <<items, queued>> \/ Appended(more.page)
  BY OlderNothing DEF MoreAnswered, MoreFails, list, history, NoMore
<1>2. /\ \A s \in Session : items'[s] \in {items[s], more.page.rows[s]}
      /\ In(items) \subseteq In(items') /\ UNCHANGED queued
  BY <1>1 DEF Appended, In
<1>3. In(items') \subseteq In(items) \cup In(more.page.rows)
  BY <1>2 DEF In
<1>4. Leftovers'
  BY <1>1, <1>3, OlderNothing DEF RowsInv, Leftovers, Arriving, Existing, In
<1>5. queued' \subseteq In(items')
  BY <1>2 DEF RowsInv
<1>6. QED
  BY <1>1, <1>2, <1>4, <1>5, PageStepKeepsRows

LEMMA DeleteKeepsRows ==
    ASSUME RowsInv, GapInv, Delete
    PROVE  RowsInv'
<1>1. /\ UNCHANGED <<core, clock, items, queued, read, more, stray>> /\ del.phase = "idle"
      /\ del'.phase = "sent" /\ del'.page = NoPage
  BY DEF Delete, list, history, NoDelete
<1>2. Leftovers'
  BY <1>1 DEF RowsInv, Leftovers, Arriving, Existing, In
<1>3. QED
  BY <1>1, <1>2, OlderNothing, PageStepKeepsRows DEF RowsInv

LEMMA DeleteAnsweredKeepsRows ==
    ASSUME RowsInv, GapInv, DeleteAnswered
    PROVE  RowsInv'
<1> DEFINE gone == IF del.current THEN del.gone ELSE {}
<1>1. /\ UNCHANGED <<core, clock, read, more>> /\ del.phase = "done"
      /\ del'.phase = "idle" /\ del'.page = NoPage
      /\ Dropped(gone) /\ stray' = stray \cup (In(items) \cap (del.gone \ gone))
  BY DEF DeleteAnswered, NoDelete
<1>2. /\ \A s \in Session : items'[s] = IF s \in gone THEN NoRow ELSE items[s]
      /\ queued' \subseteq queued \ gone
  BY <1>1 DEF Dropped
<1> HIDE DEF gone
<1>3. In(items') = In(items) \ gone
  BY <1>2 DEF In
<1>4. queued' \subseteq In(items')
  BY <1>2, <1>3 DEF RowsInv
<1>5. Leftovers'
  BY <1>1, <1>3 DEF RowsInv, Leftovers, Arriving, Existing, In
<1>6. QED
  BY <1>1, <1>2, <1>4, <1>5, OlderNothing, PageStepKeepsRows

LEMMA PurgeReadsKeepsRows ==
    ASSUME RowsInv, GapInv, PurgeReads
    PROVE  RowsInv'
<1>1. /\ UNCHANGED <<core, clock, items, queued, read, more, stray>> /\ del.phase = "done"
      /\ del' = [del EXCEPT !.phase = "read", !.page = PageFrom(0)]
  BY DEF PurgeReads, list, history
<1>2. OlderRows(PageFrom(0).rows) /\ In(PageFrom(0).rows) \subseteq Existing
  BY PageIsCores DEF GapInv
<1>3. del'.phase = "read" /\ del'.gone = del.gone /\ del'.page = PageFrom(0)
  BY <1>1 DEF GapInv, TypeOK
<1>4. Leftovers'
  BY <1>1, <1>2, <1>3 DEF RowsInv, Leftovers, Arriving, Existing, In
<1>5. QED
  BY <1>1, <1>2, <1>3, <1>4, PageStepKeepsRows DEF RowsInv

LEMMA PurgeAnsweredKeepsRows ==
    ASSUME RowsInv, GapInv, PurgeAnswered
    PROVE  RowsInv'
<1>1. /\ UNCHANGED <<core, clock, read, more>> /\ del.phase = "read"
      /\ del'.phase = "idle" /\ del'.page = NoPage
  BY DEF PurgeAnswered, NoDelete
<1>2. CASE del.current
  <2>1. items' = del.page.rows /\ queued' = {} /\ UNCHANGED stray
    BY <1>2 DEF PurgeAnswered, Replaced
  <2>2. In(items') \subseteq Existing
    BY <1>1, <2>1 DEF RowsInv, Leftovers
  <2>3. Leftovers'
    BY <1>1, <2>1, <2>2 DEF RowsInv, Leftovers, Arriving, Existing, In
  <2>4. QED
    BY <1>1, <2>1, <2>3, OlderNothing, PageStepKeepsRows
<1>3. CASE ~del.current
  <2>1. UNCHANGED <<items, queued>> /\ stray' = stray \cup (del.gone \cap In(items))
    BY <1>3 DEF PurgeAnswered, list
  <2>2. Leftovers'
    BY <1>1, <2>1 DEF RowsInv, Leftovers, Arriving, Existing, In
  <2>3. QED
    BY <1>1, <2>1, <2>2, OlderNothing, PageStepKeepsRows DEF RowsInv
<1>4. QED
  BY <1>2, <1>3

LEMMA DeleteFailsKeepsRows ==
    ASSUME RowsInv, GapInv, DeleteFails
    PROVE  RowsInv'
<1>1. /\ UNCHANGED <<core, clock, items, queued, read, more>>
      /\ del.phase \in {"sent", "done", "read"}
      /\ del'.phase = "idle" /\ del'.page = NoPage
      /\ stray' = IF del.phase = "sent" THEN stray ELSE stray \cup (del.gone \cap In(items))
  BY DEF DeleteFails, list, NoDelete, GapInv, TypeOK
<1>2. Leftovers'
  BY <1>1 DEF RowsInv, Leftovers, Arriving, Existing, In
<1>3. QED
  BY <1>1, <1>2, OlderNothing, PageStepKeepsRows DEF RowsInv

LEMMA StepKeepsRowsInv ==
    ASSUME ListAssumption, GapInv, RowsInv, [Next]_vars
    PROVE  RowsInv'
<1>1. CASE UNCHANGED vars
  <2>1. UNCHANGED <<core, clock, items, queued, read, more, del, stray>>
    BY <1>1 DEF vars, list, history
  <2>2. Leftovers'
    BY <2>1 DEF RowsInv, Leftovers, Arriving, Existing, In
  <2>3. QED
    BY <2>1, <2>2, PageStepKeepsRows DEF RowsInv
<1>2. CASE Next
  BY <1>2, CoreChangesKeepsRows, VisitKeepsRows, ReadServedKeepsRows, ReadFailsKeepsRows,
     ReadAnsweredKeepsRows, ScrollsKeepRows, LoadMoreKeepsRows, MoreEndsKeepsRows,
     DeleteKeepsRows, DeleteServedKeepsRows, DeleteAnsweredKeepsRows, PurgeReadsKeepsRows,
     PurgeAnsweredKeepsRows, DeleteFailsKeepsRows DEF Next
<1>3. QED
  BY <1>1, <1>2

LEMMA RowsImply ==
    ASSUME TypeOK, RowsInv
    PROVE  RequestListInv
BY DEF RowsInv, RequestListInv, Leftovers, OlderRows, OlderRow, In, Existing

\* The rows of RequestRecords.tsx are Core's or older ones, whatever page brings
\* them, and a deleted conversation stays only where its deletion cannot follow.
THEOREM RowsAreCores ==
    ASSUME ListAssumption
    PROVE  Spec => []RequestListInv
<1>1. Init => GapInv /\ RowsInv
  BY InitGapInv, InitRowsInv
<1>2. GapInv /\ RowsInv /\ [Next]_vars => (GapInv /\ RowsInv)'
  BY StepKeepsGapInv, StepKeepsRowsInv
<1>3. GapInv /\ RowsInv => RequestListInv
  BY RowsImply DEF GapInv
<1>4. QED
  BY <1>1, <1>2, <1>3, PTL DEF Spec
====
