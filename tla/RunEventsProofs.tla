------------------------- MODULE RunEventsProofs -------------------------
(***************************************************************************)
(* Proofs about RunEvents: what a stream delivers, and what it can miss,   *)
(* for any number of writers, readers, events and reconnects.              *)
(***************************************************************************)
EXTENDS RunEvents, TLAPS, FiniteSetTheorems, WellFoundedInduction

-----------------------------------------------------------------------------
(* The rows of a read.                                                     *)

(* A non-empty set of naturals has a least element.                        *)
LEMMA LeastNatural ==
    ASSUME NEW S \in SUBSET Nat, S # {}
    PROVE  \E x \in S : \A y \in S : x <= y
<1>1. IsWellFoundedOn(OpToRel(<, Nat), Nat)
  BY NatLessThanWellFounded
<1>2. PICK x \in S : \A y \in S : ~(<<y, x>> \in OpToRel(<, Nat))
  BY <1>1, WFMin, Zenon
<1>3. ASSUME NEW y \in S PROVE x <= y
  <2>1. ~(<<y, x>> \in OpToRel(<, Nat))
    BY <1>2
  <2>2. y < x => <<y, x>> \in OpToRel(<, Nat)
    BY DEF OpToRel
  <2>3. ~(y < x)
    BY <2>1, <2>2, Zenon
  <2>4. x \in Nat /\ y \in Nat
    OBVIOUS
  <2> HIDE <2>1, <2>2
  <2> QED BY ONLY <2>3, <2>4
<1> QED BY <1>3

(* The sequences that list a set in ascending order.                       *)
Ascending(S) == {rows \in [1..Cardinality(S) -> S] :
                   \A i, j \in 1..Cardinality(S) : i < j => rows[i] < rows[j]}

(* A finite set of naturals can be listed in ascending order: the least    *)
(* bound under which some set cannot is not 0, and a set bounded by n      *)
(* appends n, or nothing, to the list of its smaller elements.             *)
LEMMA AscendingExists ==
    ASSUME NEW m \in Nat, NEW S \in SUBSET (1..m)
    PROVE  Ascending(S) # {}
<1> DEFINE Bad == {n \in Nat : \E T \in SUBSET (1..n) : Ascending(T) = {}}
<1> SUFFICES ASSUME Bad # {} PROVE FALSE
  OBVIOUS
<1>1. PICK n \in Bad : \A k \in Bad : n <= k
  BY LeastNatural
<1>2. PICK T \in SUBSET (1..n) : Ascending(T) = {}
  BY <1>1
<1>3. n \in Nat
  BY <1>1
<1>4. n # 0
  <2> SUFFICES ASSUME n = 0 PROVE FALSE
    OBVIOUS
  <2>1. T = {}
    BY <1>2
  <2>2. Cardinality(T) = 0
    BY <2>1, FS_EmptySet
  <2>3. [i \in 1..0 |-> 0] \in Ascending(T)
    BY <2>2 DEF Ascending
  <2> QED BY <2>3, <1>2
<1> DEFINE U == T \ {n}
<1>5. n - 1 \in Nat /\ n - 1 \notin Bad
  BY <1>1, <1>3, <1>4
<1>6. U \in SUBSET (1..(n - 1))
  BY <1>2, <1>3, <1>4
<1>7. PICK g : g \in Ascending(U)
  BY <1>5, <1>6
<1>8. n \in T
  <2> SUFFICES ASSUME n \notin T PROVE FALSE
    OBVIOUS
  <2>1. U = T
    OBVIOUS
  <2> QED BY <2>1, <1>7, <1>2
<1>9. IsFiniteSet(U) /\ Cardinality(U) \in Nat
  <2>1. U \in SUBSET Nat /\ \A s \in U : s <= n
    BY <1>6, <1>3
  <2>2. IsFiniteSet(U)
    BY <2>1, <1>3, FS_BoundedSetOfNaturals
  <2> QED BY <2>2, FS_CardinalityType
<1>10. Cardinality(T) = Cardinality(U) + 1
  <2>1. T = U \cup {n} /\ n \notin U
    BY <1>8
  <2> HIDE DEF U
  <2> QED BY <2>1, <1>9, FS_AddElement
<1> DEFINE k == Cardinality(U)
           f == [i \in 1..(k + 1) |-> IF i <= k THEN g[i] ELSE n]
<1>11. f \in Ascending(T)
  <2>1. g \in [1..k -> U] /\ \A i, j \in 1..k : i < j => g[i] < g[j]
    BY <1>7 DEF Ascending
  <2>2. k \in Nat /\ Cardinality(T) = k + 1
    BY <1>9, <1>10
  <2> HIDE DEF k
  <2>3. \A i \in 1..k : g[i] \in T /\ g[i] \in Nat /\ g[i] < n
    <3>1. \A u \in U : u \in T /\ u \in Nat /\ u < n
      BY <1>6, <1>3
    <3> HIDE DEF U
    <3> QED BY <2>1, <3>1
  <2>4. f \in [1..(k + 1) -> T]
    BY <2>2, <2>3, <1>8
  <2>5. ASSUME NEW i \in 1..(k + 1), NEW j \in 1..(k + 1), i < j
        PROVE  f[i] < f[j]
    <3>1. i \in 1..k /\ f[i] = g[i]
      BY <2>2, <2>5
    <3>2. CASE j \in 1..k
      BY <3>1, <3>2, <2>1, <2>2, <2>5
    <3>3. CASE j = k + 1
      BY <3>1, <3>3, <2>3, <2>2
    <3> QED BY <3>2, <3>3, <2>2
  <2> HIDE DEF f
  <2> QED BY <2>2, <2>4, <2>5 DEF Ascending
<1> QED BY <1>11, <1>2

(* What a read returns: every row once, ascending.                         *)
LEMMA OrderedRows ==
    ASSUME NEW m \in Nat, NEW S \in SUBSET (1..m)
    PROVE  /\ Ordered(S) \in Seq(S)
           /\ \A i, j \in 1..Len(Ordered(S)) :
                 i < j => Ordered(S)[i] < Ordered(S)[j]
           /\ \A s \in S : \E i \in 1..Len(Ordered(S)) : Ordered(S)[i] = s
<1> DEFINE k == Cardinality(S)
           rows == Ordered(S)
<1>0. \A s \in S : s \in Nat
  OBVIOUS
<1>1. IsFiniteSet(S) /\ k \in Nat
  <2>1. S \in SUBSET Nat /\ \A s \in S : s <= m
    OBVIOUS
  <2>2. IsFiniteSet(S)
    BY <2>1, FS_BoundedSetOfNaturals
  <2> QED BY <2>2, FS_CardinalityType
<1>2. rows \in [1..k -> S] /\ \A i, j \in 1..k : i < j => rows[i] < rows[j]
  <2>1. PICK f : f \in Ascending(S)
    BY AscendingExists
  <2>2. \E f2 \in [1..k -> S] : \A i, j \in 1..k : i < j => f2[i] < f2[j]
    BY <2>1 DEF Ascending
  <2> QED BY <2>2, Zenon DEF Ordered
<1> HIDE DEF rows, k
<1>3. rows \in Seq(S) /\ Len(rows) = k
  BY <1>1, <1>2
<1>4. rows \in Surjection(1..k, S)
  <2>1. rows \in Injection(1..k, S)
    <3>1. ASSUME NEW i \in 1..k, NEW j \in 1..k, i # j PROVE rows[i] # rows[j]
      <4>0. rows[i] \in S /\ rows[j] \in S
        BY <1>2
      <4>1. rows[i] \in Nat /\ rows[j] \in Nat
        BY <4>0, <1>0
      <4>2. i < j \/ j < i
        BY <1>1, <3>1
      <4> QED BY <4>1, <4>2, <1>2
    <3>2. DOMAIN rows = 1..k
      BY <1>2
    <3>3. \A i, j \in 1..k : rows[i] = rows[j] => i = j
      BY <3>1
    <3> QED BY <3>2, <3>3, <1>2 DEF Injection, IsInjective
  <2>2. IsFiniteSet(1..k) /\ Cardinality(1..k) = Cardinality(S)
    BY <1>1, FS_Interval DEF k
  <2> QED BY <2>1, <2>2, <1>1, FS_Injection, Zenon
<1>5. \A s \in S : \E i \in 1..k : rows[i] = s
  BY <1>4, Zenon DEF Surjection
<1> QED BY <1>2, <1>3, <1>5 DEF rows

-----------------------------------------------------------------------------
(* The inductive invariant.                                                *)

(* The identity column: a sequence drawn by an open transaction is its     *)
(* alone, is not visible yet, and is not later than the newest drawn.      *)
SequencesOnce ==
    /\ \A s \in visible : s <= drawn
    /\ \A w \in Appenders :
          /\ open[w] <= drawn
          /\ open[w] \notin visible
          /\ \A v \in Appenders : v # w /\ open[v] = open[w] => open[w] = 0

(* The status of the Run and its terminal event agree, and the transaction *)
(* that settles is open only while the Run is active.                      *)
TerminalOnce ==
    /\ open[Settler] # 0 => status = "active"
    /\ status = "active" => terminal = 0
    /\ status = "terminal" => terminal \in visible
    /\ status = "deleted" => visible = {} /\ \A w \in Appenders : open[w] = 0

(* What holds of every reader, of its row and the log.                     *)

LastSent(row) == IF row.got = <<>> THEN 0 ELSE row.got[Len(row.got)]

(* A client has its events in order.                                       *)
InOrder(row) ==
    \A i, j \in DOMAIN row.got : i < j => row.got[i] < row.got[j]

(* Everything a client has was visible, until the Run is deleted.          *)
SentWasVisible(row) ==
    status # "deleted" => \A i \in DOMAIN row.got : row.got[i] \in visible

(* The cursor of a connected reader is the last event sent on it.          *)
CursorIsLastSent(row) == row.pc # "away" => row.cursor = LastSent(row)

(* Whatever prefix of its frames a client keeps, a visible event older     *)
(* than one it has and that it does not have was overtaken.                *)
SkippedWasLate(row) ==
    \A i \in DOMAIN row.got : \A s \in visible :
        s < row.got[i] =>
            s \in late \/ \E k \in DOMAIN row.got : row.got[k] = s

(* [DONE] is sent only behind the terminal event.                          *)
DoneIsBehind(row) ==
    row.pc = "done" /\ status # "deleted" =>
        status = "terminal" /\ terminal <= row.cursor

(* A stream knows that the Run is terminal only once it is.                *)
SeenIsTerminal(row) == row.terminalSeen => status # "active"

(* A stream that follows the Run without knowing that it is terminal has   *)
(* not passed the terminal event, unless the event was overtaken.          *)
Unnoticed(c, row) ==
    \/ c \in Sse /\ row.pc \in {"poll", "idle"} /\ ~row.terminalSeen
    \/ c \in Ui /\ row.pc \in {"poll", "row", "tail"}

TerminalAhead(c, row) ==
    status = "terminal" /\ terminal \notin late /\ Unnoticed(c, row) =>
        terminal > row.cursor

(* The bridge drains once more only after the Run settled, and closes      *)
(* without the terminal event only when that was deleted or overtaken.     *)
ClosedIsSettled(c, row) ==
    c \in Ui =>
        /\ row.pc = "tail" => status # "active"
        /\ row.pc = "closed" => status = "deleted" \/ terminal \in late

(* Only SSE clients come and go.                                           *)
PcOfKind(c, row) ==
    /\ c \in Sse => row.pc \in {"away", "poll", "recheck", "idle", "done", "notfound"}
    /\ c \in Ui => row.pc \in {"poll", "row", "tail", "done", "closed", "left"}

RowInv(c, row) ==
    /\ row \in ReaderRow /\ PcOfKind(c, row)
    /\ InOrder(row) /\ SentWasVisible(row) /\ CursorIsLastSent(row)
    /\ SkippedWasLate(row) /\ DoneIsBehind(row) /\ SeenIsTerminal(row)
    /\ TerminalAhead(c, row) /\ ClosedIsSettled(c, row)

StreamInv ==
    /\ TypeOK /\ SequencesOnce /\ TerminalOnce
    /\ \A c \in Readers : RowInv(c, reader[c])

-----------------------------------------------------------------------------
(* Lemmas about sequences.                                                 *)

(* An ascending sequence followed by a later one is ascending.             *)
LEMMA AppendAscending ==
    ASSUME NEW g \in Seq(Nat), NEW r \in Seq(Nat), NEW n \in Nat,
           \A i, j \in DOMAIN g : i < j => g[i] < g[j],
           \A i, j \in DOMAIN r : i < j => r[i] < r[j],
           \A i \in DOMAIN g : g[i] <= n,
           \A i \in DOMAIN r : r[i] > n
    PROVE  \A i, j \in DOMAIN (g \o r) : i < j => (g \o r)[i] < (g \o r)[j]
<1> SUFFICES ASSUME NEW i \in DOMAIN (g \o r), NEW j \in DOMAIN (g \o r), i < j
             PROVE  (g \o r)[i] < (g \o r)[j]
  OBVIOUS
<1>1. /\ Len(g) \in Nat /\ Len(r) \in Nat
      /\ DOMAIN g = 1..Len(g) /\ DOMAIN r = 1..Len(r)
      /\ i \in 1..(Len(g) + Len(r)) /\ j \in 1..(Len(g) + Len(r))
  OBVIOUS
<1>2. CASE j <= Len(g)
  BY <1>1, <1>2
<1>3. CASE i > Len(g)
  <2>1. /\ i - Len(g) \in DOMAIN r /\ j - Len(g) \in DOMAIN r
        /\ i - Len(g) < j - Len(g)
    BY <1>1, <1>3
  <2>2. (g \o r)[i] = r[i - Len(g)] /\ (g \o r)[j] = r[j - Len(g)]
    BY <1>1, <1>3
  <2> QED BY <2>1, <2>2
<1>4. CASE i <= Len(g) /\ j > Len(g)
  <2>1. i \in DOMAIN g /\ j - Len(g) \in DOMAIN r
    BY <1>1, <1>4
  <2>2. (g \o r)[i] = g[i] /\ (g \o r)[j] = r[j - Len(g)]
    BY <1>1, <1>4
  <2>3. g[i] \in Nat /\ r[j - Len(g)] \in Nat
    BY <2>1
  <2>4. g[i] <= n /\ r[j - Len(g)] > n
    BY <2>1
  <2> QED BY <2>2, <2>3, <2>4
<1> QED BY <1>1, <1>2, <1>3, <1>4

(* No element of an ascending sequence is past its last one.               *)
LEMMA LastIsGreatest ==
    ASSUME NEW row, row.got \in Seq(Sequence), InOrder(row),
           NEW i \in DOMAIN row.got
    PROVE  /\ row.got # <<>>
           /\ Len(row.got) \in DOMAIN row.got
           /\ LastSent(row) = row.got[Len(row.got)]
           /\ row.got[i] <= LastSent(row)
<1> DEFINE g == row.got
<1>1. /\ Len(g) \in Nat /\ i \in 1..Len(g) /\ DOMAIN g = 1..Len(g)
      /\ \A k \in 1..Len(g) : g[k] \in Nat
  BY StreamAssumption DEF Sequence
<1>2. g # <<>> /\ Len(g) \in 1..Len(g)
  BY <1>1
<1>3. i < Len(g) => g[i] < g[Len(g)]
  BY <1>1, <1>2 DEF InOrder
<1>4. g[i] <= g[Len(g)]
  BY <1>1, <1>2, <1>3
<1> QED BY <1>1, <1>2, <1>4 DEF LastSent

-----------------------------------------------------------------------------
(* What a reader has of the log.                                           *)

(* A cursor stands for every visible event up to it that was not late.     *)
LEMMA BehindCursor ==
    ASSUME TypeOK, NEW c, NEW row, RowInv(c, row), row.pc # "away",
           NEW s \in visible, s <= row.cursor
    PROVE  s \in late \/ \E k \in DOMAIN row.got : row.got[k] = s
<1>1. s \in Nat /\ s >= 1
  BY StreamAssumption DEF TypeOK
<1>2. row.got \in Seq(Sequence) /\ row.cursor = LastSent(row)
  BY DEF RowInv, CursorIsLastSent, ReaderRow
<1> DEFINE g == row.got
<1>3. g # <<>> /\ row.cursor = g[Len(g)]
  BY <1>1, <1>2 DEF LastSent
<1>4. Len(g) \in DOMAIN g
  BY <1>2, <1>3
<1>5. g[Len(g)] \in Nat
  BY <1>2, <1>4, StreamAssumption DEF Sequence
<1>6. s = g[Len(g)] \/ s < g[Len(g)]
  BY <1>1, <1>3, <1>5
<1>7. SkippedWasLate(row)
  BY DEF RowInv
<1> QED BY <1>4, <1>6, <1>7 DEF SkippedWasLate

(* The rows past a cursor, as a read returns them.                         *)
LEMMA FreshRows ==
    ASSUME TypeOK, NEW c \in Readers
    PROVE  /\ Ordered(Fresh(c)) \in Seq(Sequence)
           /\ Ordered(Fresh(c)) \in Seq(Nat)
           /\ \A i, j \in DOMAIN Ordered(Fresh(c)) :
                 i < j => Ordered(Fresh(c))[i] < Ordered(Fresh(c))[j]
           /\ \A i \in DOMAIN Ordered(Fresh(c)) :
                 /\ Ordered(Fresh(c))[i] \in visible
                 /\ Ordered(Fresh(c))[i] \in Nat
                 /\ Ordered(Fresh(c))[i] > reader[c].cursor
           /\ \A s \in Fresh(c) :
                 \E i \in DOMAIN Ordered(Fresh(c)) : Ordered(Fresh(c))[i] = s
<1>1. Fresh(c) \in SUBSET (1..MaxEvents)
  BY DEF TypeOK, Fresh
<1>2. /\ Ordered(Fresh(c)) \in Seq(Fresh(c))
      /\ \A i, j \in 1..Len(Ordered(Fresh(c))) :
            i < j => Ordered(Fresh(c))[i] < Ordered(Fresh(c))[j]
      /\ \A s \in Fresh(c) :
            \E i \in 1..Len(Ordered(Fresh(c))) : Ordered(Fresh(c))[i] = s
  BY <1>1, OrderedRows, StreamAssumption
<1> DEFINE r == Ordered(Fresh(c))
<1> HIDE DEF r
<1>3. DOMAIN r = 1..Len(r) /\ \A i \in DOMAIN r : r[i] \in Fresh(c)
  BY <1>2 DEF r
<1>4. \A s \in Fresh(c) : /\ s \in visible /\ s > reader[c].cursor
                         /\ s \in Nat /\ s \in Sequence
  BY <1>1, StreamAssumption DEF Fresh, Sequence
<1>5. r \in Seq(Sequence) /\ r \in Seq(Nat)
  <2>1. r \in [1..Len(r) -> Sequence] /\ r \in [1..Len(r) -> Nat]
    BY <1>2, <1>3, <1>4 DEF r
  <2>2. Len(r) \in Nat
    BY <1>2 DEF r
  <2> QED BY <2>1, <2>2
<1>6. \A i \in DOMAIN r : r[i] \in visible /\ r[i] \in Nat /\ r[i] > reader[c].cursor
  BY <1>3, <1>4
<1>7. \A i, j \in DOMAIN r : i < j => r[i] < r[j]
  BY <1>2, <1>3 DEF r
<1>8. \A s \in Fresh(c) : \E i \in DOMAIN r : r[i] = s
  BY <1>2, <1>3 DEF r
<1> QED BY <1>5, <1>6, <1>7, <1>8 DEF r

(* A drain leaves nothing visible past the cursor, and the client with     *)
(* every event up to it, in order, but for late ones.                      *)
LEMMA DrainedRow ==
    ASSUME StreamInv, NEW c \in Readers, reader[c].pc # "away",
           NEW pc \in {"poll", "recheck", "idle", "row", "tail", "done", "closed"}
    PROVE  /\ Drained(c, pc) \in ReaderRow
           /\ Drained(c, pc).pc = pc
           /\ Drained(c, pc).terminalSeen = reader[c].terminalSeen
           /\ Fresh(c) = {} => Drained(c, pc).cursor = reader[c].cursor
           /\ \A s \in visible : s <= Drained(c, pc).cursor
           /\ InOrder(Drained(c, pc)) /\ SentWasVisible(Drained(c, pc))
           /\ CursorIsLastSent(Drained(c, pc)) /\ SkippedWasLate(Drained(c, pc))
<1> DEFINE r == Ordered(Fresh(c))
           g == reader[c].got
           cur == reader[c].cursor
           h == g \o r
           new == IF Fresh(c) = {} THEN cur ELSE r[Len(r)]
           row == Drained(c, pc)
<1>1. TypeOK /\ RowInv(c, reader[c])
  BY DEF StreamInv
<1>2. /\ reader[c] \in ReaderRow /\ g \in Seq(Sequence) /\ cur \in Sequence
      /\ InOrder(reader[c]) /\ SentWasVisible(reader[c]) /\ cur = LastSent(reader[c])
  BY <1>1 DEF RowInv, CursorIsLastSent, ReaderRow
<1>3. cur \in Nat /\ \A s \in visible : s \in Nat /\ s \in Sequence
  BY <1>1, <1>2, StreamAssumption DEF TypeOK, Sequence
<1>4. /\ r \in Seq(Sequence) /\ r \in Seq(Nat)
      /\ \A i, j \in DOMAIN r : i < j => r[i] < r[j]
      /\ \A i \in DOMAIN r : r[i] \in visible /\ r[i] \in Nat /\ r[i] > cur
      /\ \A s \in Fresh(c) : \E i \in DOMAIN r : r[i] = s
  BY <1>1, FreshRows
<1>5. row = [reader[c] EXCEPT !.pc = pc, !.cursor = new, !.got = h]
  BY <1>2 DEF Drained, ReaderRow, Last
<1>6. Fresh(c) = {} => r = <<>>
  <2> SUFFICES ASSUME Fresh(c) = {}, r # <<>> PROVE FALSE
    OBVIOUS
  <2> HIDE DEF r
  <2>1. 1 \in DOMAIN r
    BY <1>4
  <2>2. r[1] \in Fresh(c)
    BY <2>1, <1>4 DEF Fresh
  <2> QED BY <2>2
<1> HIDE DEF r, g, cur, row
<1>7. Fresh(c) # {} => Len(r) \in DOMAIN r
  <2> SUFFICES ASSUME NEW i \in DOMAIN r PROVE Len(r) \in DOMAIN r
    BY <1>4
  <2> QED BY <1>4
<1>8. new \in Sequence
  <2>1. CASE Fresh(c) = {}
    BY <2>1, <1>2
  <2>2. CASE Fresh(c) # {}
    BY <2>2, <1>4, <1>7
  <2> QED BY <2>1, <2>2
<1>9. h \in Seq(Sequence)
  BY <1>2, <1>4
<1>10. \A i \in DOMAIN g : g[i] <= cur
  BY <1>2, LastIsGreatest DEF g
<1>11. \A i, j \in DOMAIN h : i < j => h[i] < h[j]
  <2>1. g \in Seq(Nat)
    BY <1>2, StreamAssumption DEF Sequence
  <2>2. \A i, j \in DOMAIN g : i < j => g[i] < g[j]
    BY <1>2 DEF InOrder, g
  <2> QED BY <2>1, <2>2, <1>3, <1>4, <1>10, AppendAscending
<1>12. \A i \in DOMAIN h : (i \in DOMAIN g /\ h[i] = g[i])
                           \/ \E k \in DOMAIN r : h[i] = r[k]
  <2> SUFFICES ASSUME NEW i \in DOMAIN h, ~(i \in DOMAIN g /\ h[i] = g[i])
               PROVE  \E k \in DOMAIN r : h[i] = r[k]
    OBVIOUS
  <2>1. i \in 1..(Len(g) + Len(r)) /\ i > Len(g)
    BY <1>2, <1>4
  <2>2. i - Len(g) \in DOMAIN r /\ h[i] = r[i - Len(g)]
    BY <2>1, <1>2, <1>4
  <2> QED BY <2>2
<1>13. /\ \A i \in DOMAIN g : i \in DOMAIN h /\ h[i] = g[i]
       /\ \A k \in DOMAIN r : Len(g) + k \in DOMAIN h /\ h[Len(g) + k] = r[k]
  BY <1>2, <1>4
<1>14. \A s \in visible : s <= new
  <2> SUFFICES ASSUME NEW s \in visible PROVE s <= new
    OBVIOUS
  <2>1. CASE Fresh(c) = {}
    BY <2>1, <1>3 DEF Fresh, cur
  <2>2. CASE s \in Fresh(c)
    <3>1. PICK i \in DOMAIN r : r[i] = s
      BY <2>2, <1>4
    <3>2. Len(r) \in DOMAIN r /\ i <= Len(r)
      BY <2>2, <1>7, <1>4
    <3>3. i < Len(r) => r[i] < r[Len(r)]
      BY <3>2, <1>4
    <3>4. i = Len(r) \/ i < Len(r)
      BY <3>2, <1>4
    <3>5. new = r[Len(r)] /\ r[i] \in Nat /\ r[Len(r)] \in Nat
      BY <2>2, <3>2, <1>4
    <3> QED BY <3>1, <3>3, <3>4, <3>5
  <2>3. CASE s \notin Fresh(c) /\ Fresh(c) # {}
    <3>1. s <= cur
      BY <2>3, <1>3 DEF Fresh, cur
    <3>2. new \in Nat /\ cur < new
      BY <2>3, <1>7, <1>4, <1>3
    <3> QED BY <3>1, <3>2, <1>3
  <2> QED BY <2>1, <2>2, <2>3
<1>15. \A i \in DOMAIN h : status # "deleted" => h[i] \in visible
  BY <1>2, <1>4, <1>12 DEF SentWasVisible, g
<1>16. new = IF h = <<>> THEN 0 ELSE h[Len(h)]
  <2>1. CASE Fresh(c) = {}
    <3>1. h = g /\ new = cur
      BY <2>1, <1>6, <1>2
    <3> QED BY <3>1, <1>2 DEF LastSent, g
  <2>2. CASE Fresh(c) # {}
    <3>1. new = r[Len(r)] /\ Len(r) \in DOMAIN r
      BY <2>2, <1>7
    <3>2. Len(g) + Len(r) \in DOMAIN h /\ h[Len(g) + Len(r)] = r[Len(r)]
      BY <3>1, <1>13
    <3>3. Len(h) = Len(g) + Len(r) /\ h # <<>>
      BY <3>1, <1>2, <1>4
    <3> QED BY <3>1, <3>2, <3>3
  <2> QED BY <2>1, <2>2
<1>17. \A s \in visible : s \in late \/ \E k \in DOMAIN h : h[k] = s
  <2> SUFFICES ASSUME NEW s \in visible, s \notin late
               PROVE  \E k \in DOMAIN h : h[k] = s
    OBVIOUS
  <2>1. CASE s \in Fresh(c)
    BY <2>1, <1>4, <1>13
  <2>2. CASE s \notin Fresh(c)
    <3>1. s <= reader[c].cursor
      BY <2>2, <1>3 DEF Fresh, cur
    <3>2. \E k \in DOMAIN g : g[k] = s
      BY <3>1, <1>1, BehindCursor DEF g
    <3> QED BY <3>2, <1>13
  <2> QED BY <2>1, <2>2
<1> HIDE DEF h, new
<1>18. /\ row \in ReaderRow /\ row.pc = pc /\ row.cursor = new /\ row.got = h
       /\ row.terminalSeen = reader[c].terminalSeen
  BY <1>5, <1>2, <1>8, <1>9 DEF ReaderRow
<1>19. Fresh(c) = {} => row.cursor = reader[c].cursor
  BY <1>18 DEF new, cur
<1>20. /\ InOrder(row) /\ SentWasVisible(row)
       /\ CursorIsLastSent(row) /\ SkippedWasLate(row)
  BY <1>11, <1>15, <1>16, <1>17, <1>18
     DEF InOrder, SentWasVisible, CursorIsLastSent, SkippedWasLate, LastSent
<1>21. \A s \in visible : s <= row.cursor
  BY <1>14, <1>18
<1> QED BY <1>18, <1>19, <1>20, <1>21 DEF row

-----------------------------------------------------------------------------
(* The readers' steps leave the log alone and move one row.                *)

(* The invariant follows a step of one reader if its new row has it.       *)
LEMMA ReaderMoves ==
    ASSUME StreamInv, NEW c \in Readers, NEW row, RowInv(c, row), Move(c, row),
           UNCHANGED logVars, breaks' \in 0..MaxBreaks
    PROVE  StreamInv'
<1>1. /\ reader' = [reader EXCEPT ![c] = row] /\ reader \in [Readers -> ReaderRow]
      /\ row \in ReaderRow
  BY DEF StreamInv, TypeOK, Move, RowInv
<1>2. TypeOK'
  BY <1>1 DEF StreamInv, TypeOK, logVars
<1>3. SequencesOnce' /\ TerminalOnce'
  BY DEF StreamInv, SequencesOnce, TerminalOnce, logVars
<1>4. ASSUME NEW d \in Readers PROVE RowInv(d, reader[d])'
  <2> DEFINE new == reader'[d]
  <2>1. RowInv(d, new)
    BY <1>1 DEF StreamInv
  <2> HIDE DEF new
  <2>2. new \in ReaderRow /\ PcOfKind(d, new) /\ InOrder(new)
        /\ CursorIsLastSent(new)
    BY <2>1 DEF RowInv
  <2>3. /\ status' = status /\ visible' = visible
        /\ late' = late /\ terminal' = terminal
    BY DEF logVars
  <2>4. SentWasVisible(new) /\ SkippedWasLate(new)
        /\ DoneIsBehind(new) /\ SeenIsTerminal(new)
        /\ TerminalAhead(d, new) /\ ClosedIsSettled(d, new)
    BY <2>1 DEF RowInv
  <2>5. (reader[d])' = new
    BY DEF new
  <2>6. /\ (reader[d] \in ReaderRow)' /\ PcOfKind(d, reader[d])'
        /\ InOrder(reader[d])' /\ CursorIsLastSent(reader[d])'
    BY <2>2, <2>5 DEF PcOfKind, InOrder, CursorIsLastSent, LastSent, ReaderRow, Sequence
  <2>7. SentWasVisible(reader[d])' /\ SkippedWasLate(reader[d])'
    BY <2>3, <2>4, <2>5 DEF SentWasVisible, SkippedWasLate
  <2>8. DoneIsBehind(reader[d])' /\ SeenIsTerminal(reader[d])'
    BY <2>3, <2>4, <2>5 DEF DoneIsBehind, SeenIsTerminal
  <2>9. TerminalAhead(d, reader[d])' /\ ClosedIsSettled(d, reader[d])'
    BY <2>3, <2>4, <2>5 DEF TerminalAhead, ClosedIsSettled, Unnoticed
  <2> QED BY <2>6, <2>7, <2>8, <2>9 DEF RowInv
<1> QED BY <1>2, <1>3, <1>4 DEF StreamInv

(* A row that keeps its frames and its cursor keeps what they say.         *)
LEMMA SameFrames ==
    ASSUME NEW c, NEW row, NEW new, RowInv(c, row), new \in ReaderRow,
           new.got = row.got, new.cursor = row.cursor,
           row.pc # "away" \/ new.pc = "away"
    PROVE  /\ InOrder(new) /\ SentWasVisible(new)
           /\ CursorIsLastSent(new) /\ SkippedWasLate(new)
BY DEF RowInv, InOrder, SentWasVisible, CursorIsLastSent, SkippedWasLate, LastSent

LEMMA RowTypes ==
    ASSUME StreamInv, NEW c \in Readers
    PROVE  /\ RowInv(c, reader[c]) /\ reader[c] \in ReaderRow
           /\ breaks \in 0..MaxBreaks /\ terminal \in Nat
           /\ reader[c].cursor \in Nat
           /\ \A s \in visible : s \in Nat /\ s >= 1
           /\ status \in {"active", "terminal", "deleted"}
           /\ c \in Sse => c \notin Ui
<1>1. RowInv(c, reader[c]) /\ TypeOK
  BY DEF StreamInv
<1>2. reader[c] \in ReaderRow /\ reader[c].cursor \in Sequence
  BY <1>1 DEF RowInv, ReaderRow
<1> QED BY <1>1, <1>2, StreamAssumption DEF TypeOK, Sequence

(* A terminal event that a drain passed over is behind the cursor.         *)
LEMMA NotFreshIsBehind ==
    ASSUME StreamInv, NEW c \in Readers, status = "terminal",
           terminal \notin Fresh(c)
    PROVE  terminal <= reader[c].cursor
<1>1. terminal \in visible
  BY DEF StreamInv, TerminalOnce
<1> QED BY <1>1, RowTypes DEF Fresh

LEMMA ConnectKeeps ==
    ASSUME StreamInv, NEW c \in Sse, Connect(c)
    PROVE  StreamInv'
<1> DEFINE to == IF status = "deleted" THEN "notfound" ELSE "poll"
           seen == (status = "terminal")
           at == ResumeCursor(c)
           has == Len(reader[c].got)
           row == [reader[c] EXCEPT !.pc = to, !.cursor = at,
                                    !.terminalSeen = seen, !.kept = has]
<1>0. c \in Readers
  BY DEF Readers
<1>1. /\ RowInv(c, reader[c]) /\ reader[c] \in ReaderRow /\ breaks \in 0..MaxBreaks
      /\ reader[c].got \in Seq(Sequence) /\ c \notin Ui /\ terminal \in Nat
      /\ status \in {"active", "terminal", "deleted"}
  BY <1>0, RowTypes DEF ReaderRow
<1>2. reader[c].pc = "away" /\ Move(c, row) /\ UNCHANGED <<logVars, breaks>>
  BY DEF Connect
<1>3. at = LastSent(reader[c]) /\ at \in Sequence
  <2>1. at = LastSent(reader[c])
    BY DEF ResumeCursor, LastSent, Last
  <2>2. 0 \in Sequence
    BY StreamAssumption DEF Sequence
  <2>3. reader[c].got # <<>> => Len(reader[c].got) \in DOMAIN reader[c].got
    BY <1>1
  <2> QED BY <2>1, <2>2, <2>3, <1>1 DEF LastSent
<1>4. has \in Nat /\ seen \in BOOLEAN
      /\ to \in {"notfound", "poll"} /\ (to = "notfound" <=> status = "deleted")
  BY <1>1
<1> HIDE DEF at, has, to, seen
<1>5. /\ row \in ReaderRow /\ row.pc = to /\ row.cursor = at
      /\ row.got = reader[c].got /\ row.terminalSeen = seen
  BY <1>1, <1>3, <1>4 DEF ReaderRow
<1> HIDE DEF row
<1>6. RowInv(c, row)
  <2>1. /\ InOrder(row) /\ SentWasVisible(row) /\ SkippedWasLate(row)
    BY <1>1, <1>5 DEF RowInv, InOrder, SentWasVisible, SkippedWasLate
  <2>2. CursorIsLastSent(row)
    BY <1>3, <1>5 DEF CursorIsLastSent, LastSent
  <2>3. PcOfKind(c, row) /\ ClosedIsSettled(c, row) /\ DoneIsBehind(row)
    BY <1>1, <1>4, <1>5 DEF PcOfKind, ClosedIsSettled, DoneIsBehind
  <2>4. SeenIsTerminal(row) /\ TerminalAhead(c, row)
    BY <1>1, <1>5 DEF SeenIsTerminal, TerminalAhead, Unnoticed, seen
  <2> QED BY <2>1, <2>2, <2>3, <2>4, <1>5 DEF RowInv
<1>7. UNCHANGED logVars /\ breaks' \in 0..MaxBreaks
  BY <1>1, <1>2
<1> QED BY <1>0, <1>2, <1>6, <1>7, ReaderMoves

LEMMA PollSseKeeps ==
    ASSUME StreamInv, NEW c \in Sse, PollSse(c)
    PROVE  StreamInv'
<1> DEFINE seen == reader[c].terminalSeen
           to == CASE Fresh(c) = {} /\ seen    -> "done"
                   [] Fresh(c) = {} /\ ~seen   -> "idle"
                   [] Fresh(c) # {} /\ seen    -> "poll"
                   [] Fresh(c) # {} /\ ~seen   -> "recheck"
           row == Drained(c, to)
<1>0. c \in Readers
  BY DEF Readers
<1>1. /\ RowInv(c, reader[c]) /\ reader[c] \in ReaderRow /\ breaks \in 0..MaxBreaks
      /\ c \notin Ui /\ seen \in BOOLEAN
      /\ status \in {"active", "terminal", "deleted"}
  BY <1>0, RowTypes DEF ReaderRow
<1>2. reader[c].pc = "poll" /\ Move(c, row) /\ UNCHANGED <<logVars, breaks>>
  BY DEF PollSse
<1>3. /\ to \in {"done", "idle", "poll", "recheck"}
      /\ to = "done" => Fresh(c) = {} /\ seen
      /\ to = "idle" => Fresh(c) = {} /\ ~seen
      /\ to = "poll" => seen
  <2>1. CASE seen
    BY <2>1
  <2>2. CASE ~seen
    BY <2>2
  <2> QED BY <2>1, <2>2, <1>1
<1> HIDE DEF to
<1>4. /\ row \in ReaderRow /\ row.pc = to /\ row.terminalSeen = seen
      /\ Fresh(c) = {} => row.cursor = reader[c].cursor
      /\ \A s \in visible : s <= row.cursor
      /\ InOrder(row) /\ SentWasVisible(row)
      /\ CursorIsLastSent(row) /\ SkippedWasLate(row)
  BY <1>0, <1>2, <1>3, DrainedRow
<1> HIDE DEF row
<1>5. RowInv(c, row)
  <2>1. PcOfKind(c, row) /\ ClosedIsSettled(c, row)
    BY <1>1, <1>3, <1>4 DEF PcOfKind, ClosedIsSettled
  <2>2. SeenIsTerminal(row)
    BY <1>1, <1>4 DEF RowInv, SeenIsTerminal
  <2>3. DoneIsBehind(row)
    <3> SUFFICES ASSUME row.pc = "done", status # "deleted"
                 PROVE  status = "terminal" /\ terminal <= row.cursor
      BY DEF DoneIsBehind
    <3>1. status # "active"
      BY <1>3, <1>4, <2>2 DEF SeenIsTerminal
    <3>2. status = "terminal"
      BY <3>1, <1>1
    <3>3. terminal \in visible
      BY <3>2 DEF StreamInv, TerminalOnce
    <3> QED BY <3>2, <3>3, <1>4
  <2>4. TerminalAhead(c, row)
    <3> SUFFICES ASSUME status = "terminal", terminal \notin late, Unnoticed(c, row)
                 PROVE  terminal > row.cursor
      BY DEF TerminalAhead
    <3>1. ~seen /\ to = "idle"
      BY <1>1, <1>3, <1>4 DEF Unnoticed
    <3>2. row.cursor = reader[c].cursor
      BY <3>1, <1>3, <1>4
    <3>3. Unnoticed(c, reader[c])
      BY <3>1, <1>2 DEF Unnoticed
    <3> QED BY <3>2, <3>3, <1>1 DEF RowInv, TerminalAhead
  <2> QED BY <2>1, <2>2, <2>3, <2>4, <1>4 DEF RowInv
<1>6. UNCHANGED logVars /\ breaks' \in 0..MaxBreaks
  BY <1>1, <1>2
<1> QED BY <1>0, <1>2, <1>5, <1>6, ReaderMoves

LEMMA RecheckKeeps ==
    ASSUME StreamInv, NEW c \in Sse, Recheck(c)
    PROVE  StreamInv'
<1> DEFINE seen == (status = "terminal")
           gone == [reader[c] EXCEPT !.pc = "away"]
           on == [reader[c] EXCEPT !.pc = "poll", !.terminalSeen = seen]
           row == IF status = "deleted" THEN gone ELSE on
<1>0. c \in Readers
  BY DEF Readers
<1>1. /\ RowInv(c, reader[c]) /\ reader[c] \in ReaderRow /\ breaks \in 0..MaxBreaks
      /\ c \notin Ui /\ status \in {"active", "terminal", "deleted"}
  BY <1>0, RowTypes
<1>2. reader[c].pc = "recheck" /\ Move(c, row) /\ UNCHANGED <<logVars, breaks>>
  BY DEF Recheck
<1>3. /\ row \in ReaderRow /\ row.got = reader[c].got /\ row.cursor = reader[c].cursor
      /\ row.pc \in {"away", "poll"}
      /\ row.pc = "poll" => row.terminalSeen = (status = "terminal")
      /\ status = "active" => ~row.terminalSeen
  <2>1. seen \in BOOLEAN
    OBVIOUS
  <2>2. CASE status = "deleted"
    BY <2>2, <1>1 DEF ReaderRow
  <2>3. CASE status # "deleted"
    BY <2>1, <2>3, <1>1 DEF ReaderRow
  <2> QED BY <2>2, <2>3
<1> HIDE DEF row
<1>4. RowInv(c, row)
  <2>1. /\ InOrder(row) /\ SentWasVisible(row)
        /\ CursorIsLastSent(row) /\ SkippedWasLate(row)
    BY <1>1, <1>2, <1>3, SameFrames
  <2>2. /\ PcOfKind(c, row) /\ ClosedIsSettled(c, row) /\ DoneIsBehind(row)
    BY <1>1, <1>3 DEF PcOfKind, ClosedIsSettled, DoneIsBehind
  <2>3. SeenIsTerminal(row) /\ TerminalAhead(c, row)
    BY <1>1, <1>3 DEF SeenIsTerminal, TerminalAhead, Unnoticed
  <2> QED BY <2>1, <2>2, <2>3, <1>3 DEF RowInv
<1>5. UNCHANGED logVars /\ breaks' \in 0..MaxBreaks
  BY <1>1, <1>2
<1> QED BY <1>0, <1>2, <1>4, <1>5, ReaderMoves

LEMMA WakeKeeps ==
    ASSUME StreamInv, NEW c \in Sse, Wake(c)
    PROVE  StreamInv'
<1> DEFINE row == [reader[c] EXCEPT !.pc = "poll"]
<1>0. c \in Readers
  BY DEF Readers
<1>1. /\ RowInv(c, reader[c]) /\ reader[c] \in ReaderRow /\ breaks \in 0..MaxBreaks
      /\ c \notin Ui
  BY <1>0, RowTypes
<1>2. reader[c].pc = "idle" /\ Move(c, row) /\ UNCHANGED <<logVars, breaks>>
  BY DEF Wake
<1>3. /\ row \in ReaderRow /\ row.got = reader[c].got /\ row.cursor = reader[c].cursor
      /\ row.pc = "poll" /\ row.terminalSeen = reader[c].terminalSeen
  BY <1>1 DEF ReaderRow
<1> HIDE DEF row
<1>4. RowInv(c, row)
  <2>1. /\ InOrder(row) /\ SentWasVisible(row)
        /\ CursorIsLastSent(row) /\ SkippedWasLate(row)
    BY <1>1, <1>2, <1>3, SameFrames
  <2>2. /\ PcOfKind(c, row) /\ ClosedIsSettled(c, row) /\ DoneIsBehind(row)
    BY <1>1, <1>3 DEF PcOfKind, ClosedIsSettled, DoneIsBehind
  <2>3. SeenIsTerminal(row) /\ TerminalAhead(c, row)
    BY <1>1, <1>2, <1>3 DEF RowInv, SeenIsTerminal, TerminalAhead, Unnoticed
  <2> QED BY <2>1, <2>2, <2>3, <1>3 DEF RowInv
<1>5. UNCHANGED logVars /\ breaks' \in 0..MaxBreaks
  BY <1>1, <1>2
<1> QED BY <1>0, <1>2, <1>4, <1>5, ReaderMoves

LEMMA DeadlineKeeps ==
    ASSUME StreamInv, NEW c \in Sse, Deadline(c)
    PROVE  StreamInv'
<1> DEFINE row == [reader[c] EXCEPT !.pc = "away"]
<1>0. c \in Readers
  BY DEF Readers
<1>1. /\ RowInv(c, reader[c]) /\ reader[c] \in ReaderRow /\ breaks \in 0..MaxBreaks
      /\ c \notin Ui
  BY <1>0, RowTypes
<1>2. reader[c].pc = "idle" /\ Move(c, row) /\ UNCHANGED <<logVars, breaks>>
  BY DEF Deadline
<1>3. /\ row \in ReaderRow /\ row.got = reader[c].got /\ row.cursor = reader[c].cursor
      /\ row.pc = "away" /\ row.terminalSeen = reader[c].terminalSeen
  BY <1>1 DEF ReaderRow
<1> HIDE DEF row
<1>4. RowInv(c, row)
  <2>1. /\ InOrder(row) /\ SentWasVisible(row)
        /\ CursorIsLastSent(row) /\ SkippedWasLate(row)
    BY <1>1, <1>2, <1>3, SameFrames
  <2>2. /\ PcOfKind(c, row) /\ ClosedIsSettled(c, row) /\ DoneIsBehind(row)
    BY <1>1, <1>3 DEF PcOfKind, ClosedIsSettled, DoneIsBehind
  <2>3. SeenIsTerminal(row) /\ TerminalAhead(c, row)
    BY <1>1, <1>3 DEF RowInv, SeenIsTerminal, TerminalAhead, Unnoticed
  <2> QED BY <2>1, <2>2, <2>3, <1>3 DEF RowInv
<1>5. UNCHANGED logVars /\ breaks' \in 0..MaxBreaks
  BY <1>1, <1>2
<1> QED BY <1>0, <1>2, <1>4, <1>5, ReaderMoves

(* What a client keeps of a broken connection is a prefix of its frames.   *)
LEMMA BreakSseKeeps ==
    ASSUME StreamInv, NEW c \in Sse, BreakSse(c)
    PROVE  StreamInv'
<1>0. c \in Readers
  BY DEF Readers
<1>1. /\ RowInv(c, reader[c]) /\ reader[c] \in ReaderRow /\ breaks \in 0..MaxBreaks
      /\ c \notin Ui /\ reader[c].got \in Seq(Sequence) /\ reader[c].kept \in Nat
      /\ \A s \in visible : s \in Nat
  BY <1>0, RowTypes DEF ReaderRow
<1>2. PICK n \in reader[c].kept..Len(reader[c].got) :
         Move(c, [reader[c] EXCEPT !.pc = "away", !.got = SubSeq(@, 1, n)])
  BY DEF BreakSse
<1> DEFINE g == reader[c].got
           h == SubSeq(g, 1, n)
           row == [reader[c] EXCEPT !.pc = "away", !.got = h]
<1>3. Move(c, row)
  BY <1>1, <1>2 DEF ReaderRow
<1>4. /\ n \in 0..Len(g) /\ h \in Seq(Sequence) /\ DOMAIN h = 1..n
      /\ DOMAIN g = 1..Len(g) /\ \A i \in 1..n : h[i] = g[i] /\ i \in DOMAIN g
  BY <1>1
<1> HIDE DEF h
<1>5. /\ row \in ReaderRow /\ row.pc = "away" /\ row.got = h
      /\ row.terminalSeen = reader[c].terminalSeen
  BY <1>1, <1>4 DEF ReaderRow
<1> HIDE DEF row, g
<1>6. RowInv(c, row)
  <2>0. /\ \A i, j \in DOMAIN g : i < j => g[i] < g[j]
        /\ \A i \in DOMAIN g : g[i] \in Nat
    BY <1>1, StreamAssumption DEF RowInv, InOrder, g, Sequence
  <2>1. InOrder(row)
    BY <2>0, <1>4, <1>5 DEF InOrder
  <2>2. SentWasVisible(row) /\ SeenIsTerminal(row)
    BY <1>1, <1>4, <1>5 DEF RowInv, SentWasVisible, SeenIsTerminal, g
  <2>3. SkippedWasLate(row)
    <3> SUFFICES ASSUME NEW i \in DOMAIN h, NEW s \in visible, s < h[i], s \notin late
                 PROVE  \E k \in DOMAIN h : h[k] = s
      BY <1>5 DEF SkippedWasLate
    <3>1. i \in DOMAIN g /\ h[i] = g[i] /\ i \in 1..n
      BY <1>4
    <3>2. PICK k \in DOMAIN g : g[k] = s
      BY <3>1, <1>1 DEF RowInv, SkippedWasLate, g
    <3>3. k < i
      <4>1. ~(i < k) /\ i # k
        BY <3>1, <3>2, <2>0, <1>1
      <4> QED BY <4>1, <3>1, <3>2, <1>4
    <3>4. k \in DOMAIN h /\ h[k] = s
      BY <3>1, <3>2, <3>3, <1>4
    <3> QED BY <3>4
  <2>4. /\ CursorIsLastSent(row) /\ PcOfKind(c, row) /\ ClosedIsSettled(c, row)
        /\ DoneIsBehind(row) /\ TerminalAhead(c, row)
    BY <1>1, <1>5
       DEF CursorIsLastSent, PcOfKind, ClosedIsSettled, DoneIsBehind,
           TerminalAhead, Unnoticed
  <2> QED BY <2>1, <2>2, <2>3, <2>4, <1>5 DEF RowInv
<1>7. UNCHANGED logVars /\ breaks' \in 0..MaxBreaks
  BY <1>1, StreamAssumption DEF BreakSse
<1> QED BY <1>0, <1>3, <1>6, <1>7, ReaderMoves

-----------------------------------------------------------------------------
(* The UI bridge's steps.                                                  *)

LEMMA PollUiKeeps ==
    ASSUME StreamInv, NEW c \in Ui, PollUi(c)
    PROVE  StreamInv'
<1> DEFINE to == CASE terminal \in Fresh(c) -> "done"
                   [] Fresh(c) = {}         -> "row"
                   [] OTHER                 -> "poll"
           row == Drained(c, to)
<1>0. c \in Readers
  BY DEF Readers
<1>1. /\ RowInv(c, reader[c]) /\ reader[c] \in ReaderRow /\ breaks \in 0..MaxBreaks
      /\ c \notin Sse /\ terminal \in Nat /\ reader[c].cursor \in Nat
      /\ status \in {"active", "terminal", "deleted"}
      /\ \A s \in visible : s \in Nat /\ s >= 1
  BY <1>0, RowTypes, StreamAssumption
<1>2. reader[c].pc = "poll" /\ Move(c, row) /\ UNCHANGED <<logVars, breaks>>
  BY DEF PollUi
<1>3. /\ to \in {"done", "row", "poll"}
      /\ to = "done" <=> terminal \in Fresh(c)
  BY Zenon
<1> HIDE DEF to
<1>4. /\ row \in ReaderRow /\ row.pc = to
      /\ row.terminalSeen = reader[c].terminalSeen
      /\ \A s \in visible : s <= row.cursor
      /\ InOrder(row) /\ SentWasVisible(row)
      /\ CursorIsLastSent(row) /\ SkippedWasLate(row)
  BY <1>0, <1>2, <1>3, DrainedRow
<1> HIDE DEF row
<1>5. RowInv(c, row)
  <2>1. PcOfKind(c, row) /\ ClosedIsSettled(c, row)
    BY <1>1, <1>3, <1>4 DEF PcOfKind, ClosedIsSettled
  <2>2. SeenIsTerminal(row)
    BY <1>1, <1>4 DEF RowInv, SeenIsTerminal
  <2>3. DoneIsBehind(row)
    <3> SUFFICES ASSUME row.pc = "done", status # "deleted"
                 PROVE  status = "terminal" /\ terminal <= row.cursor
      BY DEF DoneIsBehind
    <3>1. terminal \in visible
      BY <1>3, <1>4 DEF Fresh
    <3>2. terminal # 0
      BY <3>1, <1>1
    <3>3. status # "active"
      BY <3>2 DEF StreamInv, TerminalOnce
    <3> QED BY <3>1, <3>3, <1>1, <1>4
  <2>4. TerminalAhead(c, row)
    <3> SUFFICES ASSUME status = "terminal", terminal \notin late, Unnoticed(c, row)
                 PROVE  FALSE
      BY DEF TerminalAhead
    <3>1. terminal \notin Fresh(c)
      BY <1>1, <1>3, <1>4 DEF Unnoticed
    <3>2. terminal <= reader[c].cursor
      BY <3>1, <1>0, NotFreshIsBehind
    <3>3. Unnoticed(c, reader[c])
      BY <1>2 DEF Unnoticed
    <3>4. terminal > reader[c].cursor
      BY <3>3, <1>1 DEF RowInv, TerminalAhead
    <3> QED BY <3>2, <3>4, <1>1
  <2> QED BY <2>1, <2>2, <2>3, <2>4, <1>4 DEF RowInv
<1>6. UNCHANGED logVars /\ breaks' \in 0..MaxBreaks
  BY <1>1, <1>2
<1> QED BY <1>0, <1>2, <1>5, <1>6, ReaderMoves

LEMMA ReadRowKeeps ==
    ASSUME StreamInv, NEW c \in Ui, ReadRow(c)
    PROVE  StreamInv'
<1> DEFINE to == IF status = "active" THEN "poll" ELSE "tail"
           row == [reader[c] EXCEPT !.pc = to]
<1>0. c \in Readers
  BY DEF Readers
<1>1. /\ RowInv(c, reader[c]) /\ reader[c] \in ReaderRow /\ breaks \in 0..MaxBreaks
      /\ c \notin Sse
  BY <1>0, RowTypes
<1>2. reader[c].pc = "row" /\ Move(c, row) /\ UNCHANGED <<logVars, breaks>>
  BY DEF ReadRow
<1>3. to \in {"poll", "tail"} /\ (to = "tail" => status # "active")
  OBVIOUS
<1> HIDE DEF to
<1>4. /\ row \in ReaderRow /\ row.got = reader[c].got /\ row.cursor = reader[c].cursor
      /\ row.pc = to /\ row.terminalSeen = reader[c].terminalSeen
  BY <1>1, <1>3 DEF ReaderRow
<1> HIDE DEF row
<1>5. RowInv(c, row)
  <2>1. /\ InOrder(row) /\ SentWasVisible(row)
        /\ CursorIsLastSent(row) /\ SkippedWasLate(row)
    BY <1>1, <1>2, <1>3, <1>4, SameFrames
  <2>2. /\ PcOfKind(c, row) /\ ClosedIsSettled(c, row) /\ DoneIsBehind(row)
    BY <1>1, <1>3, <1>4 DEF PcOfKind, ClosedIsSettled, DoneIsBehind
  <2>3. SeenIsTerminal(row) /\ TerminalAhead(c, row)
    BY <1>1, <1>2, <1>3, <1>4 DEF RowInv, SeenIsTerminal, TerminalAhead, Unnoticed
  <2> QED BY <2>1, <2>2, <2>3, <1>4 DEF RowInv
<1>6. UNCHANGED logVars /\ breaks' \in 0..MaxBreaks
  BY <1>1, <1>2
<1> QED BY <1>0, <1>2, <1>5, <1>6, ReaderMoves

(* The last drain of a settled Run finds the terminal event, or that was   *)
(* deleted or overtaken.                                                   *)
LEMMA DrainTailKeeps ==
    ASSUME StreamInv, NEW c \in Ui, DrainTail(c)
    PROVE  StreamInv'
<1> DEFINE to == IF terminal \in Fresh(c) THEN "done" ELSE "closed"
           row == Drained(c, to)
<1>0. c \in Readers
  BY DEF Readers
<1>1. /\ RowInv(c, reader[c]) /\ reader[c] \in ReaderRow /\ breaks \in 0..MaxBreaks
      /\ c \notin Sse /\ terminal \in Nat /\ reader[c].cursor \in Nat
      /\ status \in {"active", "terminal", "deleted"}
  BY <1>0, RowTypes
<1>2. reader[c].pc = "tail" /\ Move(c, row) /\ UNCHANGED <<logVars, breaks>>
  BY DEF DrainTail
<1>3. to \in {"done", "closed"} /\ (to = "done" <=> terminal \in Fresh(c))
  OBVIOUS
<1> HIDE DEF to
<1>4. /\ row \in ReaderRow /\ row.pc = to
      /\ row.terminalSeen = reader[c].terminalSeen
      /\ \A s \in visible : s <= row.cursor
      /\ InOrder(row) /\ SentWasVisible(row)
      /\ CursorIsLastSent(row) /\ SkippedWasLate(row)
  BY <1>0, <1>2, <1>3, DrainedRow
<1> HIDE DEF row
<1>5. RowInv(c, row)
  <2>0. status # "active"
    BY <1>1, <1>2 DEF RowInv, ClosedIsSettled
  <2>1. PcOfKind(c, row) /\ SeenIsTerminal(row) /\ TerminalAhead(c, row)
    BY <2>0, <1>1, <1>3, <1>4
       DEF RowInv, PcOfKind, SeenIsTerminal, TerminalAhead, Unnoticed
  <2>2. DoneIsBehind(row)
    BY <2>0, <1>1, <1>3, <1>4 DEF DoneIsBehind, Fresh
  <2>3. ClosedIsSettled(c, row)
    <3> SUFFICES ASSUME status # "deleted", to = "closed" PROVE terminal \in late
      BY <1>3, <1>4 DEF ClosedIsSettled
    <3>1. status = "terminal"
      BY <2>0, <1>1
    <3>2. terminal <= reader[c].cursor
      BY <3>1, <1>0, <1>3, NotFreshIsBehind
    <3>3. Unnoticed(c, reader[c])
      BY <1>2 DEF Unnoticed
    <3>4. terminal \notin late => terminal > reader[c].cursor
      BY <3>1, <3>3, <1>1 DEF RowInv, TerminalAhead
    <3> QED BY <3>2, <3>4, <1>1
  <2> QED BY <2>1, <2>2, <2>3, <1>4 DEF RowInv
<1>6. UNCHANGED logVars /\ breaks' \in 0..MaxBreaks
  BY <1>1, <1>2
<1> QED BY <1>0, <1>2, <1>5, <1>6, ReaderMoves

LEMMA BreakUiKeeps ==
    ASSUME StreamInv, NEW c \in Ui, BreakUi(c)
    PROVE  StreamInv'
<1> DEFINE row == [reader[c] EXCEPT !.pc = "left"]
<1>0. c \in Readers
  BY DEF Readers
<1>1. /\ RowInv(c, reader[c]) /\ reader[c] \in ReaderRow /\ breaks \in 0..MaxBreaks
      /\ c \notin Sse
  BY <1>0, RowTypes
<1>2. reader[c].pc \in {"poll", "row", "tail"} /\ Move(c, row)
  BY DEF BreakUi
<1>3. /\ row \in ReaderRow /\ row.got = reader[c].got /\ row.cursor = reader[c].cursor
      /\ row.pc = "left" /\ row.terminalSeen = reader[c].terminalSeen
  BY <1>1 DEF ReaderRow
<1> HIDE DEF row
<1>4. RowInv(c, row)
  <2>1. /\ InOrder(row) /\ SentWasVisible(row)
        /\ CursorIsLastSent(row) /\ SkippedWasLate(row)
    BY <1>1, <1>2, <1>3, SameFrames
  <2>2. /\ PcOfKind(c, row) /\ ClosedIsSettled(c, row) /\ DoneIsBehind(row)
    BY <1>1, <1>3 DEF PcOfKind, ClosedIsSettled, DoneIsBehind
  <2>3. SeenIsTerminal(row) /\ TerminalAhead(c, row)
    BY <1>1, <1>3 DEF RowInv, SeenIsTerminal, TerminalAhead, Unnoticed
  <2> QED BY <2>1, <2>2, <2>3, <1>3 DEF RowInv
<1>5. UNCHANGED logVars /\ breaks' \in 0..MaxBreaks
  BY <1>1, StreamAssumption DEF BreakUi
<1> QED BY <1>0, <1>2, <1>4, <1>5, ReaderMoves

-----------------------------------------------------------------------------
(* The log's steps leave the readers alone.                                *)

LEMMA InsertKeeps ==
    ASSUME StreamInv, NEW w \in Appenders, Insert(w)
    PROVE  StreamInv'
<1>1. /\ drawn \in Nat /\ drawn + 1 \in Sequence
      /\ \A s \in visible : s \in Nat /\ s <= drawn
      /\ \A v \in Appenders : open[v] \in Nat /\ open[v] <= drawn
      /\ open' = [open EXCEPT ![w] = drawn + 1] /\ open \in [Appenders -> Sequence]
      /\ drawn' = drawn + 1 /\ Settler \in Appenders
  BY StreamAssumption
     DEF StreamInv, TypeOK, SequencesOnce, Insert, Sequence, Appenders
<1>2. UNCHANGED <<status, visible, terminal, late, reader, breaks>>
  BY DEF Insert
<1>3. \A v \in Appenders : open'[v] = IF v = w THEN drawn + 1 ELSE open[v]
  BY <1>1
<1>4. TypeOK'
  BY <1>1, <1>2 DEF StreamInv, TypeOK
<1>5. SequencesOnce'
  <2>1. \A s \in visible' : s <= drawn'
    BY <1>1, <1>2
  <2>2. ASSUME NEW v \in Appenders
        PROVE  /\ open'[v] <= drawn' /\ open'[v] \notin visible'
               /\ \A u \in Appenders : u # v /\ open'[u] = open'[v] => open'[v] = 0
    <3>1. open[v] \notin visible
          /\ \A u \in Appenders : u # v /\ open[u] = open[v] => open[v] = 0
      BY DEF StreamInv, SequencesOnce
    <3>2. CASE v = w
      BY <3>2, <1>1, <1>2, <1>3
    <3>3. CASE v # w
      BY <3>1, <3>3, <1>1, <1>2, <1>3
    <3> QED BY <3>2, <3>3
  <2> QED BY <2>1, <2>2 DEF SequencesOnce
<1>6. TerminalOnce'
  <2>1. status # "deleted" /\ (w = Settler => status = "active")
    BY DEF Insert
  <2> QED BY <2>1, <1>1, <1>2, <1>3 DEF StreamInv, TerminalOnce
<1>7. \A c \in Readers : RowInv(c, reader[c])'
  BY <1>2 DEF StreamInv, RowInv, ReaderRow, Sequence, PcOfKind, InOrder, SentWasVisible,
     CursorIsLastSent, SkippedWasLate, DoneIsBehind, SeenIsTerminal,
     TerminalAhead, ClosedIsSettled, Unnoticed, LastSent
<1> QED BY <1>4, <1>5, <1>6, <1>7 DEF StreamInv

LEMMA RollbackKeeps ==
    ASSUME StreamInv, NEW w \in Appenders, Rollback(w)
    PROVE  StreamInv'
<1>1. /\ drawn \in Nat /\ 0 \in Sequence /\ 0 \notin visible
      /\ open' = [open EXCEPT ![w] = 0] /\ open \in [Appenders -> Sequence]
      /\ Settler \in Appenders
  BY StreamAssumption DEF StreamInv, TypeOK, Rollback, Sequence, Appenders
<1>2. UNCHANGED <<status, drawn, visible, terminal, late, reader, breaks>>
  BY DEF Rollback
<1>3. \A v \in Appenders : open'[v] = IF v = w THEN 0 ELSE open[v]
  BY <1>1
<1>4. TypeOK'
  BY <1>1, <1>2 DEF StreamInv, TypeOK
<1>5. SequencesOnce'
  BY <1>1, <1>2, <1>3 DEF StreamInv, SequencesOnce
<1>6. TerminalOnce'
  BY <1>1, <1>2, <1>3 DEF StreamInv, TerminalOnce
<1>7. \A c \in Readers : RowInv(c, reader[c])'
  BY <1>2 DEF StreamInv, RowInv, ReaderRow, Sequence, PcOfKind, InOrder, SentWasVisible,
     CursorIsLastSent, SkippedWasLate, DoneIsBehind, SeenIsTerminal,
     TerminalAhead, ClosedIsSettled, Unnoticed, LastSent
<1> QED BY <1>4, <1>5, <1>6, <1>7 DEF StreamInv

LEMMA DeleteRunKeeps ==
    ASSUME StreamInv, DeleteRun
    PROVE  StreamInv'
<1>1. /\ status' = "deleted" /\ visible' = {}
      /\ UNCHANGED <<drawn, terminal, open, late, reader, breaks>>
      /\ \A w \in Appenders : open[w] = 0
      /\ Settler \in Appenders
  BY DEF DeleteRun, Appenders
<1>2. TypeOK'
  BY <1>1 DEF StreamInv, TypeOK
<1>3. SequencesOnce' /\ TerminalOnce'
  BY <1>1 DEF StreamInv, SequencesOnce, TerminalOnce
<1>4. ASSUME NEW c \in Readers PROVE RowInv(c, reader[c])'
  <2>1. RowInv(c, reader[c])
    BY DEF StreamInv
  <2>2. /\ (reader[c] \in ReaderRow)' /\ PcOfKind(c, reader[c])'
        /\ InOrder(reader[c])' /\ CursorIsLastSent(reader[c])'
    BY <1>1, <2>1
       DEF RowInv, ReaderRow, Sequence, PcOfKind, InOrder, CursorIsLastSent, LastSent
  <2>3. /\ SentWasVisible(reader[c])' /\ SkippedWasLate(reader[c])'
        /\ DoneIsBehind(reader[c])' /\ SeenIsTerminal(reader[c])'
        /\ TerminalAhead(c, reader[c])' /\ ClosedIsSettled(c, reader[c])'
    BY <1>1
       DEF SentWasVisible, SkippedWasLate, DoneIsBehind, SeenIsTerminal,
           TerminalAhead, ClosedIsSettled
  <2> QED BY <2>2, <2>3 DEF RowInv
<1> QED BY <1>2, <1>3, <1>4 DEF StreamInv

(* An event becomes visible: a reader whose cursor, or whose client's      *)
(* frames, are past it makes it late; a terminal event that is not late is *)
(* past every cursor.                                                      *)
LEMMA CommitKeeps ==
    ASSUME StreamInv, NEW w \in Appenders, Commit(w)
    PROVE  StreamInv'
<1> DEFINE s == open[w]
<1>1. /\ s # 0 /\ s \in Nat /\ s \in 1..MaxEvents /\ s <= drawn /\ s \notin visible
      /\ drawn \in Nat /\ 0 \in Sequence /\ s \in Sequence
      /\ open \in [Appenders -> Sequence] /\ Settler \in Appenders
      /\ \A v \in visible : v \in Nat /\ v # 0
      /\ \A v \in late : v \in Nat /\ v # 0
      /\ status \in {"active", "terminal", "deleted"}
  BY StreamAssumption DEF StreamInv, TypeOK, SequencesOnce, Commit, Sequence, Appenders
<1>2. /\ open' = [open EXCEPT ![w] = 0] /\ visible' = visible \cup {s}
      /\ w = Settler => status' = "terminal" /\ terminal' = s
      /\ w # Settler => UNCHANGED <<status, terminal>>
      /\ late' = late \cup {x \in {s} : Overtaken(x)}
      /\ UNCHANGED <<drawn, reader, breaks>>
  BY DEF Commit
<1>3. \A v \in Appenders : open'[v] = IF v = w THEN 0 ELSE open[v]
  BY <1>1, <1>2
<1>4. /\ late \subseteq late'
      /\ \A v \in visible : v > s => s \in late'
  BY <1>1, <1>2 DEF Overtaken
<1>5. /\ status # "deleted"
      /\ w = Settler => status = "active" /\ terminal = 0
  BY <1>1 DEF StreamInv, TerminalOnce
<1> HIDE DEF s
<1>6. TypeOK'
  <2>1. status' \in {"active", "terminal", "deleted"} /\ terminal' \in Sequence
    BY <1>1, <1>2 DEF StreamInv, TypeOK
  <2>2. visible' \subseteq 1..MaxEvents /\ late' \subseteq 1..MaxEvents
    BY <1>1, <1>2 DEF StreamInv, TypeOK
  <2>3. open' \in [Appenders -> Sequence]
    BY <1>1, <1>2
  <2> QED BY <2>1, <2>2, <2>3, <1>2 DEF StreamInv, TypeOK
<1>7. SequencesOnce'
  <2>1. \A v \in visible' : v <= drawn'
    BY <1>1, <1>2 DEF StreamInv, SequencesOnce
  <2>2. ASSUME NEW v \in Appenders
        PROVE  /\ open'[v] <= drawn' /\ open'[v] \notin visible'
               /\ \A u \in Appenders : u # v /\ open'[u] = open'[v] => open'[v] = 0
    <3>1. /\ open[v] <= drawn /\ open[v] \notin visible
          /\ v # w => open[v] # s
          /\ \A u \in Appenders : u # v /\ open[u] = open[v] => open[v] = 0
      BY <1>1 DEF StreamInv, SequencesOnce, s
    <3>2. CASE v = w
      BY <3>2, <1>1, <1>2, <1>3
    <3>3. CASE v # w
      BY <3>1, <3>3, <1>2, <1>3
    <3> QED BY <3>2, <3>3
  <2> QED BY <2>1, <2>2 DEF SequencesOnce
<1>8. TerminalOnce'
  <2>1. CASE w = Settler
    BY <2>1, <1>1, <1>2, <1>3 DEF TerminalOnce
  <2>2. CASE w # Settler
    BY <2>2, <1>1, <1>2, <1>3, <1>5 DEF StreamInv, TerminalOnce
  <2> QED BY <2>1, <2>2
<1>9. ASSUME NEW c \in Readers PROVE RowInv(c, reader[c])'
  <2>1. /\ RowInv(c, reader[c]) /\ reader[c].got \in Seq(Sequence)
        /\ reader[c].cursor \in Nat /\ terminal \in Nat
    BY RowTypes DEF ReaderRow
  <2>2. \A i \in DOMAIN reader[c].got : reader[c].got[i] \in visible
    BY <2>1, <1>5 DEF RowInv, SentWasVisible
  <2>3. /\ (reader[c] \in ReaderRow)' /\ PcOfKind(c, reader[c])'
        /\ InOrder(reader[c])' /\ CursorIsLastSent(reader[c])'
    BY <1>2, <2>1
       DEF RowInv, ReaderRow, Sequence, PcOfKind, InOrder, CursorIsLastSent, LastSent
  <2>4. SentWasVisible(reader[c])' /\ SeenIsTerminal(reader[c])'
    <3>1. SeenIsTerminal(reader[c])
      BY <2>1 DEF RowInv
    <3>2. status # "active" => status' # "active"
      BY <1>2
    <3> QED BY <3>1, <3>2, <2>2, <1>2 DEF SentWasVisible, SeenIsTerminal
  <2>5. SkippedWasLate(reader[c])'
    <3> SUFFICES ASSUME NEW i \in DOMAIN reader[c].got, NEW t \in visible',
                        t < reader[c].got[i], t \notin late'
                 PROVE  \E k \in DOMAIN reader[c].got : reader[c].got[k] = t
      BY <1>2 DEF SkippedWasLate
    <3>1. t # s
      BY <2>2, <1>1, <1>4
    <3>2. t \in visible /\ t \notin late
      BY <3>1, <1>2, <1>4
    <3> QED BY <3>2, <2>1 DEF RowInv, SkippedWasLate
  <2>6. DoneIsBehind(reader[c])'
    <3>1. reader[c].pc = "done" => status = "terminal" /\ terminal <= reader[c].cursor
      BY <2>1, <1>5 DEF RowInv, DoneIsBehind
    <3>2. status = "terminal" => UNCHANGED <<status, terminal>>
      BY <1>2, <1>5
    <3> QED BY <3>1, <3>2, <1>2 DEF DoneIsBehind
  <2>7. TerminalAhead(c, reader[c])'
    <3> SUFFICES ASSUME status' = "terminal", terminal' \notin late',
                        Unnoticed(c, reader[c])
                 PROVE  terminal' > reader[c].cursor
      BY <1>2 DEF TerminalAhead, Unnoticed
    <3>1. CASE w # Settler
      BY <3>1, <2>1, <1>2, <1>4 DEF RowInv, TerminalAhead
    <3>2. CASE w = Settler
      <4>1. reader[c].cursor = LastSent(reader[c])
        BY <2>1 DEF RowInv, CursorIsLastSent, Unnoticed
      <4>2. reader[c].cursor = 0 \/ reader[c].cursor \in visible
        <5>1. reader[c].got # <<>> => Len(reader[c].got) \in DOMAIN reader[c].got
          BY <2>1
        <5> QED BY <4>1, <5>1, <2>2 DEF LastSent
      <4>3. terminal' = s /\ s \notin late'
        BY <3>2, <1>2
      <4>4. ~(reader[c].cursor > s) \/ reader[c].cursor = 0
        BY <4>2, <4>3, <1>4
      <4>5. reader[c].cursor # s
        BY <4>2, <1>1
      <4> QED BY <4>3, <4>4, <4>5, <2>1, <1>1
    <3> QED BY <3>1, <3>2
  <2>8. ClosedIsSettled(c, reader[c])'
    <3> SUFFICES ASSUME c \in Ui
                 PROVE  /\ reader[c].pc = "tail" => status' # "active"
                        /\ reader[c].pc = "closed" => terminal' \in late'
      BY <1>2 DEF ClosedIsSettled
    <3>1. /\ reader[c].pc = "tail" => status # "active"
          /\ reader[c].pc = "closed" => terminal \in late
      BY <2>1, <1>5 DEF RowInv, ClosedIsSettled
    <3>2. terminal \in late => w # Settler
      BY <1>1, <1>5
    <3> QED BY <3>1, <3>2, <1>2, <1>4, <1>5
  <2> QED BY <2>3, <2>4, <2>5, <2>6, <2>7, <2>8 DEF RowInv
<1> QED BY <1>6, <1>7, <1>8, <1>9 DEF StreamInv

-----------------------------------------------------------------------------
(* The invariant.                                                          *)

LEMMA StreamInit == Init => StreamInv
<1> SUFFICES ASSUME Init PROVE StreamInv
  OBVIOUS
<1>1. \A c \in Readers :
         /\ reader[c] \in ReaderRow /\ reader[c].got = <<>>
         /\ reader[c].cursor = 0 /\ reader[c].terminalSeen = FALSE
         /\ reader[c].pc = IF c \in Sse THEN "away" ELSE "poll"
  BY StreamAssumption DEF Init, ReaderRow, Sequence
<1>2. TypeOK
  <2>1. reader \in [Readers -> ReaderRow]
    BY <1>1 DEF Init
  <2> QED BY <2>1, StreamAssumption DEF Init, TypeOK, Sequence
<1>3. SequencesOnce /\ TerminalOnce
  BY DEF Init, SequencesOnce, TerminalOnce, Appenders
<1>4. ASSUME NEW c \in Readers PROVE RowInv(c, reader[c])
  <2>1. status = "active" /\ visible = {}
    BY DEF Init
  <2>2. DOMAIN reader[c].got = {}
    BY <1>1
  <2>3. c \in Sse => c \notin Ui
    BY StreamAssumption
  <2>4. InOrder(reader[c]) /\ SentWasVisible(reader[c]) /\ SkippedWasLate(reader[c])
    BY <2>2 DEF InOrder, SentWasVisible, SkippedWasLate
  <2>5. CursorIsLastSent(reader[c])
    BY <1>1 DEF CursorIsLastSent, LastSent
  <2>6. PcOfKind(c, reader[c]) /\ DoneIsBehind(reader[c]) /\ SeenIsTerminal(reader[c])
        /\ TerminalAhead(c, reader[c]) /\ ClosedIsSettled(c, reader[c])
    BY <1>1, <2>1, <2>3
       DEF PcOfKind, DoneIsBehind, SeenIsTerminal, TerminalAhead, ClosedIsSettled
  <2> QED BY <1>1, <2>4, <2>5, <2>6 DEF RowInv
<1> QED BY <1>2, <1>3, <1>4 DEF StreamInv

LEMMA StreamStep == StreamInv /\ [Next]_vars => StreamInv'
<1> SUFFICES ASSUME StreamInv, [Next]_vars PROVE StreamInv'
  OBVIOUS
<1>1. CASE DeleteRun
  BY <1>1, DeleteRunKeeps
<1>2. ASSUME NEW w \in Appenders, Insert(w) \/ Commit(w) \/ Rollback(w)
      PROVE  StreamInv'
  BY <1>2, InsertKeeps, CommitKeeps, RollbackKeeps
<1>3. ASSUME NEW c \in Sse, SseStep(c) \/ Deadline(c) \/ BreakSse(c)
      PROVE  StreamInv'
  BY <1>3, ConnectKeeps, PollSseKeeps, RecheckKeeps, WakeKeeps,
     DeadlineKeeps, BreakSseKeeps DEF SseStep
<1>4. ASSUME NEW c \in Ui, UiStep(c) \/ BreakUi(c)
      PROVE  StreamInv'
  BY <1>4, PollUiKeeps, ReadRowKeeps, DrainTailKeeps, BreakUiKeeps DEF UiStep
<1>5. CASE UNCHANGED vars
  BY <1>5 DEF vars, StreamInv, TypeOK, SequencesOnce, TerminalOnce, RowInv, ReaderRow,
     Sequence, PcOfKind, InOrder, SentWasVisible, CursorIsLastSent, SkippedWasLate,
     DoneIsBehind, SeenIsTerminal, TerminalAhead, ClosedIsSettled, Unnoticed, LastSent
<1> QED BY <1>1, <1>2, <1>3, <1>4, <1>5 DEF Next, Log

(* The inductive invariant of the event log and its streams: sequences are *)
(* drawn once, the terminal status and its event are one, and every reader *)
(* stands where its last frame says (RunEventsRepository.append,           *)
(* listByRunId, pumpRunEvents, pumpUiMessageEvents).                       *)
THEOREM StreamInvariant == Spec => []StreamInv
<1>1. StreamInv /\ UNCHANGED vars => StreamInv'
  BY StreamStep
<1> QED BY StreamInit, StreamStep, PTL DEF Spec

(* However often an SSE client reconnects, and whatever it kept of the     *)
(* frames sent to it, it never gets an event twice or out of order; nor    *)
(* does a client of the UI bridge.                                         *)
THEOREM EventsInOrder == Spec => []DeliveredInOrder
<1>1. StreamInv => DeliveredInOrder
  BY DEF StreamInv, RowInv, InOrder, DeliveredInOrder
<1> QED BY <1>1, StreamInvariant, PTL

(* What a stream's cursor, or its [DONE], has passed over without sending  *)
(* became visible after a later event: afterSequence loses nothing else.   *)
THEOREM OnlyLateEventsLost == Spec => []OnlyLateLost
<1>1. StreamInv => OnlyLateLost
  <2> SUFFICES ASSUME StreamInv, NEW c \in Readers, NEW s \in Missed(c)
               PROVE  s \in late
    BY DEF OnlyLateLost
  <2> DEFINE row == reader[c]
             upTo == IF row.pc = "done" THEN terminal ELSE row.cursor
  <2>1. /\ RowInv(c, row) /\ row.pc # "away" /\ TypeOK
        /\ row.cursor \in Nat /\ terminal \in Nat
    BY RowTypes DEF StreamInv, Missed
  <2>2. /\ s \in visible /\ s <= upTo /\ s \in Nat
        /\ s \notin Range(row.got)
    BY RowTypes DEF Missed
  <2>3. s <= row.cursor
    <3>1. CASE row.pc # "done"
      BY <3>1, <2>2
    <3>2. CASE row.pc = "done"
      <4>1. status # "deleted"
        BY <2>2 DEF StreamInv, TerminalOnce
      <4>2. terminal <= row.cursor
        BY <3>2, <4>1, <2>1 DEF RowInv, DoneIsBehind
      <4> QED BY <3>2, <4>2, <2>1, <2>2
    <3> QED BY <3>1, <3>2
  <2>4. ~ \E k \in DOMAIN row.got : row.got[k] = s
    BY <2>2 DEF Range
  <2> HIDE DEF row, upTo
  <2> QED BY <2>1, <2>2, <2>3, <2>4, BehindCursor
<1> QED BY <1>1, StreamInvariant, PTL

(* A settled Run whose terminal event was not overtaken is never hidden    *)
(* from an SSE stream: the row is re-read only after a pass with events    *)
(* (refreshTerminalSeen), and that event is one.                           *)
THEOREM TerminalAlwaysSurfaces == Spec => []TerminalSurfacesInOrder
<1>1. StreamInv => TerminalSurfacesInOrder
  <2> SUFFICES ASSUME StreamInv, terminal \notin late, NEW c \in Hidden
               PROVE  FALSE
    BY DEF TerminalSurfacesInOrder
  <2>1. /\ c \in Sse /\ c \in Readers /\ status = "terminal" /\ Fresh(c) = {}
        /\ Unnoticed(c, reader[c])
    BY DEF Hidden, Unnoticed, Readers
  <2>2. terminal <= reader[c].cursor
    BY <2>1, NotFreshIsBehind
  <2>3. terminal > reader[c].cursor
    BY <2>1 DEF StreamInv, RowInv, TerminalAhead
  <2>4. terminal \in Nat /\ reader[c].cursor \in Nat
    BY <2>1, RowTypes
  <2> QED BY <2>2, <2>3, <2>4
<1> QED BY <1>1, StreamInvariant, PTL

(* The UI bridge closes a connected client's stream without the finish     *)
(* chunk only if the Run was deleted or its terminal event overtaken.      *)
THEOREM BridgeSeesTerminal == Spec => []UiSeesTerminal
<1>1. StreamInv => UiSeesTerminal
  BY DEF StreamInv, RowInv, ClosedIsSettled, UiSeesTerminal, Readers
<1> QED BY <1>1, StreamInvariant, PTL
=============================================================================
