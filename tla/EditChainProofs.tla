-------------------------- MODULE EditChainProofs --------------------------
(***************************************************************************)
(* Theorems about EditService, on top of EditGroupProofs: walked in order, *)
(* the history takes the scene from the first value of every slot to its   *)
(* last, so what an undo or a redo writes is what stood there.             *)
(*                                                                         *)
(* The invariant reads the walk slot by slot.  Each entry starts from the  *)
(* value the last entry of its slot left, and the entry at the place of    *)
(* the walk meets what the scene holds, or what the step in flight will    *)
(* leave there.  What the shadow's cache of prepared corrections holds is  *)
(* bounded with it, since a correction rewrites an entry of the walk.      *)
(***************************************************************************)
EXTENDS EditGroupProofs

-----------------------------------------------------------------------------
(* The walk takes every slot from one value to the next: an entry starts      *)
(* where the one before it on its slot ended.                                 *)

SlotAt(h, i) == At(h, i).rec.slot

\* No entry strictly between two places is about slot s.
Untouched(h, s, a, b) == \A k \in 1..Span(h) : a < k /\ k < b => SlotAt(h, k) # s

\* Place j is the next on its slot after place i.
Succeeds(h, i, j) == i < j /\ SlotAt(h, i) = SlotAt(h, j) /\ Untouched(h, SlotAt(h, j), i, j)

\* Of the slots that are followed, and within a group of any.
Linked(h, loose) ==
    \A i, j \in 1..Span(h) :
      Succeeds(h, i, j) /\ (SlotAt(h, j) \notin loose \/ At(h, i).key = At(h, j).key)
        => At(h, i).rec.new = At(h, j).rec.old

\* What a group changes first of an object it has created was as new.
Rooted(h) ==
    \A i, j \in 1..Span(h) :
      /\ i < j /\ At(h, i).key = At(h, j).key /\ CreatesAt(h, i, Obj(h, j))
      /\ Untouched(h, SlotAt(h, j), i, j)
      => At(h, j).rec.old = Root

\* The engine leaves the values as they are when they are sent again.
InRange(s, v) == s[2] = "property" => v <= MaxValue
RecInRange(rec) == InRange(rec.slot, rec.old) /\ InRange(rec.slot, rec.new)
Ranged(h, loose) ==
    \A i \in 1..Span(h) : SlotAt(h, i) \notin loose \/ At(h, i).named => RecInRange(At(h, i).rec)

Chained(h, loose) == Linked(h, loose) /\ Rooted(h) /\ Ranged(h, loose)

\* Where the history is, slot s has the value v: what is done has led to it, what is undone
\* starts from it.
Meets(h, s, v) ==
    /\ \A i \in 1..Span(h) :
         i <= Here(h) /\ SlotAt(h, i) = s /\ Untouched(h, s, i, Here(h) + 1) => At(h, i).rec.new = v
    /\ \A i \in 1..Span(h) :
         Here(h) < i /\ SlotAt(h, i) = s /\ Untouched(h, s, Here(h), i) => At(h, i).rec.old = v
AllMeet(h, scene, loose) == \A s \in AllSlots : s \in loose \/ Meets(h, s, scene[s])

\* The active group has led to the scene, followed or not.
Grouped(h, scene) ==
    \A i \in 1..Span(h) : InGroup(h, i) =>
      /\ Untouched(h, SlotAt(h, i), i, Span(h) + 1) => At(h, i).rec.new = scene[SlotAt(h, i)]
      /\ \A s \in Slots : CreatesAt(h, i, s[1]) /\ Untouched(h, s, i, Span(h) + 1) => scene[s] = Root

LEMMA NothingChains ==
    ASSUME NEW h, Span(h) = 0
    PROVE  /\ \A loose : Chained(h, loose)
           /\ \A scene, loose : AllMeet(h, scene, loose)
           /\ \A scene : Grouped(h, scene)
BY DEF Chained, Linked, Rooted, Ranged, AllMeet, Meets, Grouped

LEMMA LooseChains ==
    ASSUME NEW h, NEW loose, NEW more, loose \subseteq more
    PROVE  /\ Chained(h, loose) => Chained(h, more)
           /\ \A scene : AllMeet(h, scene, loose) => AllMeet(h, scene, more)
<1>1. Chained(h, loose) => Chained(h, more)
  BY DEF Chained, Linked, Ranged
<1>2. \A scene : AllMeet(h, scene, loose) => AllMeet(h, scene, more)
  BY DEF AllMeet
<1> QED
  BY <1>1, <1>2

\* A scene that agrees where it matters.
LEMMA SceneMeets ==
    ASSUME NEW h, NEW loose, NEW scene, NEW next,
           \A s \in AllSlots : s \in loose \/ next[s] = scene[s] \/ \A i \in 1..Span(h) : SlotAt(h, i) # s
    PROVE  AllMeet(h, scene, loose) => AllMeet(h, next, loose)
<1> SUFFICES ASSUME AllMeet(h, scene, loose), NEW s \in AllSlots, s \notin loose
             PROVE  Meets(h, s, next[s])
  BY DEF AllMeet
<1>1. Meets(h, s, scene[s])
  BY DEF AllMeet
<1>2. CASE next[s] = scene[s]
  BY <1>1, <1>2
<1>3. CASE \A i \in 1..Span(h) : SlotAt(h, i) # s
  BY <1>3 DEF Meets
<1> QED
  BY <1>2, <1>3

\* The same records in the same groups; what is in the active group has been.
SameMarks(h, g) ==
    /\ SameRecs(h, g)
    /\ \A i \in 1..Span(h) : /\ At(g, i).key = At(h, i).key /\ At(g, i).named = At(h, i).named
                             /\ InGroup(g, i) => InGroup(h, i)

LEMMA SameChains ==
    ASSUME NEW h, NEW g, SameMarks(h, g)
    PROVE  /\ \A loose : Chained(h, loose) => Chained(g, loose)
           /\ \A scene, loose : AllMeet(h, scene, loose) => AllMeet(g, scene, loose)
           /\ \A scene : Grouped(h, scene) => Grouped(g, scene)
<1>1. /\ Span(g) = Span(h) /\ Here(g) = Here(h)
      /\ \A i \in 1..Span(h) : /\ At(g, i).rec = At(h, i).rec /\ SlotAt(g, i) = SlotAt(h, i)
                               /\ Obj(g, i) = Obj(h, i)
                               /\ At(g, i).key = At(h, i).key /\ At(g, i).named = At(h, i).named
                               /\ InGroup(g, i) => InGroup(h, i)
                               /\ \A o : CreatesAt(g, i, o) <=> CreatesAt(h, i, o)
  BY DEF SameMarks, SameRecs, SlotAt, Obj, CreatesAt
<1>2. \A s, a, b : Untouched(g, s, a, b) <=> Untouched(h, s, a, b)
  BY <1>1 DEF Untouched
<1>3. ASSUME NEW loose, Chained(h, loose) PROVE Chained(g, loose)
  <2>1. Linked(g, loose)
    <3> SUFFICES ASSUME NEW i \in 1..Span(h), NEW j \in 1..Span(h), Succeeds(g, i, j),
                        SlotAt(g, j) \notin loose \/ At(g, i).key = At(g, j).key
                 PROVE  At(g, i).rec.new = At(g, j).rec.old
      BY <1>1 DEF Linked
    <3>1. Succeeds(h, i, j)
      BY <1>1, <1>2 DEF Succeeds
    <3> QED
      BY <1>1, <1>3, <3>1 DEF Chained, Linked
  <2>2. Rooted(g)
    <3> SUFFICES ASSUME NEW i \in 1..Span(h), NEW j \in 1..Span(h), i < j, At(g, i).key = At(g, j).key,
                        CreatesAt(g, i, Obj(g, j)), Untouched(g, SlotAt(g, j), i, j)
                 PROVE  At(g, j).rec.old = Root
      BY <1>1 DEF Rooted
    <3>1. /\ At(h, i).key = At(h, j).key /\ CreatesAt(h, i, Obj(h, j))
          /\ Untouched(h, SlotAt(h, j), i, j)
      BY <1>1, <1>2
    <3> QED
      BY <1>1, <1>3, <3>1 DEF Chained, Rooted
  <2>3. Ranged(g, loose)
    BY <1>1, <1>3 DEF Chained, Ranged
  <2> QED
    BY <2>1, <2>2, <2>3 DEF Chained
<1>4. ASSUME NEW scene, NEW loose, AllMeet(h, scene, loose) PROVE AllMeet(g, scene, loose)
  <2>1. \A s, v : Meets(h, s, v) => Meets(g, s, v)
    BY <1>1, <1>2 DEF Meets
  <2> QED
    BY <1>4, <2>1 DEF AllMeet
<1>5. ASSUME NEW scene, Grouped(h, scene) PROVE Grouped(g, scene)
  BY <1>1, <1>2, <1>5 DEF Grouped
<1> QED
  BY <1>3, <1>4, <1>5

\* The entries of a group lie side by side.
SideBySide(h) ==
    \A i, j, k \in 1..Span(h) : i < k /\ k < j /\ At(h, i).key = At(h, j).key => At(h, k).key = At(h, j).key

\* Taking places out that the history is at, whose slots are no longer followed.
LEMMA RemovesChains ==
    ASSUME NEW h \in HistoryStates, NEW g \in HistoryStates, g.group = None,
           NEW a, NEW b, Removes(h, g, a, b), NEW loose, Chained(h, loose), SideBySide(h),
           \A i \in 1..Span(h) : a <= i /\ i <= b => SlotAt(h, i) \in loose,
           \A i, j \in 1..Span(h) : a <= i /\ i <= b /\ At(h, i).key = At(h, j).key => a <= j /\ j <= b
    PROVE  /\ Chained(g, loose)
           /\ \A scene : AllMeet(h, scene, loose) => AllMeet(g, scene, loose)
           /\ \A scene : Grouped(g, scene)
<1> DEFINE d == b + 1 - a
           m(i) == IF i < a THEN i ELSE i + d
<1>1. /\ Here(h) \in Nat /\ Span(h) \in Nat /\ Here(h) <= Span(h) /\ Here(g) \in Nat /\ Span(g) \in Nat
      /\ a \in 1..(Here(h) + 1) /\ b \in Here(h)..Span(h) /\ Here(g) = a - 1 /\ Span(g) = Span(h) - d
      /\ \A i \in 1..Span(g) : ~InGroup(g, i)
  BY SpanType DEF Removes
<1>2. /\ a \in Nat /\ b \in Nat /\ d \in Nat
      /\ \A i \in 1..Span(g) : m(i) \in 1..Span(h) /\ (i < a => m(i) = i) /\ (~(i < a) => m(i) = i + d /\ b < m(i))
  BY <1>1
<1>3. \A i \in 1..Span(g) : At(g, i) = At(h, m(i))
  BY DEF Removes
<1>4. \A k \in 1..Span(h) : (a <= k /\ k <= b) \/ \E i \in 1..Span(g) : m(i) = k
  <2> SUFFICES ASSUME NEW k \in 1..Span(h), ~(a <= k /\ k <= b) PROVE \E i \in 1..Span(g) : m(i) = k
    OBVIOUS
  <2>1. CASE k < a
    <3>1. k \in 1..Span(g) /\ m(k) = k
      BY <1>1, <2>1
    <3> QED
      BY <3>1
  <2>2. CASE b < k
    <3>1. k - d \in 1..Span(g) /\ m(k - d) = k
      BY <1>1, <2>2
    <3> QED
      BY <3>1
  <2> QED
    BY <1>1, <2>1, <2>2
<1>5. \A i, j \in 1..Span(g) : i < j <=> m(i) < m(j)
  BY <1>1
<1>6. \A i \in 1..Span(g) : i <= Here(g) <=> m(i) <= Here(h)
  BY <1>1
<1>7. \A i \in 1..Span(g) : m(i) < a \/ b < m(i)
  BY <1>1
<1> HIDE DEF m, d
<1>8. \A i \in 1..Span(g) : SlotAt(g, i) = SlotAt(h, m(i)) /\ Obj(g, i) = Obj(h, m(i))
                            /\ (\A o : CreatesAt(g, i, o) <=> CreatesAt(h, m(i), o))
  BY <1>3 DEF SlotAt, Obj, CreatesAt
\* Untouched from place to place, but for what is taken out.
<1>9. ASSUME NEW i \in 1..Span(g), NEW j \in 1..Span(g), NEW s, Untouched(g, s, i, j),
             s \notin loose \/ At(g, i).key = At(g, j).key
      PROVE  Untouched(h, s, m(i), m(j))
  <2> SUFFICES ASSUME NEW k \in 1..Span(h), m(i) < k, k < m(j), SlotAt(h, k) = s PROVE FALSE
    BY DEF Untouched
  <2>1. CASE a <= k /\ k <= b
    <3>1. s \in loose
      BY <2>1
    <3>2. At(h, m(i)).key = At(h, m(j)).key
      BY <1>3, <1>9, <3>1
    <3>3. At(h, k).key = At(h, m(j)).key
      BY <1>2, <3>2 DEF SideBySide
    <3>4. a <= m(j) /\ m(j) <= b
      BY <1>2, <2>1, <3>3
    <3> QED
      BY <1>1, <1>2, <1>7, <3>4
  <2>2. ASSUME NEW l \in 1..Span(g), m(l) = k PROVE FALSE
    BY <1>5, <1>8, <1>9, <2>2 DEF Untouched
  <2> QED
    BY <1>4, <2>1, <2>2
<1>10. Linked(g, loose)
  <2> SUFFICES ASSUME NEW i \in 1..Span(g), NEW j \in 1..Span(g), Succeeds(g, i, j),
                      SlotAt(g, j) \notin loose \/ At(g, i).key = At(g, j).key
               PROVE  At(g, i).rec.new = At(g, j).rec.old
    BY DEF Linked
  <2>1. Untouched(h, SlotAt(h, m(j)), m(i), m(j))
    BY <1>8, <1>9 DEF Succeeds
  <2>2. Succeeds(h, m(i), m(j))
    BY <1>5, <1>8, <2>1 DEF Succeeds
  <2>3. SlotAt(h, m(j)) \notin loose \/ At(h, m(i)).key = At(h, m(j)).key
    BY <1>3, <1>8
  <2> QED
    BY <1>2, <1>3, <2>2, <2>3 DEF Chained, Linked
<1>11. Rooted(g)
  <2> SUFFICES ASSUME NEW i \in 1..Span(g), NEW j \in 1..Span(g), i < j, At(g, i).key = At(g, j).key,
                      CreatesAt(g, i, Obj(g, j)), Untouched(g, SlotAt(g, j), i, j)
               PROVE  At(g, j).rec.old = Root
    BY DEF Rooted
  <2>1. Untouched(h, SlotAt(h, m(j)), m(i), m(j))
    BY <1>8, <1>9
  <2>2. m(i) < m(j) /\ At(h, m(i)).key = At(h, m(j)).key /\ CreatesAt(h, m(i), Obj(h, m(j)))
    BY <1>3, <1>5, <1>8
  <2> QED
    BY <1>2, <1>3, <2>1, <2>2 DEF Chained, Rooted
<1>12. Ranged(g, loose)
  BY <1>2, <1>3, <1>8 DEF Chained, Ranged
<1>13. ASSUME NEW s, s \notin loose, NEW v, Meets(h, s, v) PROVE Meets(g, s, v)
  <2>1. ASSUME NEW i \in 1..Span(g), i <= Here(g), SlotAt(g, i) = s, Untouched(g, s, i, Here(g) + 1)
        PROVE  At(g, i).rec.new = v
    <3>1. Untouched(h, s, m(i), Here(h) + 1)
      <4> SUFFICES ASSUME NEW k \in 1..Span(h), m(i) < k, k < Here(h) + 1, SlotAt(h, k) = s PROVE FALSE
        BY DEF Untouched
      <4>1. ~(a <= k /\ k <= b)
        BY <1>13
      <4>2. PICK l \in 1..Span(g) : m(l) = k
        BY <1>4, <4>1
      <4>3. i < l /\ l < Here(g) + 1
        BY <1>1, <1>5, <1>6, <4>2
      <4> QED
        BY <1>8, <2>1, <4>2, <4>3 DEF Untouched
    <3> QED
      BY <1>2, <1>3, <1>6, <1>8, <1>13, <2>1, <3>1 DEF Meets
  <2>2. ASSUME NEW i \in 1..Span(g), Here(g) < i, SlotAt(g, i) = s, Untouched(g, s, Here(g), i)
        PROVE  At(g, i).rec.old = v
    <3>1. Untouched(h, s, Here(h), m(i))
      <4> SUFFICES ASSUME NEW k \in 1..Span(h), Here(h) < k, k < m(i), SlotAt(h, k) = s PROVE FALSE
        BY DEF Untouched
      <4>1. ~(a <= k /\ k <= b)
        BY <1>13
      <4>2. PICK l \in 1..Span(g) : m(l) = k
        BY <1>4, <4>1
      <4>3. l < i /\ Here(g) < l
        BY <1>1, <1>5, <1>6, <4>2
      <4> QED
        BY <1>8, <2>2, <4>2, <4>3 DEF Untouched
    <3>2. Here(h) < m(i)
      BY <1>1, <1>2, <1>6, <2>2
    <3> QED
      BY <1>2, <1>3, <1>8, <1>13, <2>2, <3>1, <3>2 DEF Meets
  <2> QED
    BY <2>1, <2>2 DEF Meets
<1>14. \A scene : AllMeet(h, scene, loose) => AllMeet(g, scene, loose)
  BY <1>13 DEF AllMeet
<1>15. \A scene : Grouped(g, scene)
  BY <1>1 DEF Grouped
<1> QED
  BY <1>10, <1>11, <1>12, <1>14, <1>15 DEF Chained

\* An entry is added for a change of the scene from its old value to its new one.
LEMMA PushChains ==
    ASSUME NEW h \in HistoryStates, NEW g \in HistoryStates, NEW e, PushesAt(h, g, e),
           NEW loose, NEW scene, NEW next,
           Chained(h, loose), AllMeet(h, scene, loose), Grouped(h, scene),
           e.rec \in Record,
           \A i \in 1..Span(h) : InGroup(h, i) => Span(h) = Here(h),
           \A i \in 1..Here(h) : At(h, i).key = e.key => InGroup(h, i),
           \A t \in AllSlots : t # e.rec.slot => next[t] = scene[t],
           next[e.rec.slot] = e.rec.new,
           e.rec.slot \notin loose \/ e.named => RecInRange(e.rec),
           ~IsCreate(e.rec) => \/ e.rec.slot \in loose /\ \A i \in 1..Here(h) : At(h, i).key # e.key
                               \/ scene[e.rec.slot] = e.rec.old,
           IsCreate(e.rec) => /\ \A i \in 1..Span(h) : Obj(h, i) # e.rec.slot[1]
                              /\ \A t \in Slots : t[1] = e.rec.slot[1] => scene[t] = Root,
           \A i \in 1..Here(h) : At(h, i).rec \in Record
    PROVE  Chained(g, loose) /\ AllMeet(g, next, loose) /\ Grouped(g, next)
<1> DEFINE n == Here(h) + 1
           s == e.rec.slot
<1>1. /\ Here(h) \in Nat /\ Span(h) \in Nat /\ Here(h) <= Span(h) /\ n \in 1..n /\ n \in Nat
      /\ \A i \in 1..n : i = n \/ (i \in 1..Here(h) /\ i \in 1..Span(h) /\ i < n /\ i # n)
      /\ \A i \in 1..Here(h) : i \in 1..Span(h)
  BY SpanType
<1>2. /\ Span(g) = n /\ Here(g) = n /\ At(g, n) = e /\ SlotAt(g, n) = s
      /\ \A i \in 1..Here(h) : At(g, i) = At(h, i) /\ SlotAt(g, i) = SlotAt(h, i) /\ Obj(g, i) = Obj(h, i)
                               /\ (InGroup(g, i) <=> InGroup(h, i))
                               /\ \A o : CreatesAt(g, i, o) <=> CreatesAt(h, i, o)
  BY DEF PushesAt, SlotAt, Obj, CreatesAt
<1>3. s \in AllSlots /\ (~IsCreate(e.rec) => s \in Slots)
  BY EditAssumption DEF Record, AllSlots, Slots, IsCreate
<1>4. ASSUME NEW i \in 1..Here(h) PROVE SlotAt(h, i) \in AllSlots /\ Obj(h, i) = SlotAt(h, i)[1]
  BY <1>4, EditAssumption DEF Record, AllSlots, Slots, SlotAt, Obj
<1>5. Obj(g, n) = s[1] /\ (\A o : CreatesAt(g, n, o) <=> IsCreate(e.rec) /\ s[1] = o)
  BY <1>2 DEF Obj, CreatesAt
<1>6. IsCreate(e.rec) => \A i \in 1..Here(h) : SlotAt(h, i) # s /\ ~CreatesAt(h, i, s[1])
  BY <1>1, <1>4 DEF CreatesAt
<1> HIDE DEF n, s
\* Between places that were there nothing changes; up to the new place nothing but its slot.
<1>7. \A t, i : \A j \in 1..Here(h) : Untouched(g, t, i, j) <=> Untouched(h, t, i, j)
  <2> SUFFICES ASSUME NEW t, NEW i, NEW j \in 1..Here(h)
               PROVE  Untouched(g, t, i, j) <=> Untouched(h, t, i, j)
    OBVIOUS
  <2>1. \A k \in 1..n : k < j => k \in 1..Here(h)
    BY <1>1
  <2>2. \A k \in 1..Span(h) : k < j => k \in 1..Here(h)
    BY <1>1
  <2>3. \A k \in 1..Here(h) : k \in 1..n /\ k \in 1..Span(h)
    BY <1>1 DEF n
  <2> QED
    BY <1>2, <2>1, <2>2, <2>3 DEF Untouched
<1>8. \A t, i : Untouched(g, t, i, n) => Untouched(h, t, i, Here(h) + 1)
  <2> SUFFICES ASSUME NEW t, NEW i, Untouched(g, t, i, n), NEW k \in 1..Span(h), i < k, k < Here(h) + 1,
                      SlotAt(h, k) = t PROVE FALSE
    BY DEF Untouched
  <2>1. k \in 1..Here(h) /\ k \in 1..n /\ k < n
    BY <1>1 DEF n
  <2> QED
    BY <1>2, <2>1 DEF Untouched
<1>9. \A t : \A i \in 1..Here(h) : Untouched(g, t, i, n + 1) => t # s /\ Untouched(h, t, i, Here(h) + 1)
  <2> SUFFICES ASSUME NEW t, NEW i \in 1..Here(h), Untouched(g, t, i, n + 1)
               PROVE  t # s /\ Untouched(g, t, i, n)
    BY <1>8
  <2>1. t # s
    <3>1. i < n /\ n < n + 1 /\ n \in 1..Span(g)
      BY <1>1, <1>2 DEF n
    <3> QED
      BY <1>2, <3>1 DEF Untouched
  <2>2. \A k \in 1..n : k < n => k < n + 1
    BY <1>1
  <2> QED
    BY <1>2, <2>1, <2>2 DEF Untouched
\* What the slot was before.
<1>10. ASSUME NEW i \in 1..Here(h), SlotAt(h, i) = s, Untouched(h, s, i, Here(h) + 1),
              s \notin loose \/ At(h, i).key = e.key
       PROVE  At(h, i).rec.new = e.rec.old
  <2>1. ~IsCreate(e.rec)
    BY <1>6, <1>10
  <2>2. scene[s] = e.rec.old
    BY <1>10, <2>1 DEF s
  <2>3. CASE s \notin loose
    <3>1. Meets(h, s, scene[s])
      BY <1>3, <2>3 DEF AllMeet
    <3>2. i \in 1..Span(h) /\ i <= Here(h)
      BY <1>1
    <3>3. At(h, i).rec.new = scene[s]
      BY <1>10, <3>1, <3>2 DEF Meets
    <3> QED
      BY <2>2, <3>3
  <2>4. CASE At(h, i).key = e.key
    <3>1. InGroup(h, i) /\ i \in 1..Span(h)
      BY <1>1, <2>4
    <3>2. Span(h) = Here(h)
      BY <3>1
    <3>3. At(h, i).rec.new = scene[SlotAt(h, i)]
      BY <1>10, <3>1, <3>2 DEF Grouped
    <3> QED
      BY <1>10, <2>2, <3>3
  <2> QED
    BY <1>10, <2>3, <2>4
<1>11. Linked(g, loose)
  <2> SUFFICES ASSUME NEW i \in 1..n, NEW j \in 1..n, Succeeds(g, i, j),
                      SlotAt(g, j) \notin loose \/ At(g, i).key = At(g, j).key
               PROVE  At(g, i).rec.new = At(g, j).rec.old
    BY <1>2 DEF Linked
  <2>0. i < j /\ SlotAt(g, i) = SlotAt(g, j) /\ Untouched(g, SlotAt(g, j), i, j)
    BY DEF Succeeds
  <2>1. i \in 1..Here(h) /\ i \in 1..Span(h)
    BY <1>1, <2>0
  <2>2. CASE j = n
    <3>1. SlotAt(h, i) = s /\ Untouched(h, s, i, Here(h) + 1)
      BY <1>2, <1>8, <2>0, <2>1, <2>2
    <3> QED
      BY <1>2, <1>10, <2>1, <2>2, <3>1
  <2>3. CASE j # n
    <3>1. j \in 1..Here(h) /\ j \in 1..Span(h)
      BY <1>1, <2>3
    <3>2. Succeeds(h, i, j)
      BY <1>2, <1>7, <2>0, <2>1, <3>1 DEF Succeeds
    <3> QED
      BY <1>2, <2>1, <3>1, <3>2 DEF Chained, Linked
  <2> QED
    BY <2>2, <2>3
<1>12. Rooted(g)
  <2> SUFFICES ASSUME NEW i \in 1..n, NEW j \in 1..n, i < j, At(g, i).key = At(g, j).key,
                      CreatesAt(g, i, Obj(g, j)), Untouched(g, SlotAt(g, j), i, j)
               PROVE  At(g, j).rec.old = Root
    BY <1>2 DEF Rooted
  <2>1. i \in 1..Here(h) /\ i \in 1..Span(h)
    BY <1>1
  <2>2. CASE j = n
    <3>1. CreatesAt(h, i, s[1]) /\ At(h, i).key = e.key /\ Untouched(h, s, i, Here(h) + 1)
      BY <1>2, <1>5, <1>8, <2>1, <2>2
    <3>2. ~IsCreate(e.rec) /\ s \in Slots
      BY <1>3, <1>6, <2>1, <3>1
    <3>3. InGroup(h, i)
      BY <2>1, <3>1
    <3>4. Span(h) = Here(h)
      BY <2>1, <3>3
    <3>5. scene[s] = Root
      BY <2>1, <3>1, <3>2, <3>3, <3>4 DEF Grouped
    <3>6. scene[s] = e.rec.old
      BY <2>1, <3>1, <3>2 DEF s
    <3> QED
      BY <1>2, <2>2, <3>5, <3>6
  <2>3. CASE j # n
    <3>1. j \in 1..Here(h) /\ j \in 1..Span(h)
      BY <1>1, <2>3
    <3>2. CreatesAt(h, i, Obj(h, j)) /\ At(h, i).key = At(h, j).key /\ Untouched(h, SlotAt(h, j), i, j)
      BY <1>2, <1>7, <2>1, <3>1
    <3> QED
      BY <1>2, <2>1, <3>1, <3>2 DEF Chained, Rooted
  <2> QED
    BY <2>2, <2>3
<1>13. Ranged(g, loose)
  <2> SUFFICES ASSUME NEW i \in 1..n, SlotAt(g, i) \notin loose \/ At(g, i).named
               PROVE  RecInRange(At(g, i).rec)
    BY <1>2 DEF Ranged
  <2>1. CASE i = n
    BY <1>2, <2>1 DEF s
  <2>2. CASE i # n
    BY <1>1, <1>2, <2>2 DEF Chained, Ranged
  <2> QED
    BY <2>1, <2>2
<1>14. ASSUME NEW t \in AllSlots, t \notin loose PROVE Meets(g, t, next[t])
  <2>1. ~(Here(g) < Span(g)) /\ \A i \in 1..Span(g) : ~(Here(g) < i)
    BY <1>1, <1>2
  <2>2. ASSUME NEW i \in 1..n, SlotAt(g, i) = t, Untouched(g, t, i, n + 1) PROVE At(g, i).rec.new = next[t]
    <3>1. CASE i = n
      BY <1>2, <2>2, <3>1 DEF s
    <3>2. CASE i # n
      <4>1. i \in 1..Here(h) /\ i \in 1..Span(h) /\ i <= Here(h)
        BY <1>1, <3>2
      <4>2. t # s /\ Untouched(h, t, i, Here(h) + 1) /\ SlotAt(h, i) = t
        BY <1>2, <1>9, <2>2, <4>1
      <4>3. Meets(h, t, scene[t])
        BY <1>14 DEF AllMeet
      <4>4. At(h, i).rec.new = scene[t]
        BY <4>1, <4>2, <4>3 DEF Meets
      <4>5. next[t] = scene[t]
        BY <4>2 DEF s
      <4> QED
        BY <1>2, <4>1, <4>4, <4>5
    <3> QED
      BY <3>1, <3>2
  <2> QED
    BY <1>2, <2>1, <2>2 DEF Meets
<1>15. AllMeet(g, next, loose)
  BY <1>14 DEF AllMeet
<1>16. ASSUME NEW i \in 1..n, InGroup(g, i), Untouched(g, SlotAt(g, i), i, n + 1)
       PROVE  At(g, i).rec.new = next[SlotAt(g, i)]
  <2>1. CASE i = n
    BY <1>2, <2>1 DEF s
  <2>2. CASE i # n
    <3>1. i \in 1..Here(h) /\ i \in 1..Span(h)
      BY <1>1, <2>2
    <3>2. InGroup(h, i) /\ SlotAt(g, i) = SlotAt(h, i)
      BY <1>2, <1>16, <3>1
    <3>3. Span(h) = Here(h)
      BY <3>1, <3>2
    <3>4. SlotAt(h, i) # s /\ Untouched(h, SlotAt(h, i), i, Span(h) + 1)
      BY <1>9, <1>16, <3>1, <3>2, <3>3
    <3>5. At(h, i).rec.new = scene[SlotAt(h, i)]
      BY <3>1, <3>2, <3>4 DEF Grouped
    <3>6. next[SlotAt(h, i)] = scene[SlotAt(h, i)]
      BY <1>4, <3>1, <3>4 DEF s
    <3> QED
      BY <1>2, <3>1, <3>2, <3>5, <3>6
  <2> QED
    BY <2>1, <2>2
<1>17. ASSUME NEW i \in 1..n, InGroup(g, i), NEW t \in Slots, CreatesAt(g, i, t[1]), Untouched(g, t, i, n + 1)
       PROVE  next[t] = Root
  <2>0. t \in AllSlots
    BY DEF Slots, AllSlots
  <2>1. CASE i = n
    <3>1. IsCreate(e.rec) /\ s[1] = t[1]
      BY <1>5, <1>17, <2>1
    <3>2. t # s
      BY <3>1, EditAssumption DEF Slots, IsCreate, s
    <3>3. scene[t] = Root
      BY <3>1 DEF s
    <3> QED
      BY <2>0, <3>2, <3>3 DEF s
  <2>2. CASE i # n
    <3>1. i \in 1..Here(h) /\ i \in 1..Span(h)
      BY <1>1, <2>2
    <3>2. InGroup(h, i) /\ CreatesAt(h, i, t[1])
      BY <1>2, <1>17, <3>1
    <3>3. Span(h) = Here(h)
      BY <3>1, <3>2
    <3>4. t # s /\ Untouched(h, t, i, Span(h) + 1)
      BY <1>9, <1>17, <3>1, <3>3
    <3>5. scene[t] = Root
      BY <3>1, <3>2, <3>4 DEF Grouped
    <3> QED
      BY <2>0, <3>4, <3>5 DEF s
  <2> QED
    BY <2>1, <2>2
<1>18. Grouped(g, next)
  BY <1>2, <1>16, <1>17 DEF Grouped
<1> QED
  BY <1>11, <1>12, <1>13, <1>15, <1>18 DEF Chained

\* The same records with the same keys; only the place between done and undone may differ.
SameRow(h, g) ==
    /\ Span(g) = Span(h)
    /\ \A i \in 1..Span(h) : /\ At(g, i).rec = At(h, i).rec
                             /\ At(g, i).key = At(h, i).key /\ At(g, i).named = At(h, i).named

LEMMA RowChains ==
    ASSUME NEW h, NEW g, SameRow(h, g), NEW loose, Chained(h, loose)
    PROVE  Chained(g, loose)
<1>1. /\ Span(g) = Span(h)
      /\ \A i \in 1..Span(h) : /\ At(g, i).rec = At(h, i).rec /\ SlotAt(g, i) = SlotAt(h, i)
                               /\ Obj(g, i) = Obj(h, i)
                               /\ At(g, i).key = At(h, i).key /\ At(g, i).named = At(h, i).named
                               /\ \A o : CreatesAt(g, i, o) <=> CreatesAt(h, i, o)
  BY DEF SameRow, SlotAt, Obj, CreatesAt
<1>2. \A s, a, b : Untouched(g, s, a, b) <=> Untouched(h, s, a, b)
  BY <1>1 DEF Untouched
<1>3. Linked(g, loose)
  <2> SUFFICES ASSUME NEW i \in 1..Span(h), NEW j \in 1..Span(h), Succeeds(g, i, j),
                      SlotAt(g, j) \notin loose \/ At(g, i).key = At(g, j).key
               PROVE  At(g, i).rec.new = At(g, j).rec.old
    BY <1>1 DEF Linked
  <2>1. Succeeds(h, i, j)
    BY <1>1, <1>2 DEF Succeeds
  <2> QED
    BY <1>1, <2>1 DEF Chained, Linked
<1>4. Rooted(g)
  <2> SUFFICES ASSUME NEW i \in 1..Span(h), NEW j \in 1..Span(h), i < j, At(g, i).key = At(g, j).key,
                      CreatesAt(g, i, Obj(g, j)), Untouched(g, SlotAt(g, j), i, j)
               PROVE  At(g, j).rec.old = Root
    BY <1>1 DEF Rooted
  <2>1. /\ At(h, i).key = At(h, j).key /\ CreatesAt(h, i, Obj(h, j))
        /\ Untouched(h, SlotAt(h, j), i, j)
    BY <1>1, <1>2
  <2> QED
    BY <1>1, <2>1 DEF Chained, Rooted
<1>5. Ranged(g, loose)
  BY <1>1 DEF Chained, Ranged
<1> QED
  BY <1>3, <1>4, <1>5 DEF Chained

\* An undo or redo takes the next place, whose change the scene has made.
LEMMA MoveChains ==
    ASSUME NEW h \in HistoryStates, NEW g \in HistoryStates, SameRow(h, g), g.group = None,
           NEW dir \in Directions, Next1(h, dir) \in 1..Span(h), Here(g) = Beyond(h, dir),
           NEW loose, NEW scene, Chained(h, loose),
           AllMeet(h, scene, loose \cup {SlotAt(h, Next1(h, dir))}),
           SlotAt(h, Next1(h, dir)) \notin loose =>
             scene[SlotAt(h, Next1(h, dir))] = IF dir = "undo" THEN At(h, Next1(h, dir)).rec.old
                                               ELSE At(h, Next1(h, dir)).rec.new
    PROVE  Chained(g, loose) /\ AllMeet(g, scene, loose) /\ Grouped(g, scene)
<1> DEFINE p == Next1(h, dir)
           t == SlotAt(h, p)
<1>1. /\ Here(h) \in Nat /\ Span(h) \in Nat /\ Here(h) <= Span(h) /\ p \in 1..Span(h) /\ p \in Nat
      /\ Here(g) \in Nat /\ Here(g) = Closed(g)
  BY SpanType
<1>2. /\ Span(g) = Span(h)
      /\ \A i \in 1..Span(h) : At(g, i).rec = At(h, i).rec /\ SlotAt(g, i) = SlotAt(h, i)
  BY DEF SameRow, SlotAt
<1>3. \A s, a, b : Untouched(g, s, a, b) <=> Untouched(h, s, a, b)
  BY <1>2 DEF Untouched
<1>4. Chained(g, loose)
  BY RowChains
<1>5. \A scene1 : Grouped(g, scene1)
  <2>1. \A i \in 1..Span(g) : ~InGroup(g, i)
    BY <1>1, <1>2 DEF InGroup
  <2> QED
    BY <2>1 DEF Grouped
<1>6. IF dir = "undo" THEN p = Here(h) /\ Here(g) + 1 = p ELSE Here(h) + 1 = p /\ Here(g) = p
  BY <1>1 DEF Next1, Beyond
<1>7. t \notin loose => scene[t] = IF dir = "undo" THEN At(h, p).rec.old ELSE At(h, p).rec.new
  OBVIOUS
<1>8. \A s \in AllSlots : s \in loose \/ s = t \/ Meets(h, s, scene[s])
  BY DEF AllMeet
<1> HIDE DEF p
<1>9. t = SlotAt(h, p)
  OBVIOUS
<1> HIDE DEF t
<1>10. ASSUME NEW s \in AllSlots, s \notin loose PROVE Meets(g, s, scene[s])
  <2>1. CASE s = t /\ dir = "undo"
    <3>1. ASSUME NEW i \in 1..Span(h), i <= Here(g), SlotAt(h, i) = s, Untouched(h, s, i, Here(g) + 1)
          PROVE  At(h, i).rec.new = scene[s]
      <4>1. i < p
        BY <1>1, <1>6, <2>1, <3>1
      <4>2. Succeeds(h, i, p)
        BY <1>6, <1>9, <2>1, <3>1, <4>1 DEF Succeeds
      <4>3. At(h, i).rec.new = At(h, p).rec.old
        BY <1>1, <1>9, <1>10, <2>1, <4>2 DEF Chained, Linked
      <4> QED
        BY <1>7, <1>10, <2>1, <4>3
    <3>2. ASSUME NEW i \in 1..Span(h), Here(g) < i, SlotAt(h, i) = s, Untouched(h, s, Here(g), i)
          PROVE  At(h, i).rec.old = scene[s]
      <4>1. ~(p < i)
        <5>1. Here(g) < p
          BY <1>1, <1>6, <2>1
        <5> QED
          BY <1>1, <1>9, <2>1, <3>2, <5>1 DEF Untouched
      <4>2. i = p
        BY <1>1, <1>6, <2>1, <3>2, <4>1
      <4> QED
        BY <1>7, <1>10, <2>1, <4>2
    <3> QED
      BY <1>2, <1>3, <3>1, <3>2 DEF Meets
  <2>2. CASE s = t /\ dir # "undo"
    <3>1. ASSUME NEW i \in 1..Span(h), i <= Here(g), SlotAt(h, i) = s, Untouched(h, s, i, Here(g) + 1)
          PROVE  At(h, i).rec.new = scene[s]
      <4>1. ~(i < p)
        <5>1. p < Here(g) + 1
          BY <1>1, <1>6, <2>2
        <5> QED
          BY <1>1, <1>9, <2>2, <3>1, <5>1 DEF Untouched
      <4>2. i = p
        BY <1>1, <1>6, <2>2, <3>1, <4>1
      <4> QED
        BY <1>7, <1>10, <2>2, <4>2
    <3>2. ASSUME NEW i \in 1..Span(h), Here(g) < i, SlotAt(h, i) = s, Untouched(h, s, Here(g), i)
          PROVE  At(h, i).rec.old = scene[s]
      <4>1. p < i
        BY <1>6, <2>2, <3>2
      <4>2. Succeeds(h, p, i)
        BY <1>6, <1>9, <2>2, <3>2, <4>1 DEF Succeeds
      <4>3. At(h, p).rec.new = At(h, i).rec.old
        BY <1>1, <1>10, <3>2, <4>2 DEF Chained, Linked
      <4> QED
        BY <1>7, <1>10, <2>2, <4>3
    <3> QED
      BY <1>2, <1>3, <3>1, <3>2 DEF Meets
  <2>3. CASE s # t
    <3>0. Meets(h, s, scene[s])
      BY <1>8, <1>10, <2>3
    <3>1. ASSUME NEW i \in 1..Span(h), i <= Here(g), SlotAt(h, i) = s, Untouched(h, s, i, Here(g) + 1)
          PROVE  At(h, i).rec.new = scene[s]
      <4>1. i # p
        BY <1>9, <2>3, <3>1
      <4>2. i <= Here(h)
        BY <1>1, <1>6, <3>1, <4>1
      <4>3. ASSUME NEW k \in 1..Span(h), i < k, k < Here(h) + 1, SlotAt(h, k) = s PROVE FALSE
        <5>1. k # p
          BY <1>9, <2>3, <4>3
        <5>2. k < Here(g) + 1
          BY <1>1, <1>6, <4>3, <5>1
        <5> QED
          BY <3>1, <4>3, <5>2 DEF Untouched
      <4>4. Untouched(h, s, i, Here(h) + 1)
        BY <4>3 DEF Untouched
      <4> QED
        BY <3>0, <3>1, <4>2, <4>4 DEF Meets
    <3>2. ASSUME NEW i \in 1..Span(h), Here(g) < i, SlotAt(h, i) = s, Untouched(h, s, Here(g), i)
          PROVE  At(h, i).rec.old = scene[s]
      <4>1. i # p
        BY <1>9, <2>3, <3>2
      <4>2. Here(h) < i
        BY <1>1, <1>6, <3>2, <4>1
      <4>3. ASSUME NEW k \in 1..Span(h), Here(h) < k, k < i, SlotAt(h, k) = s PROVE FALSE
        <5>1. k # p
          BY <1>9, <2>3, <4>3
        <5>2. Here(g) < k
          BY <1>1, <1>6, <4>3, <5>1
        <5> QED
          BY <3>2, <4>3, <5>2 DEF Untouched
      <4>4. Untouched(h, s, Here(h), i)
        BY <4>3 DEF Untouched
      <4> QED
        BY <3>0, <3>2, <4>2, <4>4 DEF Meets
    <3> QED
      BY <1>2, <1>3, <3>0, <3>1, <3>2 DEF Meets
  <2> QED
    BY <2>1, <2>2, <2>3
<1> QED
  BY <1>4, <1>5, <1>10 DEF AllMeet

\* Object old comes back as new: the records of group key follow.
Renames(h, g, key, old, new) ==
    /\ Span(g) = Span(h)
    /\ \A i \in 1..Span(h) :
         /\ At(g, i).key = At(h, i).key /\ At(g, i).named = At(h, i).named
         /\ At(g, i).rec.old = At(h, i).rec.old /\ At(g, i).rec.new = At(h, i).rec.new
         /\ SlotAt(g, i) = IF At(h, i).key = key /\ Obj(h, i) = old THEN <<new, SlotAt(h, i)[2]>>
                           ELSE SlotAt(h, i)

LEMMA RecreateChains ==
    ASSUME NEW h \in HistoryStates, NEW g \in HistoryStates, g.group = None, NEW key, NEW old, NEW new,
           Renames(h, g, key, old, new), Here(h) + 1 \in 1..Span(h), Here(g) = Here(h) + 1,
           CreatesAt(h, Here(h) + 1, old), At(h, Here(h) + 1).key = key,
           RecordsFit(h), CreatesFirst(h), SideBySide(h),
           \A i \in 1..Span(h) : Obj(h, i) # new,
           \A i \in 1..Span(h) : At(h, i).key = key => At(h, i).named \/ IsCreate(At(h, i).rec),
           NEW loose, NEW scene, Chained(h, loose), AllMeet(h, scene, loose),
           \A i, j \in 1..Span(h) :
             At(h, i).key # key /\ Obj(h, i) = old /\ Obj(h, j) = old => SlotAt(h, j) \in loose,
           scene[<<new, "object">>] = "alive",
           \A t \in Slots : t[1] = new => scene[t] = Root
    PROVE  Chained(g, loose) /\ AllMeet(g, scene, loose) /\ Grouped(g, scene)
<1> DEFINE p == Here(h) + 1
<1>1. /\ Here(h) \in Nat /\ Span(h) \in Nat /\ Here(h) <= Span(h) /\ p \in 1..Span(h) /\ p \in Nat
      /\ Here(g) \in Nat /\ Here(g) = Closed(g) /\ Here(g) = p /\ Here(h) < p
      /\ Here(h) + 1 = p /\ CreatesAt(h, p, old) /\ At(h, p).key = key
  BY SpanType
<1> HIDE DEF p
<1>2. Grouped(g, scene)
  <2>1. \A i \in 1..Span(g) : ~InGroup(g, i)
    BY <1>1 DEF InGroup, Renames
  <2> QED
    BY <2>1 DEF Grouped
<1>3. Span(g) = Span(h)
  BY DEF Renames
<1>4. ASSUME NEW i \in 1..Span(h)
      PROVE  /\ At(h, i).rec \in Record /\ SlotAt(h, i) = <<Obj(h, i), SlotAt(h, i)[2]>>
             /\ SlotAt(h, i) \in AllSlots
             /\ IsCreate(At(h, i).rec) <=> SlotAt(h, i)[2] = "object"
             /\ IsCreate(At(h, i).rec) => At(h, i).rec.new = "alive"
             /\ ~IsCreate(At(h, i).rec) => SlotAt(h, i) \in Slots
  <2>1. At(h, i).rec \in Record
    BY <1>4 DEF RecordsFit
  <2> QED
    BY <2>1, EditAssumption DEF Record, SlotAt, Obj, IsCreate, Slots, AllSlots
<1>5. ASSUME NEW i \in 1..Span(h)
      PROVE  /\ At(g, i).key = At(h, i).key /\ At(g, i).named = At(h, i).named
             /\ At(g, i).rec.old = At(h, i).rec.old /\ At(g, i).rec.new = At(h, i).rec.new
             /\ At(h, i).key = key /\ Obj(h, i) = old =>
                  SlotAt(g, i) = <<new, SlotAt(h, i)[2]>> /\ Obj(g, i) = new
             /\ ~(At(h, i).key = key /\ Obj(h, i) = old) =>
                  SlotAt(g, i) = SlotAt(h, i) /\ Obj(g, i) = Obj(h, i) /\ Obj(g, i) # new
             /\ SlotAt(g, i)[2] = SlotAt(h, i)[2]
             /\ SlotAt(g, i) = <<Obj(g, i), SlotAt(h, i)[2]>>
  <2>1. SlotAt(g, i) = (IF At(h, i).key = key /\ Obj(h, i) = old THEN <<new, SlotAt(h, i)[2]>>
                        ELSE SlotAt(h, i))
    BY <1>5 DEF Renames
  <2>2. Obj(g, i) = SlotAt(g, i)[1] /\ Obj(h, i) = SlotAt(h, i)[1] /\ Obj(h, i) # new
    BY <1>5 DEF Obj, SlotAt
  <2> QED
    BY <1>4, <1>5, <2>1, <2>2 DEF Renames
\* Within a group the slots are the same after the change as before it.
<1>6. ASSUME NEW i \in 1..Span(h), NEW j \in 1..Span(h), At(h, i).key = At(h, j).key
      PROVE  SlotAt(g, i) = SlotAt(g, j) <=> SlotAt(h, i) = SlotAt(h, j)
  <2>1. CASE At(h, i).key = key
    <3>1. At(h, j).key = key
      BY <1>6, <2>1
    <3>2. Obj(h, i) = Obj(h, j) <=> Obj(g, i) = Obj(g, j)
      BY <1>5, <2>1, <3>1
    <3> QED
      BY <1>4, <1>5, <3>2
  <2>2. CASE At(h, i).key # key
    <3>1. At(h, j).key # key
      BY <1>6, <2>2
    <3> QED
      BY <1>5, <2>2, <3>1
  <2> QED
    BY <2>1, <2>2
<1>7. ASSUME NEW i \in 1..Span(h), NEW j \in 1..Span(h), At(h, i).key = At(h, j).key,
             Untouched(g, SlotAt(g, j), i, j)
      PROVE  Untouched(h, SlotAt(h, j), i, j)
  <2> SUFFICES ASSUME NEW k \in 1..Span(h), i < k, k < j, SlotAt(h, k) = SlotAt(h, j) PROVE FALSE
    BY DEF Untouched
  <2>1. At(h, k).key = At(h, j).key
    BY <1>7 DEF SideBySide
  <2>2. SlotAt(g, k) = SlotAt(g, j)
    BY <1>6, <2>1
  <2> QED
    BY <1>3, <1>7, <2>2 DEF Untouched
\* Slots of other objects are where they were.
<1>8. ASSUME NEW s, s[1] # new, s[1] # old, NEW i \in 1..Span(h)
      PROVE  SlotAt(g, i) = s <=> SlotAt(h, i) = s
  <2>1. CASE At(h, i).key = key /\ Obj(h, i) = old
    <3>1. SlotAt(g, i)[1] = new /\ SlotAt(h, i)[1] = old
      BY <1>5, <2>1 DEF Obj, SlotAt
    <3> QED
      BY <1>8, <3>1
  <2>2. CASE ~(At(h, i).key = key /\ Obj(h, i) = old)
    BY <1>5, <2>2
  <2> QED
    BY <2>1, <2>2
<1>9. ASSUME NEW s, s[1] # new, s[1] # old, NEW a, NEW b
      PROVE  Untouched(g, s, a, b) <=> Untouched(h, s, a, b)
  BY <1>3, <1>8, <1>9 DEF Untouched
<1>10. ASSUME NEW i \in 1..Span(h), SlotAt(g, i)[1] = old, old # new
       PROVE  SlotAt(g, i) \in loose
  <2>0. SlotAt(g, i)[1] = Obj(g, i)
    BY DEF SlotAt, Obj
  <2>1. Obj(g, i) = old
    BY <1>10, <2>0
  <2>2. ~(At(h, i).key = key /\ Obj(h, i) = old)
    BY <1>5, <1>10, <2>1
  <2>3. SlotAt(g, i) = SlotAt(h, i) /\ Obj(h, i) = old
    BY <1>5, <2>1, <2>2
  <2>4. At(h, i).key # key
    BY <2>2, <2>3
  <2> QED
    BY <2>3, <2>4
<1>11. old # new
  <2>1. Obj(h, p) = old
    BY <1>1 DEF CreatesAt
  <2> QED
    BY <1>1, <2>1
<1>12. ASSUME NEW i \in 1..Span(h), SlotAt(g, i)[1] = new PROVE At(h, i).key = key /\ Obj(h, i) = old
  BY <1>5, <1>12 DEF SlotAt, Obj
<1>13. Linked(g, loose)
  <2> SUFFICES ASSUME NEW i \in 1..Span(h), NEW j \in 1..Span(h), Succeeds(g, i, j),
                      SlotAt(g, j) \notin loose \/ At(g, i).key = At(g, j).key
               PROVE  At(g, i).rec.new = At(g, j).rec.old
    BY <1>3 DEF Linked
  <2>1. i < j /\ SlotAt(g, i) = SlotAt(g, j) /\ Untouched(g, SlotAt(g, j), i, j)
    BY DEF Succeeds
  <2>2. CASE At(h, i).key = At(h, j).key
    <3>1. Succeeds(h, i, j)
      BY <1>6, <1>7, <2>1, <2>2 DEF Succeeds
    <3>2. At(h, i).rec.new = At(h, j).rec.old
      BY <2>2, <3>1 DEF Chained, Linked
    <3> QED
      BY <1>5, <3>2
  <2>3. CASE At(h, i).key # At(h, j).key
    <3>1. SlotAt(g, j) \notin loose
      BY <1>5, <2>3
    <3>2. SlotAt(g, j)[1] # new /\ SlotAt(g, j)[1] # old
      BY <1>10, <1>11, <1>12, <2>1, <2>3, <3>1
    <3>3. SlotAt(h, i) = SlotAt(g, j) /\ SlotAt(h, j) = SlotAt(g, j)
      BY <1>8, <2>1, <3>2
    <3>4. Succeeds(h, i, j)
      BY <1>9, <2>1, <3>2, <3>3 DEF Succeeds
    <3>5. At(h, i).rec.new = At(h, j).rec.old
      BY <3>1, <3>3, <3>4 DEF Chained, Linked
    <3> QED
      BY <1>5, <3>5
  <2> QED
    BY <2>2, <2>3
<1>14. Rooted(g)
  <2> SUFFICES ASSUME NEW i \in 1..Span(h), NEW j \in 1..Span(h), i < j, At(g, i).key = At(g, j).key,
                      CreatesAt(g, i, Obj(g, j)), Untouched(g, SlotAt(g, j), i, j)
               PROVE  At(g, j).rec.old = Root
    BY <1>3 DEF Rooted
  <2>1. At(h, i).key = At(h, j).key
    BY <1>5
  <2>2. Untouched(h, SlotAt(h, j), i, j)
    BY <1>7, <2>1
  <2>3. Obj(h, i) = Obj(h, j)
    BY <1>5, <2>1 DEF CreatesAt
  <2>4. IsCreate(At(h, i).rec)
    <3>1. SlotAt(g, i)[2] = "object"
      BY DEF CreatesAt, IsCreate, SlotAt
    <3> QED
      BY <1>4, <1>5, <3>1
  <2>5. At(h, j).rec.old = Root
    BY <2>1, <2>2, <2>3, <2>4 DEF Chained, Rooted, CreatesAt
  <2> QED
    BY <1>5, <2>5
<1>15. Ranged(g, loose)
  <2> SUFFICES ASSUME NEW i \in 1..Span(h), SlotAt(g, i) \notin loose \/ At(g, i).named
               PROVE  RecInRange(At(g, i).rec)
    BY <1>3 DEF Ranged
  <2>1. RecInRange(At(g, i).rec) <=> RecInRange(At(h, i).rec)
    BY <1>5 DEF RecInRange, InRange, SlotAt
  <2>2. CASE At(h, i).key = key /\ Obj(h, i) = old /\ ~At(h, i).named
    <3>1. At(h, i).rec.slot[2] = "object"
      BY <2>2 DEF IsCreate
    <3> QED
      BY <2>1, <3>1 DEF RecInRange, InRange
  <2>3. CASE ~(At(h, i).key = key /\ Obj(h, i) = old /\ ~At(h, i).named)
    <3>1. SlotAt(h, i) \notin loose \/ At(h, i).named
      BY <1>5, <2>3
    <3> QED
      BY <2>1, <3>1 DEF Chained, Ranged
  <2> QED
    BY <2>2, <2>3
<1>16. ASSUME NEW s \in AllSlots, s \notin loose PROVE Meets(g, s, scene[s])
  <2>1. CASE s[1] = new
    <3>1. ASSUME NEW i \in 1..Span(h), i <= p, SlotAt(g, i) = s PROVE At(g, i).rec.new = scene[s]
      <4>1. At(h, i).key = key /\ Obj(h, i) = old
        BY <1>12, <2>1, <3>1
      <4>2. ~(i < p)
        BY <1>1, <4>1 DEF CreatesFirst, CreatesAt
      <4>3. i = p
        BY <1>1, <3>1, <4>2
      <4>4. IsCreate(At(h, i).rec)
        BY <1>1, <4>3 DEF CreatesAt
      <4>5. At(h, i).rec.new = "alive" /\ SlotAt(h, i)[2] = "object"
        BY <1>4, <4>4
      <4>6. s = <<new, "object">>
        BY <1>5, <3>1, <4>1, <4>5
      <4> QED
        BY <1>5, <4>5, <4>6
    <3>2. ASSUME NEW i \in 1..Span(h), p < i, SlotAt(g, i) = s, Untouched(g, s, p, i)
          PROVE  At(g, i).rec.old = scene[s]
      <4>1. At(h, i).key = key /\ Obj(h, i) = old /\ At(h, p).key = At(h, i).key
        BY <1>1, <1>12, <2>1, <3>2
      <4>2. Untouched(h, SlotAt(h, i), p, i)
        BY <1>1, <1>7, <3>2, <4>1
      <4>3. At(h, i).rec.old = Root
        BY <1>1, <3>2, <4>1, <4>2 DEF Chained, Rooted
      <4>4. ~IsCreate(At(h, i).rec)
        BY <1>1, <3>2, <4>1 DEF CreatesFirst, CreatesAt
      <4>5. SlotAt(h, i)[2] \in Attributes /\ new = s[1] /\ s = <<new, SlotAt(h, i)[2]>>
        BY <1>4, <1>5, <2>1, <3>2, <4>1, <4>4 DEF Slots
      <4>6. s \in Slots
        BY <4>5, EditAssumption DEF AllSlots, Slots
      <4> QED
        BY <1>5, <2>1, <4>3, <4>6
    <3> QED
      BY <1>1, <1>3, <3>1, <3>2 DEF Meets
  <2>2. CASE s[1] = old
    <3>1. \A i \in 1..Span(h) : SlotAt(g, i) # s
      BY <1>10, <1>11, <1>16, <2>2
    <3> QED
      BY <1>3, <3>1 DEF Meets
  <2>3. CASE s[1] # new /\ s[1] # old
    <3>0. Meets(h, s, scene[s])
      BY <1>16 DEF AllMeet
    <3>1. SlotAt(h, p) # s
      BY <1>1, <2>3 DEF CreatesAt, Obj, SlotAt
    <3>2. ASSUME NEW i \in 1..Span(h), i <= p, SlotAt(h, i) = s, Untouched(h, s, i, p + 1)
          PROVE  At(h, i).rec.new = scene[s]
      <4>1. i <= Here(h)
        BY <1>1, <3>1, <3>2
      <4>2. Untouched(h, s, i, Here(h) + 1)
        <5>1. \A k \in 1..Span(h) : k < Here(h) + 1 => k < p + 1
          BY <1>1
        <5> QED
          BY <3>2, <5>1 DEF Untouched
      <4> QED
        BY <3>0, <3>2, <4>1, <4>2 DEF Meets
    <3>3. ASSUME NEW i \in 1..Span(h), p < i, SlotAt(h, i) = s, Untouched(h, s, p, i)
          PROVE  At(h, i).rec.old = scene[s]
      <4>1. Here(h) < i
        BY <1>1, <3>3
      <4>2. Untouched(h, s, Here(h), i)
        <5>1. \A k \in 1..Span(h) : Here(h) < k => k = p \/ p < k
          BY <1>1
        <5> QED
          BY <3>1, <3>3, <5>1 DEF Untouched
      <4> QED
        BY <3>0, <3>3, <4>1, <4>2 DEF Meets
    <3>4. \A i \in 1..Span(h) : (SlotAt(g, i) = s <=> SlotAt(h, i) = s) /\ At(g, i).rec.new = At(h, i).rec.new
                                /\ At(g, i).rec.old = At(h, i).rec.old
      BY <1>5, <1>8, <2>3
    <3>5. \A a, b : Untouched(g, s, a, b) <=> Untouched(h, s, a, b)
      BY <1>9, <2>3
    <3> QED
      BY <1>1, <1>3, <3>2, <3>3, <3>4, <3>5 DEF Meets
  <2> QED
    BY <2>1, <2>2, <2>3
<1> QED
  BY <1>2, <1>13, <1>14, <1>15, <1>16 DEF Chained, AllMeet

-----------------------------------------------------------------------------
(* The invariant of the values.                                              *)

Loose == {s \in AllSlots : ~Followed(s)}

IsSet == run # None /\ run.kind = "edit" /\ run.op = "set"

\* The engine has changed the slot, and the history has not been told.
Sent(s) ==
    /\ Answered
    /\ \/ Request(run).op = "set" /\ Request(run).slot = s
       \/ Request(run).op = "delete" /\ s = <<Request(run).slot[1], "object">>

\* The scene the history is about: before the change of an edit that is going to be recorded
\* with its old value.  Any other change is not known to it yet.
Expects == IsSet /\ run.old # None
Scene == [s \in AllSlots |-> IF Sent(s) /\ Expects THEN run.old ELSE engine[s]]
Away == {s \in AllSlots : Sent(s) /\ ~Expects}

\* The history h leads to the scene.
Leads(h, scene, loose, away) == Chained(h, loose) /\ AllMeet(h, scene, loose \cup away) /\ Grouped(h, scene)

SceneInRange == \A s \in Slots : InRange(s, engine[s])

\* The old value of an edit is the engine's, until the engine has changed it.
OldFits ==
    IsSet =>
      /\ run.token # None => run.old # None
      /\ ~Answered => run.old \in {None, engine[run.slot]} \/ (run.slot \in gaps /\ run.token = None)
      /\ Answered /\ run.old # None /\ (run.slot \notin Loose \/ run.token # None) => InRange(run.slot, run.old)

\* The engine has done what an undo or redo asked for.
StepTaken ==
    Answered /\ run.kind = "history" =>
      /\ Request(run).op = "set" /\ Request(run).slot \notin Loose =>
           engine[Request(run).slot] = Request(run).val
      /\ Request(run).op = "delete" => engine[<<Request(run).slot[1], "object">>] = "gone"

ChainInv ==
    /\ SceneInRange /\ unsure \subseteq gaps
    /\ Live => Leads(history, Scene, Loose, Away) /\ OldFits /\ StepTaken

LEMMA SceneType ==
    ASSUME EditInv
    PROVE  engine \in [AllSlots -> Values \cup {"unborn", "alive", "gone"}]
BY DEF EditInv, SceneFits

LEMMA NothingSent ==
    ASSUME EditInv, \A s \in AllSlots : ~Sent(s)
    PROVE  Scene = engine /\ Away = {}
BY SceneType DEF Scene, Away

LEMMA NotGrouped ==
    ASSUME NEW h, h.group = None, NEW scene
    PROVE  Grouped(h, scene)
<1>1. h \in HistoryStates => Here(h) = Closed(h)
  BY SpanType
<1>2. Open(h) = 0
  BY <1>1 DEF Open, GroupEntries
<1>3. \A i \in 1..Span(h) : ~InGroup(h, i)
  BY <1>2 DEF InGroup, Here, Closed
<1> QED
  BY <1>3 DEF Grouped

LEMMA NothingLeads ==
    ASSUME NEW h, Span(h) = 0
    PROVE  \A scene, loose, away : Leads(h, scene, loose, away)
BY NothingChains DEF Leads

LEMMA EmptyLeads ==
    ASSUME NEW gen, NEW rev
    PROVE  \A scene, loose, away : Leads(EmptyHistory(gen, rev), scene, loose, away)
<1>1. Span(EmptyHistory(gen, rev)) = 0
  BY DEF EmptyHistory, Span, Here, Closed, Open, Undone, GroupEntries
<1> QED
  BY <1>1, NothingLeads

LEMMA SameLeads ==
    ASSUME NEW h, NEW g, SameMarks(h, g), NEW scene, NEW loose, NEW away, Leads(h, scene, loose, away)
    PROVE  Leads(g, scene, loose, away)
BY SameChains DEF Leads

\* What a step that leaves nothing accepted in flight has to show.
LEMMA ChainsRest ==
    ASSUME EditInv', run' = None \/ run'.reply = None, SceneInRange', unsure' \subseteq gaps',
           (session # None /\ history.gen = session)' => Leads(history', engine', Loose', {}),
           (Live => OldFits)'
    PROVE  ChainInv'
<1>1. ~Answered'
  BY DEF Answered, InFlight
<1>2. \A s \in AllSlots : ~Sent(s)'
  BY <1>1 DEF Sent
<1>3. Scene' = engine' /\ Away' = {}
  <2>1. (engine \in [AllSlots -> Values \cup {"unborn", "alive", "gone"}])'
    BY DEF EditInv, SceneFits
  <2> QED
    BY <1>2, <2>1 DEF Scene, Away, AllSlots
<1>4. StepTaken'
  BY <1>1 DEF StepTaken
<1> QED
  BY <1>3, <1>4 DEF ChainInv, Live

-----------------------------------------------------------------------------
(* Steps that leave the records where they are.                              *)

\* The history as it is leads to the engine as it is, but for the slots that are not followed,
\* and those of a request under way.
LEMMA LeadsOn ==
    ASSUME EditInv, ChainInv, Live, NEW loose, Loose \subseteq loose,
           \A s \in AllSlots : Sent(s) => s \in loose
    PROVE  /\ Chained(history, loose) /\ AllMeet(history, engine, loose)
           /\ (\A s \in AllSlots : ~Sent(s)) => Grouped(history, engine)
<1>1. Chained(history, Loose) /\ AllMeet(history, Scene, Loose \cup Away) /\ Grouped(history, Scene)
  BY DEF ChainInv, Leads
<1>2. (Loose \cup Away) \subseteq loose
  BY DEF Away
<1>3. Chained(history, loose) /\ AllMeet(history, Scene, loose)
  BY <1>1, <1>2, LooseChains
<1>4. \A s \in AllSlots : s \in loose \/ engine[s] = Scene[s]
  BY DEF Scene
<1>5. AllMeet(history, engine, loose)
  BY <1>3, <1>4, SceneMeets
<1>6. ASSUME \A s \in AllSlots : ~Sent(s) PROVE Grouped(history, engine)
  BY <1>1, <1>6, NothingSent
<1> QED
  BY <1>3, <1>5, <1>6

LEMMA NotSent ==
    ASSUME ~Answered
    PROVE  \A s : ~Sent(s)
BY DEF Sent

\* Another history with the same records, when the slots followed may have changed.
LEMMA SameMarksLeads ==
    ASSUME EditInv, ChainInv, Live, NEW g, SameMarks(history, g), NEW loose, Loose \subseteq loose,
           \A s \in AllSlots : Sent(s) => s \in loose /\ g.group = None
    PROVE  Leads(g, engine, loose, {})
<1>1. g.group = None => Grouped(g, engine)
  BY NotGrouped
<1>2. /\ Chained(history, loose) /\ AllMeet(history, engine, loose)
      /\ (\A s \in AllSlots : ~Sent(s)) => Grouped(history, engine)
  BY LeadsOn
<1>3. Chained(g, loose) /\ AllMeet(g, engine, loose)
  BY <1>2, SameChains
<1>4. Grouped(g, engine)
  BY <1>1, <1>2, SameChains
<1>5. loose \cup {} = loose
  OBVIOUS
<1> QED
  BY <1>3, <1>4, <1>5 DEF Leads

\* The same of the history an item starts from.
LEMMA CurrentLeads ==
    ASSUME EditInv, ChainInv, NEW g, SameMarks(Current, g), session # None,
           NEW loose, Loose \subseteq loose,
           \A s \in AllSlots : Sent(s) => s \in loose /\ g.group = None
    PROVE  Leads(g, engine, loose, {})
<1>1. CASE history.gen = session
  BY <1>1, CurrentFits, SameMarksLeads DEF Live
<1>2. CASE history.gen # session
  <2>1. Current = EmptyHistory(session, history.rev + 1)
    BY <1>2 DEF Current, Synchronize
  <2>2. Span(Current) = 0
    BY <2>1 DEF EmptyHistory, Span, Here, Closed, Open, Undone, GroupEntries
  <2>3. Span(g) = 0
    BY <2>2 DEF SameMarks, SameRecs
  <2> QED
    BY <2>3, NothingLeads
<1> QED
  BY <1>1, <1>2

\* An item begins or ends and the records stay; what it may have changed is not followed.
LEMMA ResumeChains ==
    ASSUME EditInv, EditInv', ChainInv, run' = None \/ run'.reply = None, SameMarks(Current, history'),
           Loose \subseteq Loose', \A s \in AllSlots : Sent(s) => s \in Loose' /\ history'.group = None,
           unsure' \subseteq gaps', UNCHANGED <<session, engine>>, (Live => OldFits)'
    PROVE  ChainInv'
<1>1. (session # None /\ history.gen = session)' => Leads(history', engine', Loose', {})
  BY CurrentLeads
<1>2. SceneInRange'
  BY DEF ChainInv, SceneInRange, InRange
<1> QED
  BY <1>1, <1>2, ChainsRest

\* The end of an item: the history it leaves, or an empty one.
LEMMA FinishedChains ==
    ASSUME EditInv', SceneInRange', unsure' \subseteq gaps', NEW g, Finished(g), UNCHANGED session,
           session # None /\ g.gen = session => Leads(g, engine', Loose', {})
    PROVE  ChainInv'
<1>1. run' = None /\ history' = Synchronize(g, session)
  BY DEF Finished
<1>2. history' = g \/ \E rev : history' = EmptyHistory(session, rev)
  BY <1>1 DEF Synchronize
<1>3. (session # None /\ history.gen = session)' => Leads(history', engine', Loose', {})
  BY <1>1, <1>2, EmptyLeads
<1>4. OldFits'
  BY <1>1 DEF OldFits, IsSet
<1> QED
  BY <1>1, <1>3, <1>4, ChainsRest

\* An undo or redo stops where it is; what it may have changed is not followed.
LEMMA HaltChains ==
    ASSUME EditInv, EditInv', ChainInv, run # None, run.kind = "history", NEW g, SameMarks(history, g),
           g.gen = history.gen, g.group = None, Finished(g), UNCHANGED <<session, engine>>,
           Loose \subseteq Loose', \A s \in AllSlots : Sent(s) => s \in Loose', unsure' \subseteq gaps'
    PROVE  ChainInv'
<1>1. session # None /\ g.gen = session => Leads(g, engine', Loose', {})
  BY SameMarksLeads DEF Live
<1>2. SceneInRange'
  BY DEF ChainInv, SceneInRange, InRange
<1> QED
  BY <1>1, <1>2, FinishedChains

\* The connection of the item is gone, and with it its history.
LEMMA GoneChains ==
    ASSUME EditInv, EditInv', ChainInv, run # None, session # run.gen,
           history' = Current, run' = None,
           UNCHANGED <<session, engine>>, unsure' \subseteq gaps'
    PROVE  ChainInv'
<1>1. history.gen # session
  BY DEF EditInv, RunIsOfHistory
<1>2. Current = EmptyHistory(session, history.rev + 1)
  BY <1>1 DEF Current, Synchronize
<1>3. SceneInRange'
  BY DEF ChainInv, SceneInRange, InRange
<1>4. OldFits'
  BY DEF OldFits, IsSet
<1> QED
  BY <1>2, <1>3, <1>4, EmptyLeads, ChainsRest

\* What no other slot is followed for.
LEMMA SameLoose ==
    ASSUME gaps \subseteq gaps', orphans \subseteq orphans'
    PROVE  Loose \subseteq Loose'
BY DEF Loose, Followed

LEMMA SameStacksMarks ==
    ASSUME NEW h, NEW g, SameStacks(h, g)
    PROVE  SameMarks(h, g)
BY SameWalk, SameStacksRecs DEF SameMarks

LEMMA SameMarksTrans ==
    ASSUME NEW h, NEW g, NEW k, SameMarks(h, g), SameMarks(g, k)
    PROVE  SameMarks(h, k)
BY DEF SameMarks, SameRecs

LEMMA CloseMarks ==
    ASSUME NEW h, NEW n, HistoryFits(h, n)
    PROVE  SameMarks(h, CloseActiveGroup(h))
<1> DEFINE g == CloseActiveGroup(h)
<1>1. CASE h.group = None
  BY <1>1 DEF CloseActiveGroup, SameMarks, SameRecs
<1>2. CASE h.group # None
  <2>1. /\ g \in HistoryStates /\ g.group = None /\ Span(g) = Span(h)
        /\ \A i \in 1..Span(h) : At(g, i).key = At(h, i).key /\ At(g, i).named = At(h, i).named
    <3>1. /\ g \in HistoryStates /\ g.group = None
          /\ Span(g) = Span(h) /\ Here(g) = Here(h)
          /\ \A i \in 1..Span(h) :
               /\ ~InGroup(h, i) => At(g, i) = At(h, i)
               /\ InGroup(h, i) => At(g, i).key = At(h, i).key /\ At(g, i).named = At(h, i).named
      BY <1>2, CloseWalks
    <3> HIDE DEF g
    <3> QED
      BY <3>1
  <2>2. SameRecs(h, g)
    BY CloseRecs
  <2> HIDE DEF g
  <2>3. \A i \in 1..Span(h) : ~InGroup(g, i)
    BY <2>1, SpanType
  <2>4. SameMarks(h, g)
    BY <2>1, <2>2, <2>3 DEF SameMarks
  <2> QED
    BY <2>4 DEF g
<1> QED
  BY <1>1, <1>2

LEMMA CloseUnlessMarks ==
    ASSUME NEW h, NEW n, HistoryFits(h, n), NEW token
    PROVE  SameMarks(h, CloseGroupUnless(h, token))
BY CloseMarks DEF CloseGroupUnless, SameMarks, SameRecs

LEMMA InitChains == Init => ChainInv
<1> SUFFICES ASSUME Init PROVE ChainInv
  OBVIOUS
<1>1. Span(history) = 0 /\ run = None
  BY DEF Init, EmptyHistory, Span, Here, Closed, Open, Undone, GroupEntries
<1>2. SceneInRange
  <2>1. \A s \in Slots : engine[s] = Root
    BY EditAssumption DEF Init, NewScene, Slots, AllSlots
  <2>2. Root <= MaxValue
    BY EditAssumption DEF Root
  <2> QED
    BY <2>1, <2>2 DEF SceneInRange, InRange
<1>3. OldFits /\ StepTaken
  BY <1>1 DEF OldFits, StepTaken, IsSet, Answered, InFlight
<1>4. Leads(history, Scene, Loose, Away)
  BY <1>1, NothingLeads
<1> QED
  BY <1>2, <1>3, <1>4 DEF ChainInv, Init

LEMMA DisconnectChains == ChainInv /\ Disconnect => ChainInv'
<1> SUFFICES ASSUME ChainInv, Disconnect PROVE ChainInv'
  OBVIOUS
<1>1. session' = None /\ UNCHANGED <<engine, aux>>
  BY DEF Disconnect
<1> QED
  BY <1>1 DEF ChainInv, Live, SceneInRange, InRange, aux

LEMMA ConnectChains == EditInv /\ CacheInv /\ ChainInv /\ Connect => ChainInv'
<1> SUFFICES ASSUME EditInv, CacheInv, ChainInv, Connect PROVE ChainInv'
  OBVIOUS
<1>1. /\ session' = lastGen + 1 /\ UNCHANGED <<history, run>> /\ lastGen \in Nat
      /\ engine' = NewScene /\ gaps' = {} /\ unsure' = {}
  BY EditAssumption DEF Connect, EditInv, RunIsOfHistory
<1>2. history.gen # None => history.gen \in Nat /\ history.gen <= lastGen
  BY EditAssumption DEF EditInv, HistoryFits, HistoryStates, CacheInv, CaptureInv, CaptureFits
<1>3. history.gen # session'
  BY <1>1, <1>2, EditAssumption
<1>4. SceneInRange'
  <2>1. \A s \in Slots : NewScene[s] = Root
    BY EditAssumption DEF NewScene, Slots, AllSlots
  <2>2. Root <= MaxValue
    BY EditAssumption DEF Root
  <2> QED
    BY <1>1, <2>1, <2>2 DEF SceneInRange, InRange
<1> QED
  BY <1>1, <1>3, <1>4 DEF ChainInv, Live

LEMMA SessionChangedChains == EditInv /\ EditInv' /\ ChainInv /\ SessionChanged => ChainInv'
<1> SUFFICES ASSUME EditInv, EditInv', ChainInv, SessionChanged PROVE ChainInv'
  OBVIOUS
<1>1. /\ history.gen # session /\ history' = Current /\ UNCHANGED <<session, engine, aux>>
      /\ run' = IF run # None /\ run.gen # session THEN None ELSE run
  BY DEF SessionChanged
<1>2. run' = None
  BY <1>1 DEF EditInv, RunIsOfHistory
<1>3. Current = EmptyHistory(session, history.rev + 1)
  BY <1>1 DEF Current, Synchronize
<1>4. SceneInRange' /\ unsure' \subseteq gaps'
  BY <1>1 DEF ChainInv, SceneInRange, InRange, aux
<1>5. OldFits'
  BY <1>2 DEF OldFits, IsSet
<1> QED
  BY <1>1, <1>2, <1>3, <1>4, <1>5, EmptyLeads, ChainsRest

LEMMA SameChainInv ==
    ASSUME ChainInv, UNCHANGED <<session, engine, history, run, aux>>
    PROVE  ChainInv'
<1>1. UNCHANGED <<session, engine, history, run, gaps, unsure, orphans>>
  BY DEF aux
<1>2. UNCHANGED <<Loose, IsSet, Answered, Live>> /\ (\A s : Sent(s)' <=> Sent(s))
  BY <1>1 DEF Loose, Followed, IsSet, Answered, InFlight, Live, Sent, Request
<1>3. UNCHANGED <<Scene, Away>>
  BY <1>1, <1>2 DEF Scene, Away, Expects
<1>4. OldFits => OldFits'
  BY <1>1, <1>2 DEF OldFits
<1>5. StepTaken => StepTaken'
  BY <1>1, <1>2 DEF StepTaken, Request
<1>6. SceneInRange' <=> SceneInRange
  BY <1>1 DEF SceneInRange
<1> QED
  BY <1>1, <1>2, <1>3, <1>4, <1>5, <1>6 DEF ChainInv

\* The actor is free: nothing is on its way.
LEMMA FreeChains ==
    ASSUME EditInv, EditInv', ChainInv, run = None, run' = None \/ run'.reply = None,
           SameMarks(Current, history'), UNCHANGED <<session, engine, aux>>, (Live => OldFits)'
    PROVE  ChainInv'
<1>1. \A s : ~Sent(s)
  BY FreeNothing, NotSent
<1>2. Loose \subseteq Loose' /\ unsure' \subseteq gaps'
  BY SameLoose DEF aux, ChainInv
<1> QED
  BY <1>1, <1>2, ResumeChains DEF aux

LEMMA EditRefusedChains == EditInv /\ EditInv' /\ ChainInv /\ EditRefused => ChainInv'
<1> SUFFICES ASSUME EditInv, EditInv', ChainInv, EditRefused PROVE ChainInv'
  OBVIOUS
<1>1. run = None /\ run' = None /\ UNCHANGED <<session, engine, aux>>
  BY DEF EditRefused, Free
<1>2. history' = Current \/ \E token : history' = Prepared(token)
  BY DEF EditRefused
<1>3. SameMarks(Current, Current) /\ \A token : SameMarks(Current, Prepared(token))
  BY CurrentFits, CloseUnlessMarks DEF Prepared, SameMarks, SameRecs
<1>4. OldFits'
  BY <1>1 DEF OldFits, IsSet
<1> QED
  BY <1>1, <1>2, <1>3, <1>4, FreeChains

\* The old value of an edit is the engine's, or none, or nobody follows the slot.
LEMMA StartEditChains ==
    ASSUME EditInv, EditInv', ChainInv, NEW src, NEW op, NEW slot, NEW val, NEW old, NEW token,
           Accepted(token), StartEdit(src, op, slot, val, old, token),
           op = "set" => /\ token # None => old # None
                         /\ session # None =>
                              old \in {None, engine[slot]} \/ (slot \in gaps /\ token = None)
    PROVE  ChainInv'
<1>1. run = None /\ history' = Prepared(token) /\ UNCHANGED <<session, engine, aux>>
  BY DEF Accepted, Free
<1>2. /\ run'.reply = None /\ run'.op = op /\ run'.token = token /\ run'.old = old /\ run'.slot = slot
  BY DEF StartEdit
<1>3. SameMarks(Current, Prepared(token))
  BY CurrentFits, CloseUnlessMarks DEF Prepared
<1>4. ~Answered'
  BY <1>2 DEF Answered
<1>5. (Live => OldFits)'
  BY <1>1, <1>2, <1>4 DEF OldFits, IsSet, Live, aux
<1> QED
  BY <1>1, <1>2, <1>3, <1>5, FreeChains

LEMMA SetFromUiChains ==
    ASSUME EditInv, EditInv', CacheInv, ChainInv, NEW slot \in UiSlots, NEW val, SetFromUi(slot, val)
    PROVE  ChainInv'
<1> DEFINE blank == [gen |-> session, rev |-> Current.applied, slot |-> slot, val |-> None]
<1>1. PICK known \in {capture, blank} :
        /\ known # None /\ known.slot = slot
        /\ LET old == ResolveCapture(Prepared(None), known, session)
           IN  \/ /\ Free /\ history' = Prepared(None) /\ UNCHANGED <<session, engine, run, aux>>
               \/ /\ old # Refresh
                  /\ Accepted(None)
                  /\ StartEdit("ui", "set", slot, val, old, None)
  BY DEF SetFromUi
<1> DEFINE old == ResolveCapture(Prepared(None), known, session)
<1>2. CASE Free /\ history' = Prepared(None) /\ UNCHANGED <<session, engine, run, aux>>
  <2>1. run = None /\ run' = None
    BY <1>2 DEF Free
  <2>2. SameMarks(Current, Prepared(None))
    BY CurrentFits, CloseUnlessMarks DEF Prepared
  <2>3. OldFits'
    BY <2>1 DEF OldFits, IsSet
  <2> QED
    BY <1>2, <2>1, <2>2, <2>3, FreeChains
<1>3. CASE old # Refresh /\ Accepted(None) /\ StartEdit("ui", "set", slot, val, old, None)
  <2>1. /\ run = None /\ session # None
        /\ SameCache(Current, Prepared(None)) /\ Prepared(None).gen = session
    BY <1>3, PreparedTells DEF Accepted, Free
  <2>2. slot \in Slots
    BY EditAssumption
  <2>3. old \in {None, engine[slot]} \/ slot \in gaps
    <3>1. CASE known = blank
      <4>1. Current.corr[slot] # None => ~(Current.corr[slot].rev > Current.applied)
        <5>1. CASE Current = history
          <6>1. Past(history) /\ history \in HistoryStates
            BY DEF CacheInv, CaptureInv, Knows, EditInv, HistoryFits
          <6>2. history.corr[slot] # None => history.corr[slot].rev \in Nat /\ history.applied \in Nat
            BY <2>2, <6>1 DEF HistoryStates
          <6> QED
            BY <2>2, <5>1, <6>1, <6>2 DEF Past, Cached
        <5>2. CASE Current = EmptyHistory(session, history.rev + 1)
          BY <2>2, <5>2 DEF EmptyHistory, NoCorrections
        <5> QED
          BY <5>1, <5>2, CurrentFits
      <4>2. old = None
        <5>1. known.gen = session /\ known.rev = Current.applied /\ known.slot = slot /\ known.val = None
          BY <3>1
        <5> HIDE DEF blank
        <5>2. \/ old = Refresh
              \/ Current.corr[slot] # None /\ Current.corr[slot].rev > Current.applied
              \/ old = None
          BY <2>1, <5>1 DEF ResolveCapture, SameCache
        <5> QED
          BY <1>3, <4>1, <5>2
      <4> QED
        BY <4>2
    <3>2. CASE known = capture
      <4>1. capture # None /\ capture.slot = slot
        BY <1>1, <3>2
      <4>2. CASE history.gen = session
        <5>1. Current = history
          BY <4>2, CurrentFits
        <5>2. old = ResolveCapture(history, capture, session)
          BY <2>1, <3>2, <4>2, <5>1 DEF ResolveCapture, SameCache
        <5>3. Quiet
          BY <2>1, <4>2 DEF Quiet, Settled, InFlight
        <5>4. slot \in unsure \/ old \in {Refresh, engine[slot]}
          BY <4>1, <5>2, <5>3, CaptureHolds DEF CaptureIsCurrent
        <5>5. unsure \subseteq gaps
          BY DEF ChainInv
        <5> QED
          BY <1>3, <5>4, <5>5
      <4>3. CASE history.gen # session
        <5>1. capture.gen # session
          BY <4>1, <4>3 DEF CacheInv, CaptureInv, Knows
        <5>2. old = Refresh
          BY <3>2, <5>1 DEF ResolveCapture
        <5> QED
          BY <1>3, <5>2
      <4> QED
        BY <4>2, <4>3
    <3> QED
      BY <3>1, <3>2
  <2> HIDE DEF old
  <2> QED
    BY <1>3, <2>3, StartEditChains
<1> QED
  BY <1>1, <1>2, <1>3

LEMMA EditsChains ==
    ASSUME EditInv, EditInv', ChainInv,
           \/ \E slot \in Slots, val \in Values, token \in {None} \cup 1..MaxSequence :
                SetFromMcp(slot, val, token)
           \/ \E src \in {"ui", "mcp"}, token \in {None} \cup 1..MaxSequence : Create(src, token)
           \/ \E src \in {"ui", "mcp"}, o \in Objects : Delete(src, o)
           \/ \E src \in {"ui", "mcp"} : OtherEdit(src)
    PROVE  ChainInv'
<1>1. ASSUME NEW slot \in Slots, NEW val \in Values, NEW token, SetFromMcp(slot, val, token)
      PROVE  ChainInv'
  <2>1. engine[slot] # None
    BY EditAssumption DEF EditInv, SceneFits
  <2>2. Accepted(token) /\ StartEdit("mcp", "set", slot, val, engine[slot], token)
    BY <1>1 DEF SetFromMcp
  <2> QED
    BY <2>1, <2>2, StartEditChains
<1>2. ASSUME NEW src, NEW token, Create(src, token) PROVE ChainInv'
  <2>1. Accepted(token) /\ StartEdit(src, "create", <<None, "object">>, None, None, token)
    BY <1>2 DEF Create
  <2> DEFINE slot == <<None, "object">>
  <2> HIDE DEF slot
  <2> QED
    BY <2>1, StartEditChains DEF slot
<1>3. ASSUME NEW src, NEW o, Delete(src, o) PROVE ChainInv'
  <2>1. Accepted(None) /\ StartEdit(src, "delete", <<o, "object">>, None, None, None)
    BY <1>3 DEF Delete
  <2> DEFINE slot == <<o, "object">>
  <2> HIDE DEF slot
  <2> QED
    BY <2>1, StartEditChains DEF slot
<1>4. ASSUME NEW src, OtherEdit(src) PROVE ChainInv'
  BY <1>4, StartEditChains DEF OtherEdit
<1> QED
  BY <1>1, <1>2, <1>3, <1>4

LEMMA StartHistoryChains ==
    ASSUME NEW src, NEW dir, NEW at, NEW shown, EditInv, EditInv', ChainInv,
           StartHistory(src, dir, at, shown)
    PROVE  ChainInv'
<1> DEFINE closed == CloseActiveGroup(Current)
<1>1. /\ run = None /\ UNCHANGED <<session, engine, aux>>
      /\ history' = Current \/ history' = closed
      /\ run' = run \/ \E plan : run' = Work(src, plan, 0, FALSE, shown)
  BY DEF StartHistory, Free
<1>2. SameMarks(Current, history')
  BY <1>1, CurrentFits, CloseMarks DEF SameMarks, SameRecs
<1>3. \A plan : Work(src, plan, 0, FALSE, shown).reply = None /\ Work(src, plan, 0, FALSE, shown).kind = "history"
  BY DEF Work
<1>4. run' = None \/ (run'.reply = None /\ run'.kind = "history")
  BY <1>1, <1>3
<1>5. OldFits'
  BY <1>4 DEF OldFits, IsSet
<1> QED
  BY <1>1, <1>2, <1>4, <1>5, FreeChains

LEMMA StartRetryChains == EditInv /\ EditInv' /\ ChainInv /\ StartRetry => ChainInv'
<1> SUFFICES ASSUME EditInv, EditInv', ChainInv, StartRetry PROVE ChainInv'
  OBVIOUS
<1>1. /\ run = None /\ UNCHANGED <<session, engine, aux>> /\ history' = Current
      /\ \E plan, done, shown : run' = Work("ui", plan, done, TRUE, shown)
  BY DEF StartRetry, Free
<1>2. SameMarks(Current, history')
  BY <1>1 DEF SameMarks, SameRecs
<1>3. run'.reply = None /\ run'.kind = "history"
  BY <1>1 DEF Work
<1>4. OldFits'
  BY <1>3 DEF OldFits, IsSet
<1> QED
  BY <1>1, <1>2, <1>3, <1>4, FreeChains

\* A new group is empty, and the one before it is closed.
LEMMA BeginMarks ==
    ASSUME NEW h, NEW n \in 1..MaxSequence, HistoryFits(h, n), h.pending = None
    PROVE  SameMarks(h, BeginGroup(h, n))
<1> DEFINE c == CloseActiveGroup(h)
           g == BeginGroup(h, n)
<1>1. c \in HistoryStates /\ c.group = None /\ SameMarks(h, c)
  BY CloseFollows, CloseMarks, CloseRecs
<1>2. g \in HistoryStates
  BY BeginGroupFollows DEF Follows, HistoryFits
<1>3. g.undo = c.undo /\ g.redo = c.redo /\ g.group = [token |-> n, entries |-> <<>>]
  <2> DEFINE open == [token |-> n, entries |-> <<>>]
             k == [c EXCEPT !.group = open]
  <2>1. g = Bump(k)
    BY DEF BeginGroup
  <2>2. open \in [token : 1..MaxSequence, entries : Seq(AnyEntry)]
    OBVIOUS
  <2> HIDE DEF g, c, open
  <2>3. k \in HistoryStates /\ k.undo = c.undo /\ k.redo = c.redo /\ k.group = open
    BY <1>1, <2>2 DEF HistoryStates
  <2> HIDE DEF k
  <2>4. g.undo = k.undo /\ g.redo = k.redo /\ g.group = k.group
    BY <2>1, <2>3 DEF Bump, HistoryStates
  <2> QED
    BY <2>3, <2>4 DEF open
<1>4. g.group # None /\ g.group.entries = <<>>
  <2> DEFINE open == [token |-> n, entries |-> <<>>]
  <2>1. open \in [token : 1..MaxSequence, entries : Seq(AnyEntry)] /\ open.entries = <<>>
    OBVIOUS
  <2>2. g.group = open
    BY <1>3
  <2> HIDE DEF g, open
  <2>3. open # None
    BY <2>1, NoneAssumption
  <2> QED
    BY <2>1, <2>2, <2>3
<1> HIDE DEF g, c
<1>5. SameMarks(c, g)
  BY <1>1, <1>2, <1>3, <1>4, OpenWalks DEF SameMarks, SameRecs
<1>6. SameMarks(h, g)
  BY <1>1, <1>5, SameMarksTrans
<1> QED
  BY <1>6 DEF g

LEMMA BeginChains == EditInv /\ EditInv' /\ ChainInv /\ Begin => ChainInv'
<1> SUFFICES ASSUME EditInv, EditInv', ChainInv, Begin PROVE ChainInv'
  OBVIOUS
<1>1. /\ run = None /\ run' = None /\ UNCHANGED <<session, engine, aux>>
      /\ seq \in 1..MaxSequence
      /\ history' = IF Current.pending # None THEN Current ELSE BeginGroup(Current, seq)
  BY EditAssumption DEF Begin, Free, EditInv
<1>2. SameMarks(Current, history')
  BY <1>1, CurrentFits, BeginMarks DEF SameMarks, SameRecs
<1>3. OldFits'
  BY <1>1 DEF OldFits, IsSet
<1> QED
  BY <1>1, <1>2, <1>3, FreeChains

LEMMA CloseChains ==
    ASSUME EditInv, ChainInv, history' = CloseActiveGroup(history), UNCHANGED <<session, engine, run, aux>>
    PROVE  ChainInv'
<1>1. SameMarks(history, history') /\ history'.gen = history.gen
  BY CloseMarks, CloseFollows DEF EditInv, HistoryFits, Follows
<1>2. Scene' = Scene /\ Loose' = Loose /\ Away' = Away
  BY DEF aux, Scene, Loose, Away, Followed, Sent, Expects, IsSet, Answered, InFlight, Request
<1>3. (Live' <=> Live) /\ (OldFits => OldFits') /\ (StepTaken => StepTaken')
  BY <1>1, <1>2 DEF aux, Live, OldFits, StepTaken, IsSet, Answered, InFlight, Request
<1>4. Leads(history, Scene, Loose, Away) => Leads(history', Scene', Loose', Away')
  BY <1>1, <1>2, SameLeads
<1>5. SceneInRange' /\ unsure' \subseteq gaps'
  BY DEF ChainInv, SceneInRange, InRange, aux
<1> QED
  BY <1>3, <1>4, <1>5 DEF ChainInv

LEMMA CloseGroupChains == EditInv /\ ChainInv /\ CloseGroup => ChainInv'
  BY CloseChains DEF CloseGroup

LEMMA AuthRevokedChains == EditInv /\ ChainInv /\ AuthRevoked => ChainInv'
<1> SUFFICES ASSUME EditInv, ChainInv, AuthRevoked PROVE ChainInv'
  OBVIOUS
<1>1. /\ history' = CloseActiveGroup(history) /\ UNCHANGED <<session, engine, aux>>
      /\ run' = run \/ (run # None /\ run.kind = "history" /\ run' = [run EXCEPT !.revoked = TRUE])
  BY DEF AuthRevoked
<1>2. CASE run' = run
  BY <1>1, <1>2, CloseChains
<1>3. CASE run # None /\ run.kind = "history" /\ run' = [run EXCEPT !.revoked = TRUE]
  <2>1. run \in HistoryRuns /\ history.group = None
    BY <1>3, WorkFacts
  <2>2. history' = history
    BY <1>1, <2>1 DEF CloseActiveGroup
  <2>3. /\ run' \in HistoryRuns /\ run'.kind = "history" /\ run'.step = run.step
        /\ run'.plan = run.plan /\ run'.reply = run.reply
    BY <1>3, <2>1 DEF HistoryRuns
  <2>4. run' # None
    BY <2>3, NoneAssumption
  <2>5. Request(run)' = Request(run) /\ (Answered' <=> Answered)
    BY <1>3, <2>3, <2>4 DEF Request, Answered, InFlight
  <2>6. ~IsSet /\ ~IsSet'
    BY <1>3, <2>3 DEF IsSet
  <2>7. Scene' = Scene /\ Loose' = Loose /\ Away' = Away
    BY <1>1, <2>5, <2>6 DEF aux, Scene, Loose, Away, Followed, Sent, Expects
  <2>8. OldFits' /\ (StepTaken => StepTaken')
    BY <1>1, <1>3, <2>3, <2>5, <2>6, <2>7 DEF OldFits, StepTaken
  <2>9. SceneInRange' /\ unsure' \subseteq gaps'
    BY <1>1 DEF ChainInv, SceneInRange, InRange, aux
  <2> QED
    BY <1>1, <2>2, <2>7, <2>8, <2>9 DEF ChainInv, Live
<1> QED
  BY <1>1, <1>2, <1>3

LEMMA SendStepChains == EditInv /\ EditInv' /\ CacheInv /\ ChainInv /\ SendStep => ChainInv'
<1> SUFFICES ASSUME EditInv, EditInv', CacheInv, ChainInv, SendStep PROVE ChainInv'
  OBVIOUS
<1>1. /\ run # None /\ run.kind = "history" /\ run.step = None
      /\ UNCHANGED <<session, engine, aux>>
  BY DEF SendStep
<1>2. \/ Finished(history)
      \/ Finished(StartPendingGroup(history, run.plan, run.completed, FALSE, FALSE))
      \/ UNCHANGED history /\ \E step, left : run' = [run EXCEPT !.step = step, !.left = left]
  <2>1. \/ Finished(history)
        \/ Finished(StartPendingGroup(history, run.plan, run.completed, FALSE, FALSE))
        \/ UNCHANGED history /\ \E step : run' = [run EXCEPT !.step = step, !.left = Tail(@)]
    BY DEF SendStep
  <2> QED
    BY <2>1
<1>3. history \in HistoryStates /\ history.group = None /\ run \in HistoryRuns /\ ~Answered /\ run.reply = None
  BY <1>1, WorkFacts, StepFacts DEF HistoryFits, Answered, InFlight
<1>4. (\A s : ~Sent(s)) /\ Loose \subseteq Loose' /\ unsure' \subseteq gaps'
  BY <1>1, <1>3, NotSent, SameLoose DEF aux, ChainInv
<1>5. CASE Finished(history)
  BY <1>1, <1>3, <1>4, <1>5, HaltChains, SameStacksMarks DEF SameStacks
<1>6. CASE Finished(StartPendingGroup(history, run.plan, run.completed, FALSE, FALSE))
  <2> DEFINE g == StartPendingGroup(history, run.plan, run.completed, FALSE, FALSE)
  <2>1. SameStacks(history, g) /\ g.gen = history.gen
    BY <1>3 DEF StartPendingGroup, Bump, HistoryStates, SameStacks
  <2>2. Finished(g)
    BY <1>6
  <2> HIDE DEF g
  <2>3. g.group = None
    BY <1>3, <2>1 DEF SameStacks
  <2> QED
    BY <1>1, <1>3, <1>4, <2>1, <2>2, <2>3, SameStacksMarks, HaltChains
<1>7. CASE UNCHANGED history /\ \E step, left : run' = [run EXCEPT !.step = step, !.left = left]
  <2>1. run'.reply = None /\ run'.kind = "history"
    BY <1>1, <1>3, <1>7 DEF HistoryRuns
  <2>2. OldFits'
    BY <2>1 DEF OldFits, IsSet
  <2>3. SameMarks(history, history')
    BY <1>7, SameStacksMarks DEF SameStacks
  <2>4. Live => Leads(history', engine', Loose', {})
    BY <1>1, <1>4, <2>3, SameMarksLeads
  <2>5. SceneInRange'
    BY <1>1 DEF ChainInv, SceneInRange, InRange
  <2> QED
    BY <1>1, <1>4, <1>7, <2>1, <2>2, <2>4, <2>5, ChainsRest DEF Live
<1> QED
  BY <1>2, <1>5, <1>6, <1>7

LEMMA GroupDoneChains == EditInv /\ EditInv' /\ CacheInv /\ ChainInv /\ GroupDone => ChainInv'
<1> SUFFICES ASSUME EditInv, EditInv', CacheInv, ChainInv, GroupDone PROVE ChainInv'
  OBVIOUS
<1> DEFINE g == ClearCompletedPendingGroup(history, run.plan.key)
<1>1. /\ run # None /\ run.kind = "history" /\ run.step = None
      /\ UNCHANGED <<session, engine, aux>> /\ (Finished(history) \/ Finished(g))
  BY DEF GroupDone
<1>2. history \in HistoryStates /\ history.group = None /\ ~Answered
  BY <1>1, WorkFacts DEF HistoryFits, Answered, InFlight
<1>3. SameStacks(history, g) /\ g.gen = history.gen
  BY <1>2 DEF ClearCompletedPendingGroup, Bump, HistoryStates, SameStacks
<1>4. SameMarks(history, g) /\ SameMarks(history, history) /\ g.group = None
  BY <1>2, <1>3, SameStacksMarks DEF SameStacks
<1>5. (\A s : ~Sent(s)) /\ Loose \subseteq Loose' /\ unsure' \subseteq gaps'
  BY <1>1, <1>2, NotSent, SameLoose DEF aux, ChainInv
<1> HIDE DEF g
<1> QED
  BY <1>1, <1>2, <1>3, <1>4, <1>5, HaltChains

LEMMA PendingMarks ==
    ASSUME NEW h, h \in HistoryStates, NEW plan, NEW completed, NEW unknown, NEW retry
    PROVE  /\ SameMarks(h, StartPendingGroup(h, plan, completed, unknown, retry))
           /\ StartPendingGroup(h, plan, completed, unknown, retry).gen = h.gen
           /\ StartPendingGroup(h, plan, completed, unknown, retry).group = h.group
<1> DEFINE g == StartPendingGroup(h, plan, completed, unknown, retry)
<1>1. SameStacks(h, g) /\ g.gen = h.gen
  BY DEF StartPendingGroup, Bump, HistoryStates, SameStacks
<1> HIDE DEF g
<1>2. SameMarks(h, g) /\ g.gen = h.gen /\ g.group = h.group
  BY <1>1, SameStacksMarks DEF SameStacks
<1> QED
  BY <1>2 DEF g

LEMMA GoneWorkChains ==
    ASSUME EditInv, EditInv', ChainInv, run # None, session # run.gen, Finished(Current),
           UNCHANGED <<session, engine>>, unsure' \subseteq gaps'
    PROVE  ChainInv'
<1>1. history' = Current /\ run' = None
  BY CurrentFits DEF Finished, Synchronize
<1> QED
  BY <1>1, GoneChains

\* What a failing step may have changed is not followed.
LEMMA StepLoose ==
    ASSUME EditInv, run # None, run.kind = "history", run.step # None,
           gaps \subseteq gaps', orphans \subseteq orphans',
           \/ run.reply # None /\ run.reply.st # "accepted"
           \/ run.step.rec.slot \in gaps'
           \/ IsCreate(run.step.rec) /\ run.step.rec.slot[1] \in orphans'
    PROVE  Loose \subseteq Loose' /\ \A s \in AllSlots : Sent(s) => s \in Loose'
<1>1. run.plan.dir \in Directions
  BY WorkFacts
<1>2. ASSUME NEW s \in AllSlots, Sent(s) PROVE s \in Loose'
  <2>1. s = run.step.rec.slot \/ (IsCreate(run.step.rec) /\ s = <<run.step.rec.slot[1], "object">>)
    BY <1>1, <1>2, StepRequest DEF Sent
  <2>2. run.step \in AnyEntry
    BY WorkFacts DEF HistoryRuns
  <2>3. IsCreate(run.step.rec) => run.step.rec.slot = <<run.step.rec.slot[1], "object">>
    BY <2>2, EditAssumption DEF AnyEntry, AnyRecord, IsCreate
  <2>4. s = run.step.rec.slot
    BY <2>1, <2>3
  <2>5. s \in gaps' \/ s[1] \in orphans'
    BY <1>2, <2>4 DEF Sent, Answered
  <2> QED
    BY <2>5 DEF Loose, Followed
<1> QED
  BY <1>2, SameLoose

LEMMA StepFailsChains == EditInv /\ EditInv' /\ CacheInv /\ ChainInv /\ StepFails => ChainInv'
<1> SUFFICES ASSUME EditInv, EditInv', CacheInv, ChainInv, StepFails PROVE ChainInv'
  OBVIOUS
<1>1. /\ run # None /\ run.kind = "history" /\ run.step # None /\ UNCHANGED <<session, engine>>
  BY DEF StepFails, InFlight
<1>2. PICK answered \in BOOLEAN :
        /\ answered => run.reply # None /\ run.reply.st # "accepted"
        /\ Finished(IF session # run.gen THEN Current
                    ELSE StartPendingGroup(Current, run.plan, run.completed, ~answered, answered))
        /\ gaps' = IF answered THEN gaps ELSE gaps \cup {run.step.rec.slot}
        /\ unsure' = IF answered THEN unsure ELSE unsure \cup {run.step.rec.slot}
        /\ orphans' = IF answered \/ ~IsCreate(run.step.rec) THEN orphans
                      ELSE orphans \cup {run.step.rec.slot[1]}
  BY DEF StepFails
<1>3. /\ session = run.gen => Current = history
      /\ run.plan.dir \in Directions /\ history \in HistoryStates /\ history.group = None
  BY <1>1, WorkFacts DEF HistoryFits
<1>4. unsure' \subseteq gaps' /\ gaps \subseteq gaps' /\ orphans \subseteq orphans'
  BY <1>2 DEF ChainInv
<1>5. CASE session # run.gen
  BY <1>1, <1>2, <1>4, <1>5, GoneWorkChains
<1>6. CASE session = run.gen
  <2> DEFINE g == StartPendingGroup(history, run.plan, run.completed, ~answered, answered)
  <2>1. Finished(g)
    BY <1>2, <1>3, <1>6
  <2>2. SameMarks(history, g) /\ g.gen = history.gen /\ g.group = None
    BY <1>3, PendingMarks
  <2>3. Loose \subseteq Loose' /\ \A s \in AllSlots : Sent(s) => s \in Loose'
    <3>1. (run.reply # None /\ run.reply.st # "accepted") \/ run.step.rec.slot \in gaps'
      BY <1>2
    <3>2. \/ run.reply # None /\ run.reply.st # "accepted"
          \/ run.step.rec.slot \in gaps'
          \/ IsCreate(run.step.rec) /\ run.step.rec.slot[1] \in orphans'
      BY <3>1
    <3> QED
      BY <1>1, <1>4, <3>2, StepLoose
  <2> HIDE DEF g
  <2> QED
    BY <1>1, <1>4, <2>1, <2>2, <2>3, HaltChains
<1> QED
  BY <1>5, <1>6

\* An answer that never comes: what it may have changed is not followed.
LEMMA EditUnansweredChains == EditInv /\ EditInv' /\ ChainInv /\ EditUnanswered => ChainInv'
<1> SUFFICES ASSUME EditInv, EditInv', ChainInv, EditUnanswered PROVE ChainInv'
  OBVIOUS
<1> DEFINE c == CloseIfGrouped(Current)
           m == MarkMcpOutcomeUnknown(c, run.seq)
<1>1. /\ run # None /\ run.kind = "edit" /\ run' = None
      /\ history' = IF session # run.gen THEN Current
                    ELSE IF run.src = "mcp" THEN m ELSE c
      /\ gaps' = IF run.op \in {"set", "delete"} THEN gaps \cup {run.slot} ELSE gaps
      /\ unsure' = IF run.op = "set" THEN unsure \cup {run.slot} ELSE unsure
      /\ orphans' = IF run.op = "delete" THEN orphans \cup {run.slot[1]} ELSE orphans
      /\ UNCHANGED <<session, engine>>
  BY DEF EditUnanswered, InFlight
<1>2. unsure' \subseteq gaps' /\ gaps \subseteq gaps' /\ orphans \subseteq orphans'
  BY <1>1 DEF ChainInv
<1>3. CASE session # run.gen
  BY <1>1, <1>2, <1>3, GoneChains
<1>4. CASE session = run.gen
  <2>1. Current = history
    BY <1>1, <1>4, CurrentFits DEF EditInv, RunIsOfHistory
  <2>2. /\ HistoryFits(c, seq) /\ c \in HistoryStates /\ c.group = None
    BY <1>1, <2>1, CloseIfGroupedFollows DEF Follows, HistoryFits
  <2>3. SameMarks(Current, c)
    BY <2>1, CurrentFits, CloseMarks, SameStacksMarks DEF CloseIfGrouped, SameStacks
  <2> HIDE DEF c
  <2>4. SameStacks(c, m)
    BY <2>2 DEF MarkMcpOutcomeUnknown, Bump, HistoryStates, SameStacks
  <2>5. SameMarks(Current, m) /\ m.group = None
    BY <2>2, <2>3, <2>4, SameStacksMarks, SameMarksTrans DEF SameStacks
  <2> HIDE DEF m
  <2>6. SameMarks(Current, history') /\ history'.group = None
    BY <1>1, <1>4, <2>2, <2>3, <2>5
  <2>7. Request(run).op = run.op /\ Request(run).slot = run.slot
    BY <1>1 DEF Request
  <2>8. ASSUME NEW s \in AllSlots, Sent(s) PROVE s \in Loose'
    <3>1. CASE run.op = "set" /\ run.slot = s
      BY <1>1, <3>1 DEF Loose, Followed
    <3>2. CASE run.op = "delete" /\ s = <<run.slot[1], "object">>
      <4>1. s[1] \in orphans'
        BY <1>1, <3>2
      <4> QED
        BY <4>1 DEF Loose, Followed
    <3> QED
      BY <2>7, <2>8, <3>1, <3>2 DEF Sent
  <2>9. OldFits'
    BY <1>1 DEF OldFits, IsSet
  <2> QED
    BY <1>1, <1>2, <2>6, <2>8, <2>9, SameLoose, ResumeChains
<1> QED
  BY <1>3, <1>4

LEMMA EngineRefusesChains == EditInv /\ EditInv' /\ CacheInv /\ ChainInv /\ EngineRefuses => ChainInv'
<1> SUFFICES ASSUME EditInv, EditInv', CacheInv, ChainInv, EngineRefuses PROVE ChainInv'
  OBVIOUS
<1>1. InFlight /\ run.reply = None /\ run # None /\ UNCHANGED <<session, engine, history, seq, aux>>
  BY DEF EngineRefuses, InFlight
<1>2. PICK reply \in Replies : run' = [run EXCEPT !.reply = reply] /\ reply.st # "accepted"
  <2>1. PICK st \in {"refused", "error", "unsupported"} :
          run' = [run EXCEPT !.reply = [st |-> st, id |-> None, val |-> None]]
    BY DEF EngineRefuses
  <2> DEFINE reply == [st |-> st, id |-> None, val |-> None]
  <2>2. reply \in Replies /\ reply.st # "accepted"
    BY DEF Replies, AnyObject, AnyValue
  <2> QED
    BY <2>1, <2>2
<1>3. run'.reply = reply /\ run' # None /\ run'.kind = run.kind
  BY <1>1, <1>2, ReplyLeaves DEF CacheInv
<1>4. run.kind = "edit" => run'.op = run.op /\ run'.token = run.token /\ run'.old = run.old /\ run'.slot = run.slot
  <2> SUFFICES ASSUME run.kind = "edit"
               PROVE  run'.op = run.op /\ run'.token = run.token /\ run'.old = run.old /\ run'.slot = run.slot
    BY <1>3
  <2>1. run \in EditRuns
    BY <1>1 DEF EditInv, EditRunFits
  <2> QED
    BY <1>2, <2>1 DEF EditRuns
<1>5. ~Answered' /\ ~Answered
  BY <1>1, <1>2, <1>3 DEF Answered
<1>6. (\A s : ~Sent(s)) /\ (\A s : ~Sent(s)')
  BY <1>5 DEF Sent
<1>7. Scene' = Scene /\ Away' = Away /\ Loose' = Loose
  BY <1>1, <1>6 DEF Scene, Away, Loose, Followed, aux
<1>8. (OldFits => OldFits') /\ StepTaken'
  BY <1>1, <1>3, <1>4, <1>5 DEF OldFits, IsSet, StepTaken, aux
<1>9. SceneInRange' /\ unsure' \subseteq gaps'
  BY <1>1 DEF ChainInv, SceneInRange, InRange, aux
<1> QED
  BY <1>1, <1>7, <1>8, <1>9 DEF ChainInv, Live

-----------------------------------------------------------------------------
(* The engine.                                                               *)

\* The step in work is the next place of the walk.
LEMMA StepPlace ==
    ASSUME EditInv, CacheInv, run # None, run.kind = "history", run.step # None
    PROVE  /\ Next1(history, run.plan.dir) \in 1..Span(history)
           /\ At(history, Next1(history, run.plan.dir)) = run.step
           /\ history.group = None /\ history \in HistoryStates /\ run.plan.dir \in Directions
  BY StepFacts, WorkFacts, TopWalks

LEMMA SetSlot ==
    ASSUME EditInv, CacheInv, TargetInv, InFlight, Request(run).op = "set"
    PROVE  Request(run).slot \in Slots
<1>1. CASE run.kind = "edit"
  <2>1. run.op = "set" /\ Request(run).slot = run.slot
    BY <1>1 DEF Request
  <2> QED
    BY <1>1, <2>1 DEF InFlight, EditInv, EditRunFits
<1>2. CASE run.kind = "history"
  <2>1. run # None /\ run.step # None
    BY <1>2 DEF InFlight
  <2>2. Request(run).slot = run.step.rec.slot /\ ~IsCreate(run.step.rec)
    BY <1>2, <2>1, StepPlace, StepRequest
  <2>3. run.step.rec \in Record
    BY <1>2, <2>1, StepPlace DEF TargetInv, Objective, RecordsFit
  <2> QED
    BY <2>2, <2>3 DEF Record, IsCreate
<1> QED
  BY <1>1, <1>2 DEF InFlight, EditInv, RunIsOfHistory

\* Only an edit of the active group is recorded in it.
LEMMA NoGroup ==
    ASSUME EditInv, run # None, run.kind = "edit" => run.token = None
    PROVE  history.group = None
<1>1. CASE run.kind = "edit"
  <2>1. history.group # None => history.group.token \in 1..MaxSequence
    BY DEF EditInv, HistoryFits, HistoryStates
  <2>2. history.group # None => history.group.token # None
    BY <2>1, EditAssumption
  <2> QED
    BY <1>1, <2>2 DEF EditInv, EditRunFits
<1>2. CASE run.kind = "history"
  BY <1>2, WorkFacts
<1> QED
  BY <1>1, <1>2 DEF EditInv, RunIsOfHistory

\* A scene that differs in one slot.
LEMMA OneSlotMeets ==
    ASSUME NEW h, NEW loose, NEW scene, NEW next, NEW t,
           \A s \in AllSlots : s # t => next[s] = scene[s],
           Chained(h, loose), AllMeet(h, scene, loose)
    PROVE  /\ h.group = None => Leads(h, next, loose, {t})
           /\ h.group = None /\ (t \in loose \/ \A i \in 1..Span(h) : SlotAt(h, i) # t) => Leads(h, next, loose, {})
           /\ (\A i \in 1..Span(h) : SlotAt(h, i) \in AllSlots /\ SlotAt(h, i) # t)
                 /\ t \notin Slots /\ Grouped(h, scene) => Leads(h, next, loose, {})
<1>1. AllMeet(h, next, loose \cup {t})
  <2> DEFINE more == loose \cup {t}
  <2>1. \A s \in AllSlots : s \in more \/ next[s] = scene[s] \/ \A i \in 1..Span(h) : SlotAt(h, i) # s
    OBVIOUS
  <2>2. loose \subseteq more
    OBVIOUS
  <2> HIDE DEF more
  <2>3. AllMeet(h, scene, more)
    BY <2>2, LooseChains
  <2>4. AllMeet(h, next, more)
    BY <2>1, <2>3, SceneMeets
  <2> QED
    BY <2>4 DEF more
<1>2. ASSUME t \in loose \/ \A i \in 1..Span(h) : SlotAt(h, i) # t PROVE AllMeet(h, next, loose)
  <2>1. \A s \in AllSlots : s \in loose \/ next[s] = scene[s] \/ \A i \in 1..Span(h) : SlotAt(h, i) # s
    BY <1>2
  <2> QED
    BY <2>1, SceneMeets
<1>3. ASSUME \A i \in 1..Span(h) : SlotAt(h, i) \in AllSlots /\ SlotAt(h, i) # t, t \notin Slots, Grouped(h, scene)
      PROVE  Grouped(h, next)
  <2>1. \A i \in 1..Span(h) : next[SlotAt(h, i)] = scene[SlotAt(h, i)]
    BY <1>3
  <2>2. \A s \in Slots : next[s] = scene[s]
    <3>1. \A s \in Slots : s \in AllSlots /\ s # t
      BY <1>3 DEF Slots, AllSlots
    <3> QED
      BY <3>1
  <2> QED
    BY <1>3, <2>1, <2>2 DEF Grouped
<1>4. loose \cup {} = loose
  OBVIOUS
<1>5. h.group = None => Grouped(h, next)
  BY NotGrouped
<1> QED
  BY <1>1, <1>2, <1>3, <1>4, <1>5 DEF Leads

\* What the engine's acceptance leaves of the item.
LEMMA AcceptFacts ==
    ASSUME EditInv, CacheInv, ChainInv, EngineAccepts
    PROVE  /\ InFlight /\ run # None /\ ~Answered /\ Live /\ UNCHANGED <<session, history, aux>>
           /\ Answered' /\ Live' /\ Request(run)' = Request(run) /\ run'.kind = run.kind
           /\ run.kind = "edit" => run'.op = run.op /\ run'.old = run.old /\ run'.token = run.token
                                   /\ run'.slot = run.slot
           /\ Loose' = Loose /\ unsure' \subseteq gaps'
           /\ Chained(history, Loose) /\ AllMeet(history, engine, Loose) /\ Grouped(history, engine)
<1>1. /\ InFlight /\ run.reply = None /\ run # None /\ session = run.gen
      /\ UNCHANGED <<session, history, seq, aux>>
  BY DEF EngineAccepts, InFlight
<1>2. PICK reply \in Replies : run' = [run EXCEPT !.reply = reply] /\ reply.st = "accepted"
  <2> DEFINE rq == Request(run)
  <2>1. CASE rq.op = "set"
    <3> DEFINE v == Clamp(rq.slot, rq.val)
               reply == [st |-> "accepted", id |-> None, val |-> v]
    <3>1. v \in Values
      BY <1>1, <2>1, RequestType
    <3>2. run' = [run EXCEPT !.reply = reply]
      BY <2>1 DEF EngineAccepts
    <3> HIDE DEF v
    <3>3. reply \in Replies /\ reply.st = "accepted"
      BY <3>1 DEF Replies, AnyValue, AnyObject
    <3> QED
      BY <3>2, <3>3
  <2>2. CASE rq.op # "set"
    <3>1. PICK id \in AnyObject : run' = [run EXCEPT !.reply = [st |-> "accepted", id |-> id, val |-> None]]
      BY <2>2 DEF EngineAccepts, AnyObject
    <3> DEFINE reply == [st |-> "accepted", id |-> id, val |-> None]
    <3>2. reply \in Replies /\ reply.st = "accepted" /\ run' = [run EXCEPT !.reply = reply]
      BY <3>1 DEF Replies, AnyValue
    <3> QED
      BY <3>2
  <2> QED
    BY <2>1, <2>2
<1>3. /\ run'.reply = reply /\ InFlight' /\ run' # None /\ Request(run)' = Request(run)
      /\ run'.kind = run.kind /\ reply # None
  BY <1>1, <1>2, ReplyLeaves DEF CacheInv
<1>4. Answered' /\ ~Answered
  BY <1>1, <1>2, <1>3 DEF Answered
<1>5. ASSUME run.kind = "edit"
      PROVE  run'.op = run.op /\ run'.old = run.old /\ run'.token = run.token /\ run'.slot = run.slot
  <2>1. run \in EditRuns
    BY <1>1, <1>5 DEF EditInv, EditRunFits
  <2> QED
    BY <1>2, <2>1 DEF EditRuns
<1>6. Live /\ Live'
  BY <1>1, EditAssumption DEF Live, EditInv, RunIsOfHistory, EditRunFits, HistoryRunFits, EditRuns, HistoryRuns
<1>7. Loose' = Loose /\ unsure' \subseteq gaps'
  BY <1>1 DEF aux, Loose, Followed, ChainInv
<1>8. \A s : ~Sent(s)
  BY <1>4, NotSent
<1> QED
  BY <1>1, <1>3, <1>4, <1>5, <1>6, <1>7, <1>8, LeadsOn

\* The engine has set a slot.
LEMMA SetChains ==
    ASSUME EditInv, CacheInv, TargetInv, ChainInv, EngineAccepts, Request(run).op = "set"
    PROVE  ChainInv'
<1> DEFINE t == Request(run).slot
           v == Clamp(t, Request(run).val)
<1>1. engine' = [engine EXCEPT ![t] = v]
  BY DEF EngineAccepts
<1>2. /\ InFlight /\ run # None /\ ~Answered /\ Live /\ UNCHANGED <<session, history, aux>>
      /\ Answered' /\ Live' /\ Request(run)' = Request(run) /\ run'.kind = run.kind
      /\ run.kind = "edit" => run'.op = run.op /\ run'.old = run.old /\ run'.token = run.token
                              /\ run'.slot = run.slot
      /\ Loose' = Loose /\ unsure' \subseteq gaps'
      /\ Chained(history, Loose) /\ AllMeet(history, engine, Loose) /\ Grouped(history, engine)
  BY AcceptFacts
<1>3. t \in Slots /\ t \in AllSlots
  BY <1>2, SetSlot DEF Slots, AllSlots
<1>4. InRange(t, v) /\ (InRange(t, Request(run).val) => v = Request(run).val)
  <2>1. Request(run).val \in Nat /\ MaxValue \in Nat
    BY <1>2, RequestType, EditAssumption
  <2> QED
    BY <2>1 DEF Clamp, InRange
<1> HIDE DEF v
<1>5. engine' = [s \in AllSlots |-> IF s = t THEN v ELSE engine[s]]
  BY <1>1, <1>3, SceneType
<1>6. \A s : Sent(s)' <=> s = t
  BY <1>2 DEF Sent
<1> HIDE DEF t
<1>7. \A s \in AllSlots : s # t => engine'[s] = engine[s]
  BY <1>5
<1>8. engine'[t] = v
  BY <1>3, <1>5
<1>9. SceneInRange'
  <2>1. \A s \in Slots : s \in AllSlots
    BY DEF Slots, AllSlots
  <2>2. \A s \in Slots : InRange(s, engine'[s])
    BY <1>4, <1>7, <1>8, <2>1 DEF ChainInv, SceneInRange
  <2> QED
    BY <2>2 DEF SceneInRange, InRange
<1>10. CASE run.kind = "edit"
  <2>1. run.op = "set" /\ run.slot = t /\ IsSet /\ IsSet'
    <3>1. run.op = "set" /\ run.slot = t
      BY <1>10 DEF Request, t
    <3> QED
      BY <1>2, <1>10, <3>1, AcceptFacts DEF IsSet, Answered, InFlight
  <2>2. (Expects' <=> run.old # None) /\ run'.old = run.old
    BY <1>2, <1>10, <2>1 DEF Expects
  <2>3. StepTaken'
    BY <1>2, <1>10 DEF StepTaken
  <2>4. OldFits /\ ~Answered
    BY <1>2 DEF ChainInv
  <2>5. OldFits'
    <3>1. run.token # None => run.old # None
      BY <2>1, <2>4 DEF OldFits
    <3>2. ASSUME run.old # None, t \notin Loose \/ run.token # None PROVE InRange(t, run.old)
      <4>1. run.old = engine[t]
        <5>1. t \in gaps => t \in Loose
          BY <1>3 DEF Loose, Followed
        <5> QED
          BY <2>1, <2>4, <3>2, <5>1 DEF OldFits
      <4> QED
        BY <1>3, <4>1 DEF ChainInv, SceneInRange
    <3>3. run'.token = run.token /\ run'.slot = t
      BY <1>2, <1>10, <2>1
    <3>4. (run.slot \notin Loose)' => t \notin Loose
      BY <1>2, <3>3
    <3>5. InRange(run.slot, run.old)' <=> InRange(t, run.old)
      BY <2>2, <3>3 DEF InRange
    <3> QED
      BY <1>2, <2>2, <3>1, <3>2, <3>3, <3>4, <3>5 DEF OldFits
  <2>6. CASE run.old = None
    <3>1. Scene' = engine' /\ Away' = {t}
      BY <1>3, <1>5, <1>6, <2>2, <2>6 DEF Scene, Away
    <3>2. history.group = None
      BY <1>2, <2>1, <2>4, <2>6, NoGroup DEF OldFits
    <3>3. Leads(history, engine', Loose, {t})
      BY <1>2, <1>7, <3>2, OneSlotMeets
    <3> QED
      BY <1>2, <1>9, <2>3, <2>5, <3>1, <3>3 DEF ChainInv
  <2>7. CASE run.old # None
    <3>1. Scene' = [engine' EXCEPT ![t] = run.old] /\ Away' = {}
      BY <1>3, <1>5, <1>6, <2>2, <2>7 DEF Scene, Away
    <3> DEFINE next == [engine' EXCEPT ![t] = run.old]
    <3>2. next = [s \in AllSlots |-> IF s = t THEN run.old ELSE engine[s]]
      BY <1>5
    <3> HIDE DEF next
    <3>3. Leads(history, next, Loose, {})
      <4>1. CASE run.old = engine[t]
        <5>1. next = engine
          BY <3>2, <4>1, SceneType
        <5> QED
          BY <1>2, <5>1 DEF Leads
      <4>2. CASE t \in gaps /\ run.token = None
        <5>1. t \in Loose
          BY <1>3, <4>2 DEF Loose, Followed
        <5>2. history.group = None
          BY <1>2, <4>2, NoGroup
        <5>3. \A s \in AllSlots : s # t => next[s] = engine[s]
          BY <3>2
        <5> QED
          BY <1>2, <5>1, <5>2, <5>3, OneSlotMeets
      <4> QED
        BY <2>1, <2>4, <2>7, <4>1, <4>2 DEF OldFits
    <3> QED
      BY <1>2, <1>9, <2>3, <2>5, <3>1, <3>3 DEF ChainInv, next
  <2> QED
    BY <2>6, <2>7
<1>11. CASE run.kind = "history"
  <2>1. ~IsSet' /\ ~Expects'
    BY <1>2, <1>11 DEF IsSet, Expects
  <2>2. Scene' = engine' /\ Away' = {t}
    BY <1>3, <1>5, <1>6, <2>1 DEF Scene, Away
  <2>3. history.group = None
    BY <1>2, <1>11, NoGroup
  <2>4. Leads(history, engine', Loose, {t})
    BY <1>2, <1>7, <2>3, OneSlotMeets
  <2>5. OldFits'
    BY <2>1 DEF OldFits
  <2>6. t \notin Loose => v = Request(run).val
    <3> SUFFICES ASSUME t \notin Loose PROVE InRange(t, Request(run).val)
      BY <1>4
    <3>1. /\ run.step # None /\ Next1(history, run.plan.dir) \in 1..Span(history)
          /\ At(history, Next1(history, run.plan.dir)) = run.step
      BY <1>2, <1>11, StepPlace DEF InFlight
    <3>2. t = run.step.rec.slot /\ Request(run).val \in {run.step.rec.old, run.step.rec.new}
      BY <1>11 DEF Request, t
    <3>3. RecInRange(run.step.rec)
      BY <1>2, <3>1, <3>2 DEF Chained, Ranged, SlotAt
    <3> QED
      BY <3>2, <3>3 DEF RecInRange
  <2>7. StepTaken'
    <3>1. (Request(run).slot)' = t /\ (Request(run).val)' = Request(run).val /\ (Request(run).op)' = "set"
      BY <1>2 DEF t
    <3>2. (engine[Request(run).slot])' = v
      BY <1>8, <3>1
    <3> QED
      BY <1>2, <2>6, <3>1, <3>2 DEF StepTaken
  <2> QED
    BY <1>2, <1>9, <2>2, <2>4, <2>5, <2>7 DEF ChainInv
<1> QED
  BY <1>2, <1>10, <1>11 DEF EditInv, RunIsOfHistory

\* The engine has changed what is there.
LEMMA OtherChains ==
    ASSUME EditInv, CacheInv, TargetInv, ChainInv, EngineAccepts, Request(run).op # "set"
    PROVE  ChainInv'
<1>1. /\ InFlight /\ run # None /\ ~Answered /\ Live /\ UNCHANGED <<session, history, aux>>
      /\ Answered' /\ Live' /\ Request(run)' = Request(run) /\ run'.kind = run.kind
      /\ run.kind = "edit" => run'.op = run.op /\ run'.old = run.old /\ run'.token = run.token
                              /\ run'.slot = run.slot
      /\ Loose' = Loose /\ unsure' \subseteq gaps'
      /\ Chained(history, Loose) /\ AllMeet(history, engine, Loose) /\ Grouped(history, engine)
  BY AcceptFacts
<1>2. ~IsSet' /\ ~Expects' /\ OldFits'
  BY <1>1 DEF IsSet, Expects, OldFits, Request
<1>3. \A s : Sent(s)' <=> Request(run).op = "delete" /\ s = <<Request(run).slot[1], "object">>
  BY <1>1 DEF Sent
<1>4. \A o : <<o, "object">> \notin Slots
  BY EditAssumption DEF Slots
<1>5. ASSUME NEW t, t \notin Slots, NEW v, engine' = [engine EXCEPT ![t] = v],
             NEW away, Leads(history, engine', Loose, away), {s \in AllSlots : Sent(s)'} = away,
             run.kind = "history" /\ Request(run).op = "delete" =>
               engine'[<<Request(run).slot[1], "object">>] = "gone"
      PROVE  ChainInv'
  <2>1. Scene' = engine' /\ Away' = away
    <3>1. engine' = [s \in AllSlots |-> engine'[s]]
      BY <1>5, SceneType
    <3> QED
      BY <1>2, <1>5, <3>1 DEF Scene, Away
  <2>2. SceneInRange'
    <3>1. \A s \in Slots : engine'[s] = engine[s]
      BY <1>5, SceneType DEF Slots, AllSlots
    <3> QED
      BY <3>1 DEF ChainInv, SceneInRange, InRange
  <2>3. StepTaken'
    BY <1>1, <1>5 DEF StepTaken
  <2> QED
    BY <1>1, <1>2, <1>5, <2>1, <2>2, <2>3 DEF ChainInv
<1>6. CASE Request(run).op = "delete"
  <2> DEFINE t == <<Request(run).slot[1], "object">>
  <2>1. engine' = [engine EXCEPT ![t] = "gone"] /\ engine[t] = "alive"
    BY <1>6 DEF EngineAccepts, Alive
  <2>2. history.group = None
    <3>1. run.kind = "edit" => run.op = "delete"
      BY <1>6 DEF Request
    <3> QED
      BY <1>1, <3>1, NoGroup DEF TargetInv
  <2>3. run.kind = "history" => t \in AllSlots
    <3> SUFFICES ASSUME run.kind = "history" PROVE Request(run).slot[1] \in Objects
      BY DEF AllSlots
    <3>1. Request(run).slot = run.step.rec.slot
      BY DEF Request
    <3>2. run.step.rec \in Record
      BY <1>1, StepPlace DEF TargetInv, Objective, RecordsFit, InFlight
    <3> QED
      BY <3>1, <3>2 DEF Record, Slots
  <2> DEFINE away == {s \in AllSlots : s = t}
  <2>4. t \notin Slots /\ {s \in AllSlots : Sent(s)'} = away
    BY <1>3, <1>4, <1>6
  <2> HIDE DEF t
  <2>5. (\A s \in AllSlots : s # t => engine'[s] = engine[s]) /\ (t \in AllSlots => engine'[t] = "gone")
    BY <2>1, SceneType
  <2>6. Leads(history, engine', Loose, {t})
    BY <1>1, <2>2, <2>5, OneSlotMeets
  <2>7. Leads(history, engine', Loose, away)
    BY <2>6 DEF Leads, AllMeet
  <2> HIDE DEF away
  <2> QED
    BY <1>5, <2>1, <2>3, <2>4, <2>5, <2>7 DEF t
<1>7. CASE Request(run).op = "create"
  <2>1. PICK o \in Objects : /\ engine[<<o, "object">>] = "unborn"
                             /\ engine' = [engine EXCEPT ![<<o, "object">>] = "alive"]
    BY <1>7 DEF EngineAccepts
  <2> DEFINE t == <<o, "object">>
  <2>2. t \in AllSlots /\ t \notin Slots /\ engine[t] = "unborn" /\ engine' = [engine EXCEPT ![t] = "alive"]
    BY <1>4, <2>1 DEF AllSlots
  <2>3. \A i \in 1..Span(history) : SlotAt(history, i) \in AllSlots /\ SlotAt(history, i) # t
    <3> SUFFICES ASSUME NEW i \in 1..Span(history)
                 PROVE  SlotAt(history, i) \in AllSlots /\ SlotAt(history, i) # t
      OBVIOUS
    <3>1. SlotAt(history, i) \in AllSlots
      BY DEF TargetInv, Objective, RecordsFit, Record, Slots, AllSlots, SlotAt
    <3>2. engine[<<Obj(history, i), "object">>] # "unborn"
      BY <1>1 DEF TargetInv, AllReach, Reaches
    <3>3. Obj(history, i) # o
      BY <2>1, <3>2
    <3>4. SlotAt(history, i)[1] # o
      BY <3>3 DEF Obj, SlotAt
    <3> QED
      BY <3>1, <3>4
  <2>4. {s \in AllSlots : Sent(s)'} = {}
    BY <1>3, <1>7
  <2> HIDE DEF t
  <2>5. \A s \in AllSlots : s # t => engine'[s] = engine[s]
    BY <2>2, SceneType
  <2>6. Leads(history, engine', Loose, {})
    BY <1>1, <2>2, <2>3, <2>5, OneSlotMeets
  <2> QED
    BY <1>5, <1>7, <2>2, <2>4, <2>6
<1>8. CASE Request(run).op = "other"
  <2>1. engine' = engine
    BY <1>8 DEF EngineAccepts
  <2>2. engine' = [engine EXCEPT ![None] = engine[None]]
    BY <2>1, SceneType
  <2>3. Leads(history, engine', Loose, {})
    <3>1. Loose \cup {} = Loose
      OBVIOUS
    <3> QED
      BY <1>1, <2>1, <3>1 DEF Leads
  <2>4. {s \in AllSlots : Sent(s)'} = {}
    BY <1>3, <1>8
  <2>5. engine' = [engine EXCEPT ![<<None, "object">>] = engine[<<None, "object">>]]
    <3> DEFINE k == <<None, "object">>
    <3> HIDE DEF k
    <3>1. engine' = [engine EXCEPT ![k] = engine[k]]
      BY <2>1, SceneType
    <3> QED
      BY <3>1 DEF k
  <2> QED
    BY <1>4, <1>5, <1>8, <2>3, <2>4, <2>5
<1> QED
  BY <1>6, <1>7, <1>8 DEF EngineAccepts

LEMMA EngineAcceptsChains == EditInv /\ CacheInv /\ TargetInv /\ ChainInv /\ EngineAccepts => ChainInv'
  BY SetChains, OtherChains

-----------------------------------------------------------------------------
(* The end of an edit.                                                       *)

\* The entries of a group lie side by side.
LEMMA TidySideBySide ==
    ASSUME NEW h \in HistoryStates, NEW key, Tidy(h, key)
    PROVE  SideBySide(h)
<1> SUFFICES ASSUME NEW i \in 1..Span(h), NEW j \in 1..Span(h), NEW k \in 1..Span(h),
                    i < k, k < j, At(h, i).key = At(h, j).key
             PROVE  At(h, k).key = At(h, j).key
  BY DEF SideBySide
<1>1. Blocks(h) /\ GroupKeys(h) /\ Span(h) \in Nat /\ Closed(h) \in Nat /\ Here(h) \in Nat
  BY SpanType DEF Tidy, WalkFits
<1>2. CASE ~InGroup(h, i)
  <2>1. PICK a \in 1..Span(h) : Block(h, At(h, i).key, a, At(h, i).count)
    BY <1>1, <1>2 DEF Blocks, Whole
  <2>2. /\ \A m \in 1..Span(h) : At(h, m).key = At(h, i).key <=> a <= m /\ m <= a + At(h, i).count - 1
        /\ At(h, i).count \in Nat
    BY <2>1 DEF Block
  <2>3. a <= i /\ j <= a + At(h, i).count - 1
    BY <2>2
  <2>4. a <= k /\ k <= a + At(h, i).count - 1
    BY <1>1, <2>2, <2>3
  <2> QED
    BY <2>2, <2>4
<1>3. CASE InGroup(h, i)
  <2>1. h.group # None
    <3> SUFFICES ASSUME h.group = None PROVE FALSE
      OBVIOUS
    <3> QED
      BY <1>3, SpanType
  <2>2. \A m \in 1..Span(h) : At(h, m).key = h.group.token <=> InGroup(h, m)
    BY <1>1, <2>1 DEF GroupKeys
  <2>3. InGroup(h, j) /\ At(h, j).key = h.group.token
    BY <1>3, <2>2
  <2>4. InGroup(h, k)
    BY <1>1, <1>3, <2>3 DEF InGroup
  <2> QED
    BY <2>2, <2>3, <2>4
<1> QED
  BY <1>2, <1>3

\* A record of what the engine was told.
LEMMA PushRecordChains ==
    ASSUME NEW h, NEW n \in Nat, HistoryFits(h, n), NEW edit, EditFits(h, edit, n), HistoryFits(h, edit.seq),
           GroupKeys(h), RecordsFit(h), NEW rec \in AnyRecord, rec \in Record,
           NEW loose, NEW scene, NEW next,
           Chained(h, loose), AllMeet(h, scene, loose), Grouped(h, scene),
           \A t \in AllSlots : t # rec.slot => next[t] = scene[t],
           next[rec.slot] = rec.new,
           rec.slot \notin loose \/ h.group # None => RecInRange(rec),
           ~IsCreate(rec) => (rec.slot \in loose /\ h.group = None) \/ scene[rec.slot] = rec.old,
           IsCreate(rec) => /\ \A i \in 1..Span(h) : Obj(h, i) # rec.slot[1]
                            /\ \A t \in Slots : t[1] = rec.slot[1] => scene[t] = Root
    PROVE  Leads(PushRecord(h, edit, rec), next, loose, {})
<1> DEFINE g == PushRecord(h, edit, rec)
<1>1. PICK e \in AnyEntry : Pushed(h, edit, rec, n, e)
  BY PushRecordForms
<1>2. g \in HistoryStates /\ h \in HistoryStates /\ e.rec = rec
  BY <1>1, PushRecordFits DEF HistoryFits, Pushed
<1>3. /\ \A i \in 1..Here(h) : i \in 1..Span(h) /\ At(h, i).rec \in Record
      /\ Closed(h) \in Nat /\ Open(h) \in Nat /\ Here(h) = Closed(h) + Open(h)
      /\ Undone(h) \in Nat /\ Span(h) = Here(h) + Undone(h)
  <2>1. /\ Here(h) \in Nat /\ Span(h) \in Nat /\ Here(h) <= Span(h)
        /\ Closed(h) \in Nat /\ Open(h) \in Nat /\ Here(h) = Closed(h) + Open(h)
        /\ Undone(h) \in Nat /\ Span(h) = Here(h) + Undone(h)
    BY <1>2, SpanType
  <2>2. \A i \in 1..Here(h) : i \in 1..Span(h)
    BY <2>1
  <2> QED
    BY <2>1, <2>2 DEF RecordsFit
<1>4. ASSUME NEW k \in HistoryStates, PushesAt(h, k, e),
             \A i \in 1..Here(h) : At(h, i).key = e.key => InGroup(h, i),
             h.group = None => \A i \in 1..Here(h) : At(h, i).key # e.key,
             e.named => h.group # None
      PROVE  Chained(k, loose) /\ AllMeet(k, next, loose) /\ Grouped(k, next)
  <2>1. \A i \in 1..Span(h) : InGroup(h, i) => Span(h) = Here(h)
    <3> SUFFICES ASSUME NEW i \in 1..Span(h), InGroup(h, i) PROVE Span(h) = Here(h)
      OBVIOUS
    <3>1. h.group # None
      <4> SUFFICES ASSUME h.group = None PROVE FALSE
        OBVIOUS
      <4> QED
        BY <1>2, SpanType
    <3>2. Open(h) # 0
      BY <1>3 DEF InGroup
    <3>3. Undone(h) = 0
      BY <3>1, <3>2 DEF GroupKeys
    <3> QED
      BY <1>3, <3>3
  <2>2. e.rec.slot \notin loose \/ e.named => RecInRange(e.rec)
    BY <1>2, <1>4
  <2>3. ~IsCreate(e.rec) => \/ e.rec.slot \in loose /\ \A i \in 1..Here(h) : At(h, i).key # e.key
                            \/ scene[e.rec.slot] = e.rec.old
    BY <1>2, <1>4
  <2>4. IsCreate(e.rec) => /\ \A i \in 1..Span(h) : Obj(h, i) # e.rec.slot[1]
                           /\ \A t \in Slots : t[1] = e.rec.slot[1] => scene[t] = Root
    BY <1>2
  <2>5. /\ e.rec \in Record /\ next[e.rec.slot] = e.rec.new
        /\ \A t \in AllSlots : t # e.rec.slot => next[t] = scene[t]
    BY <1>2
  <2> QED
    BY <1>2, <1>3, <1>4, <2>1, <2>2, <2>3, <2>4, <2>5, PushChains
<1>5. CASE h.group = None
  <2>1. e.key = edit.seq /\ e.named = FALSE /\ g = [h EXCEPT !.undo = Append(h.undo, e), !.redo = <<>>]
    BY <1>1, <1>5 DEF Pushed
  <2>2. g.undo = Append(h.undo, e) /\ g.redo = <<>> /\ g.group = None
    <3> DEFINE u == Append(h.undo, e)
    <3> HIDE DEF g, u
    <3>1. g = [h EXCEPT !.undo = u, !.redo = <<>>]
      BY <2>1 DEF u
    <3>2. g.undo = u /\ g.redo = <<>> /\ g.group = None
      BY <1>2, <1>5, <3>1 DEF HistoryStates
    <3> QED
      BY <3>2 DEF u
  <2>3. \A i \in 1..Here(h) : At(h, i).key # e.key
    <3>1. \A i \in 1..Span(h) : At(h, i).key < edit.seq /\ At(h, i).key \in 1..MaxSequence
      BY <1>2, KnownKeys, SpanType
    <3>2. edit.seq \in Nat
      BY DEF EditFits
    <3> QED
      BY <1>3, <2>1, <3>1, <3>2
  <2> HIDE DEF g
  <2>4. PushesAt(h, g, e)
    BY <1>2, <1>5, <2>2, PushAloneWalks
  <2>5. Chained(g, loose) /\ AllMeet(g, next, loose) /\ Grouped(g, next)
    BY <1>2, <1>4, <2>1, <2>3, <2>4
  <2> QED
    BY <2>5 DEF Leads, g
<1>6. CASE h.group # None
  <2> DEFINE into == Into(h, e)
  <2>1. /\ HistoryFits(into, n) /\ e.key = h.group.token
        /\ g = IF Len(h.group.entries) + 1 >= MaxGroupEdits THEN CloseActiveGroup(into) ELSE into
    BY <1>1, <1>6 DEF Pushed
  <2>2. /\ into.undo = h.undo /\ into.redo = IF h.group.entries = <<>> THEN <<>> ELSE h.redo
        /\ into.group = [token |-> h.group.token, entries |-> Append(h.group.entries, e)]
        /\ into \in HistoryStates
    <3>1. into \in HistoryStates
      BY <2>1 DEF HistoryFits
    <3> QED
      BY <1>2, <3>1 DEF Into, HistoryStates
  <2> HIDE DEF into, g
  <2>3. into.redo = <<>>
    <3>1. CASE h.group.entries = <<>>
      BY <2>2, <3>1
    <3>2. CASE h.group.entries # <<>>
      <4>1. h.group.entries \in Seq(AnyEntry) /\ h.redo \in Seq(AnyEntry)
        BY <1>2, <1>6 DEF HistoryStates
      <4>2. Open(h) # 0
        <5>1. Len(h.group.entries) # 0
          BY <3>2, <4>1
        <5> QED
          BY <1>6, <5>1 DEF Open, GroupEntries
      <4>3. Len(h.redo) = 0
        BY <1>6, <4>2 DEF GroupKeys, Undone
      <4>4. h.redo = <<>>
        BY <4>1, <4>3
      <4> QED
        BY <2>2, <4>4
    <3> QED
      BY <3>1, <3>2
  <2>4. into.group # None
    <3> DEFINE entries == Append(h.group.entries, e)
    <3>1. h.group \in [token : 1..MaxSequence, entries : Seq(AnyEntry)]
      BY <1>2, <1>6 DEF HistoryStates
    <3>2. entries \in Seq(AnyEntry)
      BY <3>1
    <3> HIDE DEF entries
    <3>3. [token |-> h.group.token, entries |-> entries] \in [token : 1..MaxSequence, entries : Seq(AnyEntry)]
      BY <3>1, <3>2
    <3> QED
      BY <2>2, <3>3, NoneAssumption DEF entries
  <2>5. into.group.entries = Append(h.group.entries, e)
    BY <2>2
  <2>6. PushesAt(h, into, e)
    BY <1>2, <1>6, <2>2, <2>3, <2>4, <2>5, PushGroupedWalks
  <2>7. \A i \in 1..Here(h) : At(h, i).key = e.key => InGroup(h, i)
    <3>1. \A i \in 1..Span(h) : At(h, i).key = h.group.token <=> InGroup(h, i)
      BY <1>6 DEF GroupKeys
    <3> QED
      BY <1>3, <2>1, <3>1
  <2>8. Chained(into, loose) /\ AllMeet(into, next, loose) /\ Grouped(into, next)
    BY <1>4, <1>6, <2>2, <2>6, <2>7
  <2>9. SameMarks(into, g)
    <3>1. g = into \/ g = CloseActiveGroup(into)
      BY <2>1
    <3>2. SameMarks(into, CloseActiveGroup(into)) /\ SameMarks(into, into)
      BY <2>1, CloseMarks DEF SameMarks, SameRecs
    <3> QED
      BY <3>1, <3>2
  <2>10. Chained(g, loose) /\ AllMeet(g, next, loose) /\ Grouped(g, next)
    BY <2>8, <2>9, SameChains
  <2> QED
    BY <2>10 DEF Leads, g
<1> QED
  BY <1>5, <1>6

\* What an accepted edit changed is what its record says.
LEMMA AnsweredScene ==
    ASSUME EditInv, CacheInv, ChainInv, run # None, run.kind = "edit", Answered, Live, run.op # "delete",
           run.op = "set" => run.old # None
    PROVE  /\ Leads(history, Scene, Loose, {})
           /\ \A t \in AllSlots : Scene[t] = IF run.op = "set" /\ t = run.slot THEN run.old ELSE engine[t]
           /\ run.op = "set" => run.slot \in Slots /\ run.slot \in AllSlots /\ engine[run.slot] = run.reply.val
           /\ run.op # "set" => Scene = engine
<1>1. Request(run).op = run.op /\ Request(run).slot = run.slot
  BY DEF Request
<1>2. run.op = "set" => Expects
  BY DEF Expects, IsSet
<1>3. \A s \in AllSlots : Sent(s) <=> run.op = "set" /\ run.slot = s
  BY <1>1 DEF Sent
<1>4. Leads(history, Scene, Loose, {})
  <2>1. Away = {}
    BY <1>2, <1>3 DEF Away
  <2> QED
    BY <2>1 DEF ChainInv
<1>5. \A t \in AllSlots : Scene[t] = IF run.op = "set" /\ t = run.slot THEN run.old ELSE engine[t]
  BY <1>2, <1>3 DEF Scene
<1>6. run.op = "set" => run.slot \in Slots /\ run.slot \in AllSlots /\ engine[run.slot] = run.reply.val
  <2> SUFFICES ASSUME run.op = "set" PROVE run.slot \in Slots /\ run.slot \in AllSlots /\ engine[run.slot] = run.reply.val
    OBVIOUS
  <2>1. run.slot \in Slots
    BY DEF EditInv, EditRunFits
  <2>2. run.slot \in AllSlots
    BY <2>1 DEF Slots, AllSlots
  <2>3. Moved(run.slot)
    BY <1>1 DEF Moved, Answered, Live, EditInv, RunIsOfHistory
  <2> QED
    BY <2>1, <2>2, <2>3 DEF CacheInv, CaptureInv, AnswerFits
<1>7. run.op # "set" => Scene = engine
  BY <1>3, NothingSent
<1> QED
  BY <1>4, <1>5, <1>6, <1>7

LEMMA RenewedMarks ==
    ASSUME NEW h, NEW g, Renewed(h, g)
    PROVE  SameMarks(h, g)
BY SameStacksMarks DEF Renewed

\* An accepted edit that leaves a record.
LEMMA RecordedChains ==
    ASSUME EditInv, CacheInv, GroupInv, TargetInv, ChainInv, run # None, run.kind = "edit", Answered, Live,
           NEW g, Renewed(history, g), NEW rec \in AnyRecord, Recorded(history, run, rec, run.reply)
    PROVE  Leads(PushRecord(g, run, rec), engine, Loose, {})
<1>1. /\ EditFits(history, run, seq) /\ HistoryFits(history, seq) /\ seq \in Nat
      /\ run.reply \in Replies /\ history \in HistoryStates /\ run \in EditRuns
  BY EditFacts DEF EditRuns, Answered
<1>2. run.op # "delete" /\ (run.op = "set" => run.old # None)
  BY DEF Recorded
<1>3. /\ Leads(history, Scene, Loose, {})
      /\ \A t \in AllSlots : Scene[t] = IF run.op = "set" /\ t = run.slot THEN run.old ELSE engine[t]
      /\ run.op = "set" => run.slot \in Slots /\ run.slot \in AllSlots /\ engine[run.slot] = run.reply.val
      /\ run.op # "set" => Scene = engine
  BY <1>2, AnsweredScene
<1>4. SameMarks(history, g)
  BY RenewedMarks
<1>5. Chained(g, Loose) /\ AllMeet(g, Scene, Loose) /\ Grouped(g, Scene)
  <2>1. Leads(g, Scene, Loose, {})
    BY <1>3, <1>4, SameLeads
  <2>2. Loose \cup {} = Loose
    OBVIOUS
  <2> QED
    BY <2>1, <2>2 DEF Leads
<1>6. /\ HistoryFits(g, seq) /\ EditFits(g, run, seq) /\ GroupKeys(g) /\ HistoryFits(g, run.seq)
      /\ g.group = history.group
  <2>1. HistoryFits(g, seq) /\ EditFits(g, run, seq) /\ g.group = history.group
    BY <1>1 DEF Renewed, EditFits, SameStacks
  <2>2. Tidy(history, None) /\ HistoryFits(history, run.seq)
    BY EditHolds
  <2>3. Tidy(g, None)
    BY <2>2, SameTidy DEF Renewed
  <2>4. HistoryFits(g, run.seq)
    BY <2>2 DEF Renewed
  <2> QED
    BY <2>1, <2>3, <2>4 DEF Tidy, WalkFits
<1>7. RecordsFit(g) /\ Span(g) = Span(history) /\ \A i \in 1..Span(g) : Obj(g, i) = Obj(history, i)
  <2>1. Objective(history) /\ SameRecs(history, g)
    BY <1>4 DEF TargetInv, SameMarks
  <2> QED
    BY <1>1, <2>1, SameReaches DEF Objective, SameRecs
<1>8. CASE /\ run.op = "set" /\ run.old \notin {None, run.reply.val}
           /\ rec = [slot |-> run.slot, old |-> run.old, new |-> run.reply.val]
  <2>1. run.old \in Values /\ run.slot \in Slots /\ run.reply.val \in Values
    BY <1>1, <1>3, <1>8 DEF EditRuns, AnyValue, EditInv, EditRunFits, Answered
  <2>2. rec \in Record /\ rec.slot = run.slot /\ rec.old = run.old /\ rec.new = run.reply.val
    BY <1>8, <2>1 DEF Record
  <2>3. ~IsCreate(rec)
    BY <2>1, <2>2, EditAssumption DEF IsCreate, Slots
  <2>4. g.group # None => run.token # None
    <3>1. history.group # None => history.group.token \in Nat /\ run.token = history.group.token
      BY <1>1 DEF HistoryStates, EditFits
    <3> QED
      BY <1>6, <3>1, EditAssumption
  <2>5. rec.slot \notin Loose \/ g.group # None => RecInRange(rec)
    <3>1. InRange(run.slot, run.reply.val)
      BY <1>3, <1>8 DEF ChainInv, SceneInRange
    <3>2. run.slot \notin Loose \/ run.token # None => InRange(run.slot, run.old)
      BY <1>8 DEF ChainInv, OldFits, IsSet
    <3> QED
      BY <2>2, <2>4, <3>1, <3>2 DEF RecInRange
  <2>6. Scene[rec.slot] = rec.old /\ engine[rec.slot] = rec.new
    BY <1>3, <1>8, <2>2
  <2>7. \A t \in AllSlots : t # rec.slot => engine[t] = Scene[t]
    BY <1>3, <2>2
  <2> QED
    BY <1>1, <1>5, <1>6, <1>7, <2>2, <2>3, <2>5, <2>6, <2>7, PushRecordChains
<1>9. CASE /\ run.op = "create" /\ run.reply.id # None
           /\ rec = [slot |-> <<run.reply.id, "object">>, old |-> "gone", new |-> "alive"]
  <2>1. run.reply.id \in Objects
    BY <1>1, <1>9 DEF Replies, AnyObject
  <2>2. /\ rec \in Record /\ rec.slot[1] = run.reply.id /\ rec.slot = <<run.reply.id, "object">> /\ rec.new = "alive"
        /\ rec.slot[2] = "object"
    BY <1>9, <2>1 DEF Record
  <2>3. /\ engine[<<run.reply.id, "object">>] = "alive"
        /\ \A i \in 1..Span(history) : Obj(history, i) # run.reply.id
    BY <1>9 DEF AnswerReaches, TargetInv, Request
  <2>4. RecInRange(rec) /\ IsCreate(rec)
    BY <2>2 DEF RecInRange, InRange, IsCreate
  <2>5. \A t \in Slots : t[1] = run.reply.id => engine[t] = Root
    <3>1. \A a \in Attributes : engine[<<run.reply.id, a>>] = Root
      BY <1>9 DEF CacheInv, CaptureInv, AnswerFits, Answered, Live, EditInv, RunIsOfHistory, Request
    <3> QED
      BY <3>1 DEF Slots
  <2>6. Scene = engine
    BY <1>3, <1>9
  <2>7. engine[rec.slot] = rec.new /\ \A t \in AllSlots : t # rec.slot => engine[t] = Scene[t]
    BY <2>2, <2>3, <2>6
  <2>8. /\ \A i \in 1..Span(g) : Obj(g, i) # rec.slot[1]
        /\ \A t \in Slots : t[1] = rec.slot[1] => Scene[t] = Root
    BY <1>7, <2>2, <2>3, <2>5, <2>6
  <2> QED
    BY <1>1, <1>5, <1>6, <1>7, <2>2, <2>4, <2>7, <2>8, PushRecordChains
<1> QED
  BY <1>8, <1>9 DEF Recorded

LEMMA EditAnsweredChains ==
    EditInv /\ EditInv' /\ CacheInv /\ GroupInv /\ TargetInv /\ ChainInv /\ EditAnswered => ChainInv'
<1> SUFFICES ASSUME EditInv, EditInv', CacheInv, GroupInv, TargetInv, ChainInv, EditAnswered PROVE ChainInv'
  OBVIOUS
<1>1. /\ run # None /\ run.kind = "edit" /\ run.reply # None /\ run' = None /\ InFlight
      /\ history' = IF session # run.gen THEN Current
                    ELSE IF run.reply.st = "accepted" THEN RecordSuccess(Current, run, run.reply)
                    ELSE IF run.reply.st = "unsupported" /\ StructureEdit
                      THEN MarkEditUnsupported(CloseIfGrouped(Current))
                    ELSE CloseIfGrouped(Current)
      /\ gaps' = IF session # run.gen \/ run.reply.st # "accepted" THEN gaps
                 ELSE IF run.op = "set" /\ run.old = None THEN gaps \cup {run.slot}
                 ELSE IF run.op = "delete" THEN {}
                 ELSE gaps
      /\ unsure' = IF session = run.gen /\ run.reply.st = "accepted" /\ run.op = "delete" THEN {}
                   ELSE unsure
      /\ UNCHANGED <<session, engine, orphans>>
  BY DEF EditAnswered, InFlight
<1>2. /\ run \in EditRuns /\ EditFits(history, run, seq) /\ run.gen = history.gen
      /\ HistoryFits(history, seq) /\ seq \in Nat /\ run.reply \in Replies /\ history \in HistoryStates
  BY <1>1, EditFacts DEF EditRuns, HistoryFits
<1>3. unsure' \subseteq gaps'
  BY <1>1 DEF ChainInv
<1>4. CASE session # run.gen
  BY <1>1, <1>3, <1>4, GoneChains
<1>5. CASE session = run.gen /\ run.reply.st # "accepted"
  <2> DEFINE c == CloseIfGrouped(history)
  <2>1. Current = history /\ ~Answered
    BY <1>1, <1>2, <1>5, CurrentFits DEF Answered
  <2>2. SameMarks(history, c) /\ c \in HistoryStates
    BY <1>2, CloseMarks, CloseRecs DEF CloseIfGrouped, SameMarks, SameRecs
  <2>3. history' = c \/ history' = MarkEditUnsupported(c)
    BY <1>1, <1>5, <2>1
  <2> HIDE DEF c
  <2>4. SameStacks(c, MarkEditUnsupported(c))
    BY <2>2 DEF MarkEditUnsupported, Bump, HistoryStates, SameStacks
  <2>5. SameMarks(Current, history')
    BY <2>1, <2>2, <2>3, <2>4, SameStacksMarks, SameMarksTrans
  <2>6. Loose \subseteq Loose'
    BY <1>1, <1>5, SameLoose
  <2>7. (Live => OldFits)'
    BY <1>1 DEF OldFits, IsSet
  <2>8. \A s \in AllSlots : ~Sent(s)
    BY <2>1, NotSent
  <2> QED
    BY <1>1, <1>3, <2>5, <2>6, <2>7, <2>8, ResumeChains
<1>6. CASE session = run.gen /\ run.reply.st = "accepted"
  <2>1. Current = history /\ Answered /\ Live
    <3>1. session # None
      BY <1>2, <1>6, NoneAssumption, EditAssumption DEF EditRuns
    <3> QED
      BY <1>1, <1>2, <1>6, <3>1, CurrentFits DEF Answered, Live
  <2>2. run.op = "set" => run.slot \in Slots /\ run.reply.val \in Values
    BY <1>1, <1>6 DEF EditInv, EditRunFits
  <2> DEFINE r == RecordSuccess(history, run, run.reply)
  <2>3. history' = r
    BY <1>1, <1>6, <2>1
  <2>4. \/ /\ run.op = "delete" /\ r \in HistoryStates /\ r.undo = <<>> /\ r.redo = <<>>
           /\ r.group = history.group /\ r.pending = history.pending
        \/ \E g : /\ Renewed(history, g)
                  /\ \/ r = g /\ ~(\E rec : Recorded(history, run, rec, run.reply)) /\ run.op # "delete"
                     \/ \E rec \in AnyRecord : r = PushRecord(g, run, rec) /\ Recorded(history, run, rec, run.reply)
    <3> HIDE DEF r
    <3> QED
      BY <1>2, <2>2, RecordSuccessForms DEF r
  <2> HIDE DEF r
  <2>5. run.op # "delete" => Loose \subseteq Loose'
    BY <1>1, SameLoose
  <2>6. Leads(r, engine, Loose', {})
    <3>1. CASE run.op = "delete" /\ r.undo = <<>> /\ r.redo = <<>> /\ r.group = history.group
      <4>1. run.token = None
        BY <1>1, <3>1 DEF TargetInv
      <4>2. history.group = None
        BY <1>1, <4>1, NoGroup
      <4>3. Span(r) = 0
        BY <3>1, <4>2 DEF Span, Here, Closed, Open, Undone, GroupEntries
      <4> QED
        BY <4>3, NothingLeads
    <3>2. ASSUME NEW g, Renewed(history, g), r = g, run.op # "delete",
                 ~(\E rec : Recorded(history, run, rec, run.reply))
          PROVE  Leads(r, engine, Loose', {})
      <4>1. SameMarks(history, g) /\ g.group = history.group
        BY <3>2, RenewedMarks DEF Renewed, SameStacks
      <4>2. CASE run.op = "set" /\ run.old = None
        <5>1. run.token = None
          BY <1>1, <2>1, <4>2 DEF ChainInv, OldFits, IsSet
        <5>2. g.group = None
          BY <1>1, <4>1, <5>1, NoGroup
        <5>3. run.slot \in Loose'
          <6>1. run.slot \in gaps'
            BY <1>1, <1>6, <4>2
          <6>2. run.slot \in AllSlots
            BY <2>2, <4>2 DEF Slots, AllSlots
          <6> QED
            BY <6>1, <6>2 DEF Loose, Followed
        <5>4. \A s \in AllSlots : Sent(s) => s \in Loose' /\ g.group = None
          BY <1>1, <4>2, <5>2, <5>3 DEF Sent, Request
        <5> QED
          BY <2>1, <2>5, <3>2, <4>1, <5>4, SameMarksLeads
      <4>3. CASE ~(run.op = "set" /\ run.old = None)
        <5>1. /\ Leads(history, Scene, Loose, {})
              /\ \A t \in AllSlots : Scene[t] = IF run.op = "set" /\ t = run.slot THEN run.old ELSE engine[t]
              /\ run.op = "set" => run.slot \in Slots /\ run.slot \in AllSlots /\ engine[run.slot] = run.reply.val
              /\ run.op # "set" => Scene = engine
          BY <1>1, <2>1, <3>2, <4>3, AnsweredScene
        <5>2. run.op = "set" => run.old = run.reply.val
          BY <3>2, <4>3 DEF Recorded
        <5>3. Scene = engine
          <6>1. \A t \in AllSlots : Scene[t] = engine[t]
            BY <5>1, <5>2
          <6>2. engine = [s \in AllSlots |-> engine[s]] /\ Scene = [s \in AllSlots |-> Scene[s]]
            BY SceneType DEF Scene
          <6> QED
            BY <6>1, <6>2
        <5>4. Leads(g, engine, Loose, {})
          BY <4>1, <5>1, <5>3, SameLeads
        <5>5. Leads(g, engine, Loose', {})
          <6>1. Chained(g, Loose) /\ AllMeet(g, engine, Loose) /\ Grouped(g, engine)
            BY <5>4 DEF Leads
          <6>2. Chained(g, Loose') /\ AllMeet(g, engine, Loose')
            BY <2>5, <3>2, <6>1, LooseChains
          <6> QED
            BY <6>1, <6>2 DEF Leads
        <5> QED
          BY <3>2, <5>5
      <4> QED
        BY <4>2, <4>3
    <3>3. ASSUME NEW g, Renewed(history, g), NEW rec \in AnyRecord, r = PushRecord(g, run, rec),
                 Recorded(history, run, rec, run.reply)
          PROVE  Leads(r, engine, Loose', {})
      <4>1. Leads(r, engine, Loose, {})
        BY <1>1, <2>1, <3>3, RecordedChains
      <4>2. Loose \subseteq Loose'
        BY <2>5, <3>3 DEF Recorded
      <4>3. Chained(r, Loose) /\ AllMeet(r, engine, Loose) /\ Grouped(r, engine)
        BY <4>1 DEF Leads
      <4>4. Chained(r, Loose') /\ AllMeet(r, engine, Loose')
        BY <4>2, <4>3, LooseChains
      <4> QED
        BY <4>3, <4>4 DEF Leads
    <3> QED
      BY <2>4, <3>1, <3>2, <3>3
  <2>7. SceneInRange'
    BY <1>1 DEF ChainInv, SceneInRange
  <2>8. (session # None /\ history.gen = session)' => Leads(history', engine', Loose', {})
    BY <1>1, <2>3, <2>6
  <2>9. (Live => OldFits)'
    BY <1>1 DEF OldFits, IsSet
  <2> QED
    BY <1>1, <1>3, <2>7, <2>8, <2>9, ChainsRest
<1> QED
  BY <1>4, <1>5, <1>6

-----------------------------------------------------------------------------
(* What is thrown away.                                                      *)

LEMMA SlotOfRecord ==
    ASSUME NEW h, RecordsFit(h)
    PROVE  \A i \in 1..Span(h) : SlotAt(h, i) \in AllSlots
BY DEF RecordsFit, SlotAt, Record, Slots, AllSlots

\* The slot of a step under way.
LEMMA StepSlot ==
    ASSUME EditInv, CacheInv, TargetInv, run # None, run.kind = "history", run.step # None
    PROVE  run.step.rec \in Record /\ run.step.rec.slot \in AllSlots
<1>1. /\ Next1(history, run.plan.dir) \in 1..Span(history)
      /\ At(history, Next1(history, run.plan.dir)) = run.step
  BY StepPlace
<1>2. RecordsFit(history)
  BY DEF TargetInv, Objective
<1> QED
  BY <1>1, <1>2, SlotOfRecord DEF RecordsFit, SlotAt

\* A pending group that is discarded; its slots are not followed.
LEMMA DiscardChains ==
    EditInv /\ EditInv' /\ CacheInv /\ GroupInv /\ TargetInv /\ ChainInv /\ Discard => ChainInv'
<1> SUFFICES ASSUME EditInv, EditInv', CacheInv, GroupInv, TargetInv, ChainInv, Discard PROVE ChainInv'
  OBVIOUS
<1> DEFINE h == Current
           key == h.pending.key
           stacks == {h.undo[i] : i \in 1..Len(h.undo)} \cup {h.redo[i] : i \in 1..Len(h.redo)}
           gone == {e \in stacks : e.key = key}
           lost == {e.rec.slot : e \in gone}
<1>1. /\ run = None /\ run' = None /\ h.pending # None /\ session # None
      /\ history' = DiscardPendingGroup(h) /\ gaps' = gaps \cup lost /\ orphans \subseteq orphans'
      /\ UNCHANGED <<session, engine, seq, unsure>>
  BY DEF Discard, Free
<1>2. HistoryFits(history', seq)
  BY <1>1, DiscardKeeps DEF EditInv, Discard
<1>3. /\ Tidy(h, key) /\ PendingFits(h) /\ HistoryFits(h, seq) /\ h.group = None /\ h \in HistoryStates
  BY <1>1, CurrentHolds, CurrentFits DEF PendingKey, HistoryFits
<1>4. /\ history' \in HistoryStates /\ history'.group = None
      /\ history'.undo = Without(h.undo, key) /\ history'.redo = Without(h.redo, key)
  BY <1>1, <1>2, <1>3 DEF DiscardPendingGroup, Bump, HistoryStates, HistoryFits
<1>5. Occurs(h, key) => Accounts(h, h.pending.dir, key, h.pending.completed, h.pending.count)
  BY <1>1, <1>3 DEF PendingFits
<1>6. RecordsFit(h)
  BY CurrentReaches DEF Objective
<1>7. \A i \in 1..Span(h) : At(h, i).key = key => SlotAt(h, i) \in Loose'
  <2> SUFFICES ASSUME NEW i \in 1..Span(h), At(h, i).key = key
               PROVE  SlotAt(h, i) \in Loose'
    OBVIOUS
  <2>1. At(h, i) \in stacks
    BY <1>3, InStacks
  <2>2. SlotAt(h, i) \in AllSlots
    BY <1>6, SlotOfRecord
  <2> HIDE DEF stacks, h
  <2>3. At(h, i) \in gone
    BY <2>1
  <2>4. At(h, i).rec.slot \in lost
    BY <2>3
  <2> QED
    BY <1>1, <2>2, <2>4 DEF SlotAt, Loose, Followed
<1>8. Chained(h, Loose') /\ AllMeet(h, engine, Loose')
  <2>1. SameMarks(h, h)
    BY DEF SameMarks, SameRecs
  <2>2. Loose \subseteq Loose'
    BY <1>1, SameLoose
  <2>3. \A s \in AllSlots : ~Sent(s)
    BY <1>1, FreeNothing, NotSent
  <2>4. Leads(h, engine, Loose', {})
    BY <1>1, <2>1, <2>2, <2>3, CurrentLeads
  <2>5. Loose' \cup {} = Loose'
    OBVIOUS
  <2> QED
    BY <2>4, <2>5 DEF Leads
<1>9. SideBySide(h)
  BY <1>3, TidySideBySide
<1> HIDE DEF lost, h
<1>10. PICK a \in 1..(Here(h) + 1), b \in Here(h)..Span(h) :
         \A i \in 1..Span(h) : At(h, i).key = key <=> a <= i /\ i <= b
  BY <1>3, <1>5, GroupAround
<1>11. Removes(h, history', a, b)
  BY <1>3, <1>4, <1>10, WithoutWalks
<1>12. /\ \A i \in 1..Span(h) : a <= i /\ i <= b => SlotAt(h, i) \in Loose'
       /\ \A i, j \in 1..Span(h) : a <= i /\ i <= b /\ At(h, i).key = At(h, j).key => a <= j /\ j <= b
  BY <1>7, <1>10
<1>13. /\ Chained(history', Loose')
       /\ AllMeet(history', engine, Loose')
       /\ Grouped(history', engine)
  <2> DEFINE g == history'
             loose == Loose'
             scene == engine
  <2>1. g \in HistoryStates /\ g.group = None /\ Removes(h, g, a, b) /\ Chained(h, loose) /\ AllMeet(h, scene, loose)
    BY <1>4, <1>8, <1>11
  <2>2. /\ \A i \in 1..Span(h) : a <= i /\ i <= b => SlotAt(h, i) \in loose
        /\ \A i, j \in 1..Span(h) : a <= i /\ i <= b /\ At(h, i).key = At(h, j).key => a <= j /\ j <= b
    BY <1>12
  <2> HIDE DEF g, loose, scene
  <2>3. Chained(g, loose) /\ AllMeet(g, scene, loose) /\ Grouped(g, scene)
    BY <1>3, <1>9, <2>1, <2>2, RemovesChains
  <2> QED
    BY <2>3 DEF g, loose, scene
<1>14. Leads(history', engine', Loose', {})
  BY <1>1, <1>13 DEF Leads
<1>15. SceneInRange' /\ unsure' \subseteq gaps'
  BY <1>1 DEF ChainInv, SceneInRange, InRange
<1>16. OldFits'
  BY <1>1 DEF OldFits, IsSet
<1> QED
  BY <1>1, <1>14, <1>15, <1>16, ChainsRest

\* A single entry that is thrown away.
LEMMA DropChains ==
    ASSUME EditInv, EditInv', CacheInv, GroupInv, TargetInv, ChainInv,
           run # None, run.kind = "history", ~run.grouped,
           Finished(DiscardAction(history, run.plan)), UNCHANGED <<session, engine>>,
           Loose \subseteq Loose', \A s \in AllSlots : Sent(s) => s \in Loose', unsure' \subseteq gaps',
           run.step.rec.slot \in Loose'
    PROVE  ChainInv'
<1> DEFINE g == DiscardAction(history, run.plan)
           h == history
           dir == run.plan.dir
           p == Pop(Stack(h, dir))
<1>1. /\ dir \in Directions /\ h.group = None /\ h \in HistoryStates /\ HistoryFits(h, seq)
  BY WorkFacts DEF HistoryFits
<1>2. /\ Stack(h, dir) # <<>> /\ run.step = Top(Stack(h, dir)) /\ run.step = run.plan.steps[1]
      /\ OnTop(h, dir, run.step.id, run.plan.key)
  BY StepFacts
<1>3. g \in HistoryStates
  BY <1>1, DiscardActionFollows DEF Follows, HistoryFits
<1>4. /\ Stack(g, dir) = p /\ Stack(g, Opposite(dir)) = Stack(h, Opposite(dir))
      /\ g.group = None /\ g.gen = h.gen
  <2>1. g = Bump(SetStack(h, dir, p))
    BY <1>2 DEF DiscardAction
  <2> HIDE DEF p, g
  <2> QED
    BY <1>1, <2>1 DEF Bump, SetStack, Stack, Opposite, Directions, HistoryStates
<1>5. Finished(g)
  OBVIOUS
<1>6. Tidy(h, None) /\ Accounts(h, dir, run.step.key, 0, 1)
  BY SingleHolds
<1> HIDE DEF g
<1> DEFINE next == Next1(h, dir)
<1>7. Removes(h, g, next, next) /\ next \in 1..Span(h) /\ At(h, next) = run.step
  BY <1>1, <1>2, <1>3, <1>4, DropWalks DEF p
<1> HIDE DEF next
<1>8. PICK a \in 1..Span(h) : Block(h, run.step.key, a, 1)
  BY <1>6 DEF Accounts
<1>9. \A j \in 1..Span(h) : At(h, j).key = At(h, next).key => j = next
  <2>1. \A j \in 1..Span(h) : At(h, j).key = run.step.key => j = a
    <3>1. \A j \in 1..Span(h) : At(h, j).key = run.step.key <=> a <= j /\ j <= a + 1 - 1
      BY <1>8 DEF Block
    <3> QED
      BY <3>1
  <2> QED
    BY <1>7, <2>1
<1>10. SideBySide(h)
  BY <1>1, <1>6, TidySideBySide
<1>11. /\ \A i \in 1..Span(h) : next <= i /\ i <= next => SlotAt(h, i) \in Loose'
       /\ \A i, j \in 1..Span(h) : next <= i /\ i <= next /\ At(h, i).key = At(h, j).key => next <= j /\ j <= next
  <2>1. \A i \in 1..Span(h) : next <= i /\ i <= next => i = next
    BY <1>7
  <2> QED
    BY <1>7, <1>9, <2>1 DEF SlotAt
<1>12. session # None /\ g.gen = session => Leads(g, engine', Loose', {})
  <2> SUFFICES ASSUME session # None, g.gen = session PROVE Leads(g, engine', Loose', {})
    OBVIOUS
  <2>1. Chained(h, Loose') /\ AllMeet(h, engine, Loose')
    BY <1>4, LeadsOn DEF Live
  <2> DEFINE loose == Loose'
  <2>2. Chained(h, loose) /\ AllMeet(h, engine, loose)
    BY <2>1
  <2>3. /\ \A i \in 1..Span(h) : next <= i /\ i <= next => SlotAt(h, i) \in loose
        /\ \A i, j \in 1..Span(h) : next <= i /\ i <= next /\ At(h, i).key = At(h, j).key => next <= j /\ j <= next
    BY <1>11
  <2> HIDE DEF loose
  <2>4. Chained(g, loose) /\ AllMeet(g, engine, loose) /\ Grouped(g, engine)
    BY <1>1, <1>3, <1>4, <1>7, <1>10, <2>2, <2>3, RemovesChains
  <2> QED
    BY <2>4 DEF Leads, loose
<1>13. SceneInRange'
  BY DEF ChainInv, SceneInRange, InRange
<1> QED
  BY <1>5, <1>12, <1>13, FinishedChains

LEMMA SingleFailsChains ==
    EditInv /\ EditInv' /\ CacheInv /\ GroupInv /\ TargetInv /\ ChainInv /\ SingleFails => ChainInv'
<1> SUFFICES ASSUME EditInv, EditInv', CacheInv, GroupInv, TargetInv, ChainInv, SingleFails PROVE ChainInv'
  OBVIOUS
<1>1. /\ run # None /\ run.kind = "history" /\ ~run.grouped /\ run.step # None /\ UNCHANGED <<session, engine>>
      /\ Finished(IF session # run.gen THEN Current ELSE DiscardAction(Current, run.plan))
      /\ gaps' = gaps \cup {run.step.rec.slot}
      /\ unsure' = unsure \/ unsure' = unsure \cup {run.step.rec.slot}
      /\ orphans \subseteq orphans'
  BY DEF SingleFails, InFlight
<1>2. session = run.gen => Current = history
  BY <1>1, WorkFacts
<1>3. unsure' \subseteq gaps' /\ gaps \subseteq gaps' /\ run.step.rec.slot \in gaps'
  BY <1>1 DEF ChainInv
<1>4. Loose \subseteq Loose' /\ \A s \in AllSlots : Sent(s) => s \in Loose'
  BY <1>1, <1>3, StepLoose
<1>5. run.step.rec.slot \in Loose'
  <2>1. run.step.rec.slot \in AllSlots
    BY <1>1, StepSlot
  <2> QED
    BY <1>3, <2>1 DEF Loose, Followed
<1>6. CASE session # run.gen
  BY <1>1, <1>3, <1>6, GoneWorkChains
<1>7. CASE session = run.gen
  BY <1>1, <1>2, <1>3, <1>4, <1>5, <1>7, DropChains
<1> QED
  BY <1>6, <1>7

-----------------------------------------------------------------------------
(* What an accepted step makes of the values.                                *)

\* The step an answer has come to: where it is, and what the engine holds there.
LEMMA StepScene ==
    ASSUME EditInv, CacheInv, TargetInv, ChainInv, run # None, run.kind = "history", run.step # None,
           run.reply # None, run.reply.st = "accepted", session = run.gen
    PROVE  /\ Answered /\ Live /\ Scene = engine
           /\ \A s \in AllSlots : Sent(s) => s = run.step.rec.slot
           /\ IsCreate(run.step.rec) /\ run.plan.dir = "redo" => \A s \in AllSlots : ~Sent(s)
           /\ ~(IsCreate(run.step.rec) /\ run.plan.dir = "redo") /\ run.step.rec.slot \notin Loose =>
                engine[run.step.rec.slot] = IF run.plan.dir = "undo" THEN run.step.rec.old ELSE run.step.rec.new
<1> DEFINE rec == run.step.rec
           dir == run.plan.dir
<1>1. /\ dir \in Directions /\ run.gen = history.gen /\ run \in HistoryRuns
  BY WorkFacts
<1>2. Answered /\ Live
  <2>1. session # None
    BY <1>1, EditAssumption DEF HistoryRuns
  <2> QED
    BY <1>1, <2>1 DEF Answered, Live, InFlight
<1>3. ~IsSet /\ ~Expects
  BY DEF IsSet, Expects
<1>4. Scene = engine
  BY <1>3, SceneType DEF Scene
<1>5. rec \in Record /\ rec.slot \in AllSlots
  BY StepSlot
<1>6. /\ Request(run).slot = rec.slot
      /\ Request(run).op = "create" <=> IsCreate(rec) /\ dir = "redo"
      /\ Request(run).op = "delete" <=> IsCreate(rec) /\ dir = "undo"
      /\ Request(run).op = "set" <=> ~IsCreate(rec)
  BY <1>1, StepRequest
<1>7. IsCreate(rec) => rec.slot = <<rec.slot[1], "object">> /\ rec.old = "gone"
  BY <1>5, EditAssumption DEF IsCreate, Record, Slots
<1>8. \A s \in AllSlots : Sent(s) => s = rec.slot
  BY <1>6, <1>7 DEF Sent
<1>9. IsCreate(rec) /\ dir = "redo" => \A s \in AllSlots : ~Sent(s)
  BY <1>6 DEF Sent
<1>10. ASSUME ~(IsCreate(rec) /\ dir = "redo"), rec.slot \notin Loose
       PROVE  engine[rec.slot] = IF dir = "undo" THEN rec.old ELSE rec.new
  <2>1. StepTaken
    BY <1>2 DEF ChainInv
  <2>2. CASE IsCreate(rec)
    BY <1>1, <1>2, <1>6, <1>7, <1>10, <2>1, <2>2 DEF StepTaken, Directions
  <2>3. CASE ~IsCreate(rec)
    <3>1. Request(run).val = IF dir = "undo" THEN rec.old ELSE rec.new
      BY <2>3 DEF Request
    <3> QED
      BY <1>2, <1>6, <1>10, <2>1, <2>3, <3>1 DEF StepTaken
  <2> QED
    BY <2>2, <2>3
<1> QED
  BY <1>2, <1>4, <1>8, <1>9, <1>10

\* An entry of a group that is not named is alone in it.
LEMMA AloneUnnamed ==
    ASSUME NEW h \in HistoryStates, h.group = None, NEW k, Tidy(h, k), NEW n \in 1..Span(h)
    PROVE  \A i \in 1..Span(h) : At(h, i).key = At(h, n).key => At(h, i).named \/ i = n
<1> SUFFICES ASSUME NEW i \in 1..Span(h), At(h, i).key = At(h, n).key, ~At(h, i).named
             PROVE  i = n
  OBVIOUS
<1>1. Blocks(h) /\ ~InGroup(h, i)
  BY SpanType DEF Tidy, WalkFits
<1>2. Whole(h, i) /\ At(h, i).count = 1
  BY <1>1 DEF Blocks
<1>3. PICK a \in 1..Span(h) : Block(h, At(h, i).key, a, 1)
  BY <1>2 DEF Whole
<1>4. \A j \in 1..Span(h) : At(h, j).key = At(h, i).key <=> a <= j /\ j <= a + 1 - 1
  BY <1>3 DEF Block
<1> QED
  BY <1>4

\* What an accepted step makes of the walk.
LEMMA MovedChains ==
    ASSUME EditInv, CacheInv, TargetInv, ChainInv, run # None, run.kind = "history", run.step # None,
           run.reply # None, run.reply.st = "accepted", session = run.gen,
           ~Malformed(run.step.rec, run.plan.dir, run.reply), NEW g \in HistoryStates, g.group = None,
           Alike(history, g), Here(g) = Beyond(history, run.plan.dir),
           NEW k, Tidy(history, k), NEW loose, Loose \subseteq loose,
           ~(IsCreate(run.step.rec) /\ run.plan.dir = "redo") =>
             \A i \in 1..Span(history) : At(g, i).rec = At(history, i).rec,
           IsCreate(run.step.rec) /\ run.plan.dir = "redo" =>
             /\ Renames(history, g, run.step.key, run.step.rec.slot[1], run.reply.id)
             /\ \A i, j \in 1..Span(history) :
                  /\ At(history, i).key # run.step.key /\ Obj(history, i) = run.step.rec.slot[1]
                  /\ Obj(history, j) = run.step.rec.slot[1]
                  => SlotAt(history, j) \in loose
    PROVE  Leads(g, engine, loose, {})
<1> DEFINE h == history
           dir == run.plan.dir
           rec == run.step.rec
           next == Next1(history, run.plan.dir)
<1>1. /\ dir \in Directions /\ h \in HistoryStates /\ h.group = None
      /\ next \in 1..Span(h) /\ At(h, next) = run.step
  BY StepPlace
<1>2. /\ Answered /\ Live /\ Scene = engine
      /\ \A s \in AllSlots : Sent(s) => s = rec.slot
      /\ IsCreate(rec) /\ dir = "redo" => \A s \in AllSlots : ~Sent(s)
      /\ ~(IsCreate(rec) /\ dir = "redo") /\ rec.slot \notin Loose =>
           engine[rec.slot] = IF dir = "undo" THEN rec.old ELSE rec.new
  BY StepScene
<1>3. Chained(h, Loose) /\ AllMeet(h, engine, Loose \cup Away)
  BY <1>2 DEF ChainInv, Leads
<1>4. Chained(h, loose)
  BY <1>3, LooseChains
<1>5. loose \cup {} = loose
  OBVIOUS
<1>6. Span(g) = Span(h)
      /\ \A i \in 1..Span(h) : At(g, i).key = At(h, i).key /\ At(g, i).named = At(h, i).named
  BY DEF Alike, SameEntry
<1>7. CASE ~(IsCreate(rec) /\ dir = "redo")
  <2>1. SameRow(h, g)
    BY <1>6, <1>7 DEF SameRow
  <2>2. SlotAt(h, next) = rec.slot
    BY <1>1 DEF SlotAt
  <2>3. Loose \cup Away \subseteq loose \cup {SlotAt(h, next)}
    BY <1>2, <2>2 DEF Away
  <2>4. AllMeet(h, engine, loose \cup {SlotAt(h, next)})
    <3> DEFINE less == Loose \cup Away
               more == loose \cup {SlotAt(h, next)}
    <3>1. less \subseteq more /\ AllMeet(h, engine, less)
      BY <1>3, <2>3
    <3> HIDE DEF less, more, h
    <3>2. AllMeet(h, engine, more)
      BY <3>1, LooseChains
    <3> QED
      BY <3>2 DEF more
  <2>5. SlotAt(h, next) \notin loose =>
          engine[SlotAt(h, next)] = IF dir = "undo" THEN At(h, next).rec.old ELSE At(h, next).rec.new
    BY <1>1, <1>2, <1>7, <2>2
  <2>6. /\ Here(g) = Beyond(h, dir) /\ Next1(h, dir) \in 1..Span(h)
        /\ AllMeet(h, engine, loose \cup {SlotAt(h, Next1(h, dir))})
        /\ SlotAt(h, Next1(h, dir)) \notin loose =>
             engine[SlotAt(h, Next1(h, dir))] = IF dir = "undo" THEN At(h, Next1(h, dir)).rec.old
                                                ELSE At(h, Next1(h, dir)).rec.new
    BY <1>1, <2>4, <2>5
  <2>7. Chained(g, loose) /\ AllMeet(g, engine, loose) /\ Grouped(g, engine)
    BY <1>1, <1>4, <2>1, <2>6, MoveChains
  <2> QED
    BY <1>5, <2>7 DEF Leads
<1>8. CASE IsCreate(rec) /\ dir = "redo"
  <2> DEFINE old == rec.slot[1]
             new == run.reply.id
             key == run.step.key
  <2>1. new # None
    BY <1>8 DEF Malformed
  <2>2. /\ Request(run).op = "create"
    BY <1>1, <1>8, StepRequest
  <2>3. /\ engine[<<new, "object">>] = "alive"
        /\ \A i \in 1..Span(h) : Obj(h, i) # new
    BY <1>2, <2>1, <2>2 DEF TargetInv, AnswerReaches
  <2>4. \A a \in Attributes : engine[<<new, a>>] = Root
    BY <1>2, <2>1, <2>2 DEF CacheInv, CaptureInv, AnswerFits, InFlight
  <2>5. \A t \in Slots : t[1] = new => engine[t] = Root
    BY <2>4 DEF Slots
  <2>6. next = Here(h) + 1 /\ Here(g) = Here(h) + 1
    BY <1>8 DEF Next1, Beyond
  <2>7. /\ CreatesAt(h, Here(h) + 1, old) /\ At(h, Here(h) + 1).key = key /\ Here(h) + 1 \in 1..Span(h)
    BY <1>1, <1>8, <2>6 DEF CreatesAt, Obj
  <2>8. RecordsFit(h) /\ CreatesFirst(h)
    BY DEF TargetInv, Objective
  <2>9. SideBySide(h)
    BY <1>1, TidySideBySide
  <2>10. \A i \in 1..Span(h) : At(h, i).key = key => At(h, i).named \/ IsCreate(At(h, i).rec)
    <3>1. \A i \in 1..Span(h) : At(h, i).key = At(h, next).key => At(h, i).named \/ i = next
      BY <1>1, AloneUnnamed
    <3> QED
      BY <1>1, <1>8, <3>1
  <2>11. AllMeet(h, engine, loose)
    <3>1. Loose \cup Away \subseteq loose
      BY <1>2, <1>8 DEF Away
    <3> QED
      BY <1>3, <3>1, LooseChains
  <2>12. /\ Renames(h, g, key, old, new)
         /\ \A i, j \in 1..Span(h) :
              At(h, i).key # key /\ Obj(h, i) = old /\ Obj(h, j) = old => SlotAt(h, j) \in loose
    BY <1>8
  <2> HIDE DEF old, new, key, h
  <2>13. Chained(g, loose) /\ AllMeet(g, engine, loose) /\ Grouped(g, engine)
    BY <1>1, <1>4, <2>3, <2>5, <2>6, <2>7, <2>8, <2>9, <2>10, <2>11, <2>12, RecreateChains
  <2> QED
    BY <1>5, <2>13 DEF Leads
<1> QED
  BY <1>7, <1>8

-----------------------------------------------------------------------------
(* The answers to undo and redo.                                             *)

\* A record that is given a new object takes the same step on that object's slot.
LEMMA ReplacedSlot ==
    ASSUME NEW rec \in Record, NEW old, NEW new
    PROVE  LET r == ReplaceRecordIds(rec, old, new)
           IN  /\ r.old = rec.old /\ r.new = rec.new
               /\ r.slot = IF rec.slot[1] = old THEN <<new, rec.slot[2]>> ELSE rec.slot
<1> DEFINE slot == <<new, rec.slot[2]>>
           r == [rec EXCEPT !.slot = slot]
<1>1. ReplaceRecordIds(rec, old, new) = IF rec.slot[1] = old THEN r ELSE rec
  BY DEF ReplaceRecordIds
<1>2. slot = <<new, rec.slot[2]>>
  OBVIOUS
<1> HIDE DEF slot
<1>3. r.slot = slot /\ r.old = rec.old /\ r.new = rec.new
  BY DEF Record
<1> HIDE DEF r
<1> QED
  BY <1>1, <1>2, <1>3

LEMMA RedoneSlot ==
    ASSUME NEW rec \in Record, IsCreate(rec), NEW reply
    PROVE  LET r == UpdatedRecord(rec, "redo", reply)
           IN  r.old = rec.old /\ r.new = rec.new /\ r.slot = <<reply.id, rec.slot[2]>>
<1> DEFINE slot == <<reply.id, "object">>
           r == [rec EXCEPT !.slot = slot]
<1>1. UpdatedRecord(rec, "redo", reply) = r
  BY DEF UpdatedRecord
<1>2. slot = <<reply.id, rec.slot[2]>>
  BY DEF IsCreate
<1> HIDE DEF slot
<1>3. r.slot = slot /\ r.old = rec.old /\ r.new = rec.new
  BY DEF Record
<1> HIDE DEF r
<1> QED
  BY <1>1, <1>2, <1>3

\* The slots of an object that other groups' entries have lost are not followed.
LEMMA LeftSlots ==
    ASSUME history \in HistoryStates, history.group = None, RecordsFit(history), NEW rec, IsCreate(rec),
           run.plan.dir = "redo", LeftBehind(rec) \subseteq orphans',
           NEW i \in 1..Span(history), NEW j \in 1..Span(history),
           At(history, i).key # run.plan.key, Obj(history, i) = rec.slot[1], Obj(history, j) = rec.slot[1]
    PROVE  SlotAt(history, j) \in Loose'
<1>1. rec.slot[1] \in orphans'
  BY LeftAlone
<1>2. SlotAt(history, j) \in AllSlots /\ SlotAt(history, j)[1] = rec.slot[1]
  BY SlotOfRecord DEF SlotAt, Obj
<1> QED
  BY <1>1, <1>2 DEF Loose, Followed

LEMMA SingleAppliedChains ==
    EditInv /\ EditInv' /\ CacheInv /\ GroupInv /\ TargetInv /\ ChainInv /\ SingleApplied => ChainInv'
<1> SUFFICES ASSUME EditInv, EditInv', CacheInv, GroupInv, TargetInv, ChainInv, SingleApplied PROVE ChainInv'
  OBVIOUS
<1> DEFINE h == history
           dir == run.plan.dir
           g == MoveEntry(h, dir, run.reply)
<1>1. /\ run # None /\ run.kind = "history" /\ ~run.grouped /\ run.reply # None
      /\ run.reply.st = "accepted" /\ run.step # None
      /\ UNCHANGED <<session, engine, gaps, unsure>>
      /\ Finished(IF session # run.gen THEN Current
                  ELSE FinishActionSuccess(Current, run.plan, run.reply))
      /\ orphans' = orphans \cup LeftBehind(run.step.rec)
                      \cup IF Malformed(run.step.rec, dir, run.reply) THEN {run.step.rec.slot[1]} ELSE {}
  BY DEF SingleApplied, InFlight
<1>2. /\ run \in HistoryRuns /\ dir \in Directions /\ h.group = None /\ h \in HistoryStates
      /\ HistoryFits(h, seq) /\ run.gen = h.gen
      /\ session = run.gen => Current = history
  BY <1>1, WorkFacts DEF HistoryFits
<1>3. /\ run.reply \in Replies /\ orphans \subseteq orphans' /\ LeftBehind(run.step.rec) \subseteq orphans'
      /\ gaps \subseteq gaps' /\ unsure' \subseteq gaps'
  BY <1>1, <1>2 DEF HistoryRuns, ChainInv
<1>4. CASE session # run.gen
  BY <1>1, <1>3, <1>4, GoneWorkChains
<1>5. CASE session = run.gen
  <2>1. Finished(FinishActionSuccess(h, run.plan, run.reply))
    BY <1>1, <1>2, <1>5
  <2>2. /\ Stack(h, dir) # <<>> /\ run.step = Top(Stack(h, dir)) /\ run.step = run.plan.steps[1]
        /\ run.step.key = run.plan.key
        /\ OnTop(h, dir, run.step.id, run.plan.key) /\ Past(h) /\ Unique(h, seq)
    BY <1>1, StepFacts
  <2>3. CASE Malformed(run.step.rec, dir, run.reply)
    <3>1. Finished(DiscardAction(h, run.plan))
      BY <2>1, <2>2, <2>3 DEF FinishActionSuccess
    <3>2. IsCreate(run.step.rec) /\ run.step.rec.slot[1] \in orphans'
      BY <1>1, <2>3 DEF Malformed
    <3>3. run.step.rec.slot \in Loose'
      BY <1>1, <3>2, StepSlot DEF Loose, Followed
    <3>4. \/ run.reply # None /\ run.reply.st # "accepted"
          \/ run.step.rec.slot \in gaps'
          \/ IsCreate(run.step.rec) /\ run.step.rec.slot[1] \in orphans'
      BY <3>2
    <3>5. Loose \subseteq Loose' /\ \A s \in AllSlots : Sent(s) => s \in Loose'
      BY <1>1, <1>3, <3>4, StepLoose
    <3> QED
      BY <1>1, <1>3, <3>1, <3>3, <3>5, DropChains
  <2>4. CASE ~Malformed(run.step.rec, dir, run.reply)
    <3>1. FinishActionSuccess(h, run.plan, run.reply) = g
      BY <2>2, <2>4 DEF FinishActionSuccess
    <3>2. g.gen = h.gen
      BY <1>2, <1>3, <3>1, FinishActionSuccessFollows DEF Follows
    <3>3. /\ g \in HistoryStates /\ g.group = None /\ Alike(h, g) /\ Here(g) = Beyond(h, dir)
          /\ Next1(h, dir) \in 1..Span(h) /\ At(h, Next1(h, dir)) = run.step
          /\ \A i \in 1..Span(h) : At(g, i).rec = MovedRec(h, dir, run.reply, i)
      BY <1>2, <1>3, <2>2, MoveEntryWalks
    <3>4. Finished(g)
      BY <2>1, <3>1
    <3> HIDE DEF g
    <3>5. ~(IsCreate(run.step.rec) /\ dir = "redo") =>
            \A i \in 1..Span(h) : At(g, i).rec = At(h, i).rec
      BY <3>3 DEF MovedRec, UpdatedRecord
    <3>6. Tidy(h, None)
      BY <1>1, SingleHolds
    <3>7. RecordsFit(h)
      BY DEF TargetInv, Objective
    <3>8. ASSUME IsCreate(run.step.rec), dir = "redo"
          PROVE  Renames(h, g, run.step.key, run.step.rec.slot[1], run.reply.id)
      <4>1. PICK a \in 1..Span(h) : Block(h, run.step.key, a, 1)
        BY <1>1, SingleHolds DEF Accounts
      <4>2. \A i \in 1..Span(h) : At(h, i).key = run.step.key => i = a
        <5>1. \A i \in 1..Span(h) : At(h, i).key = run.step.key <=> a <= i /\ i <= a + 1 - 1
          BY <4>1 DEF Block
        <5> QED
          BY <5>1
      <4>3. \A i \in 1..Span(h) : At(h, i).key = run.step.key <=> i = Next1(h, dir)
        BY <3>3, <4>2
      <4>4. ASSUME NEW i \in 1..Span(h), i = Next1(h, dir)
            PROVE  /\ At(g, i).rec.old = At(h, i).rec.old /\ At(g, i).rec.new = At(h, i).rec.new
                   /\ Obj(h, i) = run.step.rec.slot[1]
                   /\ SlotAt(g, i) = <<run.reply.id, SlotAt(h, i)[2]>>
        <5>1. At(g, i).rec = UpdatedRecord(run.step.rec, "redo", run.reply)
          BY <3>3, <3>8, <4>4 DEF MovedRec
        <5>2. run.step.rec \in Record /\ At(h, i) = run.step
          BY <3>3, <3>7, <4>4 DEF RecordsFit
        <5> QED
          BY <3>8, <5>1, <5>2, RedoneSlot DEF Obj, SlotAt
      <4>5. ASSUME NEW i \in 1..Span(h), i # Next1(h, dir)
            PROVE  At(g, i).rec = At(h, i).rec
        BY <3>3, <4>5 DEF MovedRec
      <4> QED
        BY <3>3, <4>3, <4>4, <4>5 DEF Renames, SlotAt, Alike, SameEntry
    <3>9. ASSUME IsCreate(run.step.rec), dir = "redo",
                 NEW i \in 1..Span(h), NEW j \in 1..Span(h), At(h, i).key # run.step.key,
                 Obj(h, i) = run.step.rec.slot[1], Obj(h, j) = run.step.rec.slot[1]
          PROVE  SlotAt(h, j) \in Loose'
      BY <1>2, <1>3, <2>2, <3>7, <3>9, LeftSlots
    <3>10. Leads(g, engine, Loose', {})
      <4> DEFINE loose == Loose'
      <4>1. Loose \subseteq loose
        BY <1>3, SameLoose
      <4>2. IsCreate(run.step.rec) /\ run.plan.dir = "redo" =>
             /\ Renames(history, g, run.step.key, run.step.rec.slot[1], run.reply.id)
             /\ \A i, j \in 1..Span(history) :
                  /\ At(history, i).key # run.step.key /\ Obj(history, i) = run.step.rec.slot[1]
                  /\ Obj(history, j) = run.step.rec.slot[1]
                  => SlotAt(history, j) \in loose
        BY <3>8, <3>9
      <4> HIDE DEF loose
      <4>3. Leads(g, engine, loose, {})
        BY <1>1, <1>5, <2>4, <3>3, <3>5, <3>6, <4>1, <4>2, MovedChains
      <4> QED
        BY <4>3 DEF loose
    <3>11. SceneInRange'
      BY <1>1 DEF ChainInv, SceneInRange, InRange
    <3>12. Leads(g, engine', Loose', {})
      BY <1>1, <3>10
    <3> QED
      BY <1>1, <1>3, <3>4, <3>11, <3>12, FinishedChains
  <2> QED
    BY <2>3, <2>4
<1> QED
  BY <1>4, <1>5

LEMMA StepAppliedChains ==
    EditInv /\ EditInv' /\ CacheInv /\ GroupInv /\ TargetInv /\ ChainInv /\ StepApplied => ChainInv'
<1> SUFFICES ASSUME EditInv, EditInv', CacheInv, GroupInv, TargetInv, ChainInv, StepApplied PROVE ChainInv'
  OBVIOUS
<1> DEFINE h == history
           plan == run.plan
           g == FinishGroupStep(h, plan, run.reply)
<1>1. /\ run # None /\ run.kind = "history" /\ run.grouped /\ run.step # None /\ run.reply # None
      /\ run.reply.st = "accepted" /\ UNCHANGED <<session, engine, gaps, unsure>>
      /\ orphans' = orphans \cup LeftBehind(run.step.rec)
  BY DEF StepApplied, InFlight
<1>2. /\ run \in HistoryRuns /\ plan \in Plans /\ plan.dir \in Directions
      /\ h.group = None /\ h \in HistoryStates /\ HistoryFits(h, seq) /\ run.gen = h.gen
      /\ session = run.gen => Current = history
  BY <1>1, WorkFacts DEF HistoryFits
<1>3. /\ Unique(h, seq) /\ Past(h) /\ Stack(h, plan.dir) # <<>> /\ run.step = Top(Stack(h, plan.dir))
      /\ run.step.key = plan.key /\ OnTop(h, plan.dir, run.step.id, plan.key)
  BY <1>1, StepFacts
<1>4. /\ run.reply \in Replies /\ orphans \subseteq orphans' /\ LeftBehind(run.step.rec) \subseteq orphans'
      /\ gaps \subseteq gaps' /\ unsure' \subseteq gaps' /\ Loose \subseteq Loose'
  BY <1>1, <1>2, SameLoose DEF HistoryRuns, ChainInv
<1>5. \/ session # run.gen /\ Finished(Current)
      \/ /\ session = run.gen /\ Malformed(run.step.rec, plan.dir, run.reply)
         /\ Finished(StartPendingGroup(h, plan, run.completed, TRUE, FALSE))
      \/ /\ session = run.gen /\ ~Malformed(run.step.rec, plan.dir, run.reply)
         /\ history' = g
         /\ run' = [run EXCEPT !.completed = @ + 1, !.step = None, !.reply = None]
  BY <1>2, <1>3 DEF StepApplied
<1>6. CASE session # run.gen /\ Finished(Current)
  BY <1>1, <1>4, <1>6, GoneWorkChains
<1>7. CASE /\ session = run.gen /\ Malformed(run.step.rec, plan.dir, run.reply)
           /\ Finished(StartPendingGroup(h, plan, run.completed, TRUE, FALSE))
  <2> DEFINE k == StartPendingGroup(h, plan, run.completed, TRUE, FALSE)
  <2>1. SameMarks(h, k) /\ k.gen = h.gen /\ k.group = None
    <3>1. PICK unknown \in BOOLEAN, retry \in BOOLEAN : unknown = TRUE /\ retry = FALSE
      OBVIOUS
    <3>2. k = StartPendingGroup(h, plan, run.completed, unknown, retry)
      BY <3>1
    <3> HIDE DEF k
    <3> QED
      BY <1>2, <3>2, PendingMarks
  <2>2. Finished(k)
    BY <1>7
  <2>3. \A s \in AllSlots : ~Sent(s)
    <3>1. IsCreate(run.step.rec) /\ run.plan.dir = "redo"
      BY <1>7 DEF Malformed
    <3>2. session = run.gen
      BY <1>7
    <3> QED
      BY <1>1, <3>1, <3>2, StepScene
  <2> HIDE DEF k
  <2> QED
    BY <1>1, <1>4, <2>1, <2>2, <2>3, HaltChains
<1>8. CASE /\ session = run.gen /\ ~Malformed(run.step.rec, plan.dir, run.reply)
           /\ history' = g
           /\ run' = [run EXCEPT !.completed = @ + 1, !.step = None, !.reply = None]
  <2>1. /\ g \in HistoryStates /\ g.group = None /\ Alike(h, g) /\ Here(g) = Beyond(h, plan.dir)
        /\ Next1(h, plan.dir) \in 1..Span(h) /\ At(h, Next1(h, plan.dir)) = run.step
        /\ \A i \in 1..Span(h) : At(g, i).rec = NewRec(h, plan.dir, plan.key, run.reply, i)
    BY <1>2, <1>3, <1>4, FinishGroupStepWalks
  <2> HIDE DEF g
  <2>2. ~(IsCreate(run.step.rec) /\ plan.dir = "redo") =>
          \A i \in 1..Span(h) : At(g, i).rec = At(h, i).rec
    BY <2>1 DEF NewRec, MovedRec, UpdatedRecord
  <2>3. Tidy(h, plan.key) /\ RecordsFit(h)
    BY <1>1, GroupedFacts DEF TargetInv, Objective
  <2>4. ASSUME IsCreate(run.step.rec), plan.dir = "redo"
        PROVE  Renames(h, g, run.step.key, run.step.rec.slot[1], run.reply.id)
    <3> DEFINE old == run.step.rec.slot[1]
               new == run.reply.id
    <3>1. \A i \in 1..Span(h) : At(h, i).rec \in Record
      BY <2>3 DEF RecordsFit
    <3>2. ASSUME NEW i \in 1..Span(h), i = Next1(h, plan.dir)
          PROVE  /\ At(g, i).rec.old = At(h, i).rec.old /\ At(g, i).rec.new = At(h, i).rec.new
                 /\ Obj(h, i) = old /\ At(h, i).key = plan.key
                 /\ SlotAt(g, i) = <<new, SlotAt(h, i)[2]>>
      <4> DEFINE r == UpdatedRecord(run.step.rec, "redo", run.reply)
                 s == ReplaceRecordIds(r, old, new)
      <4>1. At(h, i) = run.step /\ run.step.rec \in Record
        BY <2>1, <3>1, <3>2
      <4>2. r.old = run.step.rec.old /\ r.new = run.step.rec.new /\ r.slot = <<new, run.step.rec.slot[2]>>
        BY <2>4, <4>1, RedoneSlot
      <4>3. At(g, i).rec = s
        BY <1>3, <2>1, <2>4, <3>2, <4>1 DEF NewRec, MovedRec
      <4>4. r \in Record
        <5>1. new \in Objects
          BY <1>4, <1>8, <2>4 DEF Malformed, Replies, AnyObject
        <5> QED
          BY <2>4, <4>1, <5>1, RedoneRecord
      <4> HIDE DEF r, new
      <4>5. s.old = r.old /\ s.new = r.new /\ s.slot = IF r.slot[1] = old THEN <<new, r.slot[2]>> ELSE r.slot
        BY <4>4, ReplacedSlot
      <4> HIDE DEF s
      <4>6. s.slot = <<new, run.step.rec.slot[2]>>
        BY <4>2, <4>5
      <4> QED
        BY <1>3, <4>1, <4>2, <4>3, <4>5, <4>6 DEF Obj, SlotAt
    <3>3. ASSUME NEW i \in 1..Span(h), i # Next1(h, plan.dir), At(h, i).key = plan.key
          PROVE  /\ At(g, i).rec.old = At(h, i).rec.old /\ At(g, i).rec.new = At(h, i).rec.new
                 /\ SlotAt(g, i) = IF Obj(h, i) = old THEN <<new, SlotAt(h, i)[2]>> ELSE SlotAt(h, i)
      <4>1. At(g, i).rec = ReplaceRecordIds(At(h, i).rec, old, new)
        BY <2>1, <2>4, <3>3 DEF NewRec, MovedRec
      <4> QED
        BY <3>1, <3>3, <4>1, ReplacedSlot DEF Obj, SlotAt
    <3>4. ASSUME NEW i \in 1..Span(h), At(h, i).key # plan.key
          PROVE  At(g, i).rec = At(h, i).rec
      <4>1. i # Next1(h, plan.dir)
        BY <1>3, <2>1, <3>4
      <4> QED
        BY <2>1, <3>4, <4>1 DEF NewRec, MovedRec
    <3>5. \A i \in 1..Span(h) : At(g, i).key = At(h, i).key /\ At(g, i).named = At(h, i).named
      BY <2>1 DEF Alike, SameEntry
    <3> QED
      BY <1>3, <2>1, <3>2, <3>3, <3>4, <3>5 DEF Renames, SlotAt, Alike
  <2>5. ASSUME IsCreate(run.step.rec), plan.dir = "redo",
               NEW i \in 1..Span(h), NEW j \in 1..Span(h), At(h, i).key # run.step.key,
               Obj(h, i) = run.step.rec.slot[1], Obj(h, j) = run.step.rec.slot[1]
        PROVE  SlotAt(h, j) \in Loose'
    BY <1>2, <1>3, <1>4, <2>3, <2>5, LeftSlots
  <2>6. Leads(g, engine, Loose', {})
    <3> DEFINE loose == Loose'
    <3>1. Loose \subseteq loose
      BY <1>4
    <3>2. IsCreate(run.step.rec) /\ run.plan.dir = "redo" =>
           /\ Renames(history, g, run.step.key, run.step.rec.slot[1], run.reply.id)
           /\ \A i, j \in 1..Span(history) :
                /\ At(history, i).key # run.step.key /\ Obj(history, i) = run.step.rec.slot[1]
                /\ Obj(history, j) = run.step.rec.slot[1]
                => SlotAt(history, j) \in loose
      BY <2>4, <2>5
    <3> HIDE DEF loose
    <3>3. Leads(g, engine, loose, {})
      BY <1>1, <1>8, <2>1, <2>2, <2>3, <3>1, <3>2, MovedChains
    <3> QED
      BY <3>3 DEF loose
  <2>7. run'.reply = None /\ run'.kind = "history"
    BY <1>1, <1>2, <1>8 DEF HistoryRuns
  <2>8. SceneInRange'
    BY <1>1 DEF ChainInv, SceneInRange, InRange
  <2>9. Leads(history', engine', Loose', {}) /\ OldFits'
    BY <1>1, <1>8, <2>6, <2>7 DEF OldFits, IsSet
  <2> QED
    BY <1>4, <2>7, <2>8, <2>9, ChainsRest
<1> QED
  BY <1>5, <1>6, <1>7, <1>8

\* Every step takes the engine along the walk of the values.
THEOREM ChainInvariance == Spec => [](EditInv /\ CacheInv /\ GroupInv /\ TargetInv /\ ChainInv)
<1>1. EditInv /\ CacheInv /\ GroupInv /\ TargetInv /\ ChainInv /\ EditInv' /\ [Next]_vars => ChainInv'
  <2> SUFFICES ASSUME EditInv, CacheInv, GroupInv, TargetInv, ChainInv, EditInv', [Next]_vars PROVE ChainInv'
    OBVIOUS
  <2>1. CASE \/ (\E slot \in UiSlots : CaptureValue(slot))
             \/ (\E dir \in UiDirections : CaptureCursor(dir))
             \/ UNCHANGED vars
    <3>1. UNCHANGED <<session, engine, history, run, aux>>
      BY <2>1 DEF CaptureValue, CaptureCursor, vars, aux
    <3> QED
      BY <3>1, SameChainInv
  <2>2. CASE \/ Disconnect \/ Connect \/ SessionChanged \/ EditRefused
    BY <2>2, DisconnectChains, ConnectChains, SessionChangedChains, EditRefusedChains
  <2>3. CASE \E slot \in UiSlots, val \in Values : SetFromUi(slot, val)
    BY <2>3, SetFromUiChains
  <2>4. CASE \/ \E slot \in Slots, val \in Values, token \in {None} \cup 1..MaxSequence :
                  SetFromMcp(slot, val, token)
             \/ \E src \in {"ui", "mcp"}, token \in {None} \cup 1..MaxSequence : Create(src, token)
             \/ \E src \in {"ui", "mcp"}, o \in Objects : Delete(src, o)
             \/ \E src \in {"ui", "mcp"} : OtherEdit(src)
    BY <2>4, EditsChains
  <2>5. CASE EngineAccepts \/ EngineRefuses \/ EditAnswered \/ EditUnanswered
    BY <2>5, EngineAcceptsChains, EngineRefusesChains, EditAnsweredChains, EditUnansweredChains
  <2>6. CASE HistoryFromUi \/ \E dir \in Directions : HistoryFromMcp(dir)
    BY <2>6, StartHistoryChains DEF HistoryFromUi, HistoryFromMcp
  <2>7. CASE StartRetry \/ SendStep \/ GroupDone
    BY <2>7, StartRetryChains, SendStepChains, GroupDoneChains
  <2>8. CASE SingleApplied \/ SingleFails
    BY <2>8, SingleAppliedChains, SingleFailsChains
  <2>9. CASE StepApplied \/ StepFails
    BY <2>9, StepAppliedChains, StepFailsChains
  <2>10. CASE Begin \/ CloseGroup \/ Discard \/ AuthRevoked
    BY <2>10, BeginChains, CloseGroupChains, DiscardChains, AuthRevokedChains
  <2> QED
    BY <2>1, <2>2, <2>3, <2>4, <2>5, <2>6, <2>7, <2>8, <2>9, <2>10 DEF Next
<1> QED
  BY <1>1, InitChains, TargetInvariance, PTL DEF Spec

-----------------------------------------------------------------------------
(* The cache holds no more than it may, and values of the engine only.     *)

Held(h) ==
    /\ IsFiniteSet(Cached(h)) /\ Cardinality(Cached(h)) <= MaxCorrections
    /\ \A s \in Slots : h.corr[s] # None => h.corr[s].rev # 0 /\ h.corr[s].val \in Values

\* A cache that has lost some of it.
LEMMA FewerHeld ==
    ASSUME NEW h, Held(h), NEW g, \A s \in Slots : g.corr[s] = h.corr[s] \/ g.corr[s] = None
    PROVE  Held(g)
<1> DEFINE C == Cached(h)
           D == Cached(g)
<1>1. D \subseteq C
  BY DEF Cached
<1>2. IsFiniteSet(C) /\ Cardinality(C) <= MaxCorrections
  BY DEF Held
<1>3. \A s \in Slots : g.corr[s] # None => g.corr[s].rev # 0 /\ g.corr[s].val \in Values
  BY DEF Held
<1> HIDE DEF C, D
<1>4. IsFiniteSet(D) /\ Cardinality(D) <= Cardinality(C)
  BY <1>1, <1>2, FS_Subset
<1>5. Cardinality(C) \in Nat /\ Cardinality(D) \in Nat
  BY <1>2, <1>4, FS_CardinalityType
<1> QED
  BY <1>2, <1>3, <1>4, <1>5, EditAssumption DEF Held, D

LEMMA EmptyHeld ==
    ASSUME NEW g, \A s \in Slots : g.corr[s] = None
    PROVE  Held(g)
<1>1. Cached(g) = {}
  BY DEF Cached
<1> QED
  BY <1>1, FS_EmptySet, EditAssumption DEF Held

\* A full cache makes room.
LEMMA RoomHeld ==
    ASSUME NEW h \in HistoryStates, Held(h), ~(Cardinality(Cached(h)) < MaxCorrections),
           NEW g \in HistoryStates,
           \A s \in Slots : g.corr[s] = IF s = Oldest(h) THEN None ELSE h.corr[s]
    PROVE  Held(g) /\ Cardinality(Cached(g)) < MaxCorrections
<1> DEFINE old == Oldest(h)
           C == Cached(h)
           D == Cached(g)
<1>1. old \in C
  BY OldestIsCached
<1>2. D = C \ {old}
  BY DEF Cached
<1>3. Held(g)
  BY FewerHeld
<1>4. IsFiniteSet(C) /\ Cardinality(C) <= MaxCorrections
  BY DEF Held
<1> HIDE DEF old, C, D
<1>5. Cardinality(D) = Cardinality(C) - 1 /\ Cardinality(C) \in Nat
  BY <1>1, <1>2, <1>4, FS_RemoveElement, FS_CardinalityType
<1>6. Cardinality(D) < MaxCorrections
  BY <1>4, <1>5, EditAssumption
<1> QED
  BY <1>3, <1>6 DEF D

LEMMA InsertCorrectionHeld ==
    ASSUME NEW h \in HistoryStates, Held(h), h.applied # 0, NEW slot, NEW val \in Values
    PROVE  Held(InsertCorrection(h, slot, val))
<1> DEFINE rest == [h EXCEPT !.corr[slot] = None]
           old == Oldest(rest)
           room == IF Cardinality(Cached(rest)) < MaxCorrections THEN rest
                   ELSE MarkLostThrough([rest EXCEPT !.corr[old] = None], rest.corr[old].rev)
           c == [rev |-> h.applied, val |-> val]
           g == InsertCorrection(h, slot, val)
<1>1. g = IF val \in Oversized THEN MarkLostThrough(rest, h.applied)
          ELSE [room EXCEPT !.corr[slot] = c]
  BY DEF InsertCorrection
<1>2. /\ c \in [rev : Nat, val : AnyValue] /\ h.applied \in Nat
      /\ c.rev # 0 /\ c.val \in Values
  BY DEF HistoryStates, AnyValue
<1>3. /\ rest \in HistoryStates
      /\ \A t \in Slots : rest.corr[t] = IF t = slot THEN None ELSE h.corr[t]
  BY SlotChange DEF SameButCorrections, HistoryStates
<1> HIDE DEF rest, c
<1>4. Held(rest)
  BY <1>3, FewerHeld
<1>5. CASE val \in Oversized
  <2>1. g.corr = rest.corr
    BY <1>1, <1>3, <1>5 DEF MarkLostThrough, HistoryStates
  <2> HIDE DEF g
  <2>2. Held(g)
    BY <1>4, <2>1, FewerHeld
  <2> QED
    BY <2>2 DEF g
<1>6. CASE val \notin Oversized
  <2>1. room \in HistoryStates /\ Held(room) /\ Cardinality(Cached(room)) < MaxCorrections
    <3>1. CASE Cardinality(Cached(rest)) < MaxCorrections
      BY <1>3, <1>4, <3>1
    <3>2. CASE ~(Cardinality(Cached(rest)) < MaxCorrections)
      <4> DEFINE dr == [rest EXCEPT !.corr[old] = None]
                 rev == rest.corr[old].rev
      <4>1. rev \in Nat
        BY <1>3, <3>2, OldestIsCached
      <4>2. room = MarkLostThrough(dr, rev)
        BY <3>2
      <4> HIDE DEF room
      <4>3. /\ dr \in HistoryStates
            /\ \A t \in Slots : dr.corr[t] = IF t = old THEN None ELSE rest.corr[t]
        <5> HIDE DEF old
        <5> QED
          BY <1>3, SlotChange DEF SameButCorrections, HistoryStates
      <4> HIDE DEF dr, rev
      <4>4. room \in HistoryStates /\ room.corr = dr.corr
        BY <4>1, <4>2, <4>3, LostThrough DEF SameButCorrections, MarkLostThrough, HistoryStates
      <4>5. \A t \in Slots : room.corr[t] = IF t = Oldest(rest) THEN None ELSE rest.corr[t]
        BY <4>3, <4>4
      <4> QED
        BY <1>3, <1>4, <3>2, <4>4, <4>5, RoomHeld
    <3> QED
      BY <3>1, <3>2
  <2> HIDE DEF room, old
  <2>2. \A t \in Slots : g.corr[t] = IF t = slot THEN c ELSE room.corr[t]
    BY <1>1, <1>2, <1>6, <2>1, SlotChange DEF SameButCorrections, HistoryStates
  <2> HIDE DEF g
  <2> DEFINE C == Cached(room)
             D == Cached(g)
             E == C \cup {slot}
  <2>3. D \subseteq E
    BY <2>2 DEF Cached
  <2>4. IsFiniteSet(C) /\ Cardinality(C) < MaxCorrections
    BY <2>1 DEF Held
  <2>5. \A s \in Slots : g.corr[s] # None => g.corr[s].rev # 0 /\ g.corr[s].val \in Values
    BY <1>2, <2>1, <2>2 DEF Held
  <2> HIDE DEF C, D
  <2>6. IsFiniteSet(E) /\ Cardinality(E) <= Cardinality(C) + 1 /\ Cardinality(C) \in Nat
    <3>1. IsFiniteSet(C \cup {slot})
            /\ Cardinality(C \cup {slot}) = IF slot \in C THEN Cardinality(C) ELSE Cardinality(C) + 1
      BY <2>4, FS_AddElement, Zenon
    <3>2. Cardinality(C) \in Nat
      BY <2>4, FS_CardinalityType
    <3>3. IsFiniteSet(E) /\ Cardinality(E) = IF slot \in C THEN Cardinality(C) ELSE Cardinality(C) + 1
      BY <3>1
    <3> HIDE DEF E
    <3> QED
      BY <3>2, <3>3
  <2> HIDE DEF E
  <2>7. IsFiniteSet(D) /\ Cardinality(D) <= Cardinality(E) /\ Cardinality(D) \in Nat
          /\ Cardinality(E) \in Nat
    BY <2>3, <2>6, FS_Subset, FS_CardinalityType
  <2>8. Cardinality(D) <= MaxCorrections
    BY <2>4, <2>6, <2>7, EditAssumption
  <2> QED
    BY <2>5, <2>7, <2>8 DEF Held, D, g
<1> QED
  BY <1>5, <1>6

LEMMA RemoveObjectHeld ==
    ASSUME NEW h \in HistoryStates, Held(h), NEW o
    PROVE  Held(RemoveObject(h, o))
<1> DEFINE corr == [s \in Slots |-> IF s[1] = o THEN None ELSE h.corr[s]]
           g == RemoveObject(h, o)
<1>1. g = h \/ g = MarkLostThrough([h EXCEPT !.corr = corr], h.applied)
  BY DEF RemoveObject, HistoryStates
<1>2. \A t \in Slots : corr[t] = h.corr[t] \/ corr[t] = None
  OBVIOUS
<1> HIDE DEF corr, g
<1>3. g.corr = h.corr \/ g.corr = corr
  BY <1>1 DEF MarkLostThrough, HistoryStates
<1>4. \A t \in Slots : g.corr[t] = h.corr[t] \/ g.corr[t] = None
  BY <1>2, <1>3
<1>5. Held(g)
  BY <1>4, FewerHeld
<1> QED
  BY <1>5 DEF g

LEMMA InsertParentHeld ==
    ASSUME NEW h \in HistoryStates, Held(h), h.applied # 0, NEW o
    PROVE  Held(InsertParent(h, o))
<1>1. Root \in Values
  BY EditAssumption
<1> DEFINE slot == <<o, "parent">>
<1>2. InsertParent(h, o) = h \/ InsertParent(h, o) = InsertCorrection(h, slot, Root)
  BY DEF InsertParent
<1> HIDE DEF slot
<1>3. Held(InsertCorrection(h, slot, Root))
  BY <1>1, InsertCorrectionHeld
<1> QED
  BY <1>2, <1>3

\* What an undone or redone record does to it.
LEMMA UpdateActionCorrectionsHeld ==
    ASSUME NEW h \in HistoryStates, Held(h), h.applied # 0, NEW old, NEW new, NEW dir, NEW reply,
           ~IsCreate(old) => reply.val \in Values
    PROVE  Held(UpdateActionCorrections(h, old, new, dir, reply))
<1> DEFINE k == RemoveObject(h, old.slot[1])
<1>1. k \in HistoryStates /\ k.applied = h.applied /\ Held(k)
  BY RemoveObjectFits, RemoveObjectHeld DEF SameButCorrections
<1>2. CASE ~IsCreate(old)
  <2>1. UpdateActionCorrections(h, old, new, dir, reply) = InsertCorrection(h, old.slot, reply.val)
    BY <1>2 DEF UpdateActionCorrections
  <2> QED
    BY <1>2, <2>1, InsertCorrectionHeld
<1>3. CASE IsCreate(old)
  <2>1. \/ UpdateActionCorrections(h, old, new, dir, reply) = k
        \/ UpdateActionCorrections(h, old, new, dir, reply) = InsertParent(k, new.slot[1])
    BY <1>3 DEF UpdateActionCorrections
  <2> HIDE DEF k
  <2> QED
    BY <1>1, <2>1, InsertParentHeld
<1> QED
  BY <1>2, <1>3

LEMMA SameHeld ==
    ASSUME NEW h, Held(h), NEW g, g.corr = h.corr
    PROVE  Held(g)
BY FewerHeld

\* An entry that changes stacks.
LEMMA MoveEntryHeld ==
    ASSUME NEW h \in HistoryStates, Held(h), NEW dir \in Directions, Stack(h, dir) # <<>>,
           NEW reply \in Replies,
           ~IsCreate(Top(Stack(h, dir)).rec) => reply.val \in Values
    PROVE  Held(MoveEntry(h, dir, reply))
<1> DEFINE entry == Top(Stack(h, dir))
           rec == UpdatedRecord(entry.rec, dir, reply)
           h0 == SetStack(h, dir, Pop(Stack(h, dir)))
           h1 == [h0 EXCEPT !.applied = @ + 1]
           h2 == UpdateActionCorrections(h1, entry.rec, rec, dir, reply)
           e == [entry EXCEPT !.rec = rec]
           pushed == Append(Stack(h2, Opposite(dir)), e)
           h3 == SetStack(h2, Opposite(dir), pushed)
<1>1. MoveEntry(h, dir, reply) = Bump(h3)
  BY DEF MoveEntry
<1>2. /\ Stack(h, dir) \in Seq(AnyEntry) /\ Opposite(dir) \in Directions
      /\ Pop(Stack(h, dir)) \in Seq(AnyEntry)
  <2>1. Stack(h, dir) \in Seq(AnyEntry)
    BY DEF Stack, HistoryStates
  <2>2. Pop(Stack(h, dir)) \in Seq(AnyEntry)
    BY <2>1, PopFacts
  <2> QED
    BY <2>1, <2>2 DEF Opposite, Directions
<1>3. entry \in AnyEntry
  <2>1. Len(Stack(h, dir)) \in 1..Len(Stack(h, dir))
    BY <1>2
  <2> QED
    BY <1>2, <2>1 DEF Top
<1>4. rec \in AnyRecord
  BY <1>3, UpdatedRecordType DEF AnyEntry
<1> DEFINE old == entry.rec
<1>5. ~IsCreate(old) => reply.val \in Values
  OBVIOUS
<1> HIDE DEF rec
<1>6. e \in AnyEntry
  BY <1>3, <1>4, NewRecordType DEF AnyEntry
<1> HIDE DEF e, old
<1>7. h0 \in HistoryStates /\ h0.corr = h.corr
  BY <1>2, SetStackStacks DEF SameCache
<1> HIDE DEF h0
<1>8. h1 \in HistoryStates /\ h1.corr = h.corr /\ h1.applied # 0
  <2>1. h0.applied \in Nat /\ h0.applied + 1 \in Nat /\ h0.applied + 1 # 0
    BY <1>7 DEF HistoryStates
  <2> DEFINE n == h0.applied + 1
  <2>2. h1 = [h0 EXCEPT !.applied = n]
    OBVIOUS
  <2> HIDE DEF n, h1
  <2>3. h1 \in HistoryStates /\ h1.corr = h0.corr /\ h1.applied = n
    BY <1>7, <2>1, <2>2 DEF HistoryStates, n
  <2> QED
    BY <1>7, <2>1, <2>3 DEF n
<1> HIDE DEF h1
<1>9. h2 \in HistoryStates /\ Held(h2)
  <2>1. h2 = UpdateActionCorrections(h1, old, rec, dir, reply)
    BY DEF old
  <2>2. Held(h1)
    BY <1>8, SameHeld
  <2> HIDE DEF h2
  <2> QED
    BY <1>5, <1>8, <2>1, <2>2, UpdateActionCorrectionsHeld, UpdateActionCorrectionsFits
       DEF SameButCorrections
<1> HIDE DEF h2
<1>10. pushed \in Seq(AnyEntry)
  <2>1. Stack(h2, Opposite(dir)) \in Seq(AnyEntry)
    BY <1>2, <1>9 DEF Stack, HistoryStates
  <2> QED
    BY <1>6, <2>1
<1> HIDE DEF pushed
<1>11. h3 \in HistoryStates /\ h3.corr = h2.corr
  BY <1>2, <1>9, <1>10, SetStackStacks DEF SameCache
<1> HIDE DEF h3
<1>12. Bump(h3).corr = h2.corr
  BY <1>11 DEF Bump, HistoryStates
<1> QED
  BY <1>1, <1>9, <1>12, SameHeld

LEMMA FinishGroupStepHeld ==
    ASSUME NEW h, NEW n, HistoryFits(h, n), h.group = None, Held(h), NEW plan \in Plans,
           Stack(h, plan.dir) # <<>>, NEW reply \in Replies,
           ~IsCreate(Top(Stack(h, plan.dir)).rec) => reply.val \in Values
    PROVE  Held(FinishGroupStep(h, plan, reply))
<1> DEFINE rec == Top(Stack(h, plan.dir)).rec
           moved == MoveEntry(h, plan.dir, reply)
           u == RemapGroupIds(moved.undo, plan.key, rec.slot[1], reply.id)
           r == RemapGroupIds(moved.redo, plan.key, rec.slot[1], reply.id)
           remap == IF IsCreate(rec) /\ plan.dir = "redo"
                      THEN [moved EXCEPT
                              !.undo = RemapGroupIds(@, plan.key, rec.slot[1], reply.id),
                              !.redo = RemapGroupIds(@, plan.key, rec.slot[1], reply.id)]
                      ELSE moved
           g == FinishGroupStep(h, plan, reply)
<1>1. plan.dir \in Directions /\ h \in HistoryStates
  BY DEF Plans, HistoryFits
<1>2. moved \in HistoryStates
  BY <1>1, MoveEntryFollows DEF Follows, HistoryFits
<1>3. Held(moved)
  BY <1>1, MoveEntryHeld
<1>4. g = IF h.pending = None \/ h.pending.key # plan.key THEN remap
          ELSE IF HasGroupOnStack(remap, h.pending.dir, plan.key)
            THEN [remap EXCEPT !.pending.completed = @ + 1]
            ELSE [remap EXCEPT !.pending = None]
  BY DEF FinishGroupStep
<1> HIDE DEF moved, rec, g
<1>5. remap = moved \/ remap = [moved EXCEPT !.undo = u, !.redo = r]
  BY <1>2 DEF HistoryStates
<1> HIDE DEF u, r, remap
<1>6. remap.corr = moved.corr /\ DOMAIN remap = DOMAIN moved
  BY <1>2, <1>5 DEF HistoryStates
<1>7. g.corr = moved.corr
  BY <1>2, <1>4, <1>6 DEF HistoryStates
<1>8. Held(g)
  BY <1>3, <1>7, SameHeld
<1> QED
  BY <1>8 DEF g

LEMMA FinishActionSuccessHeld ==
    ASSUME NEW h \in HistoryStates, Held(h), NEW plan \in Plans,
           Stack(h, plan.dir) # <<>>, plan.steps[1] = Top(Stack(h, plan.dir)),
           NEW reply \in Replies,
           ~IsCreate(plan.steps[1].rec) => reply.val \in Values
    PROVE  Held(FinishActionSuccess(h, plan, reply))
<1> DEFINE d == DiscardAction(h, plan)
           s == Pop(Stack(h, plan.dir))
           k == SetStack(h, plan.dir, s)
<1>1. plan.dir \in Directions /\ s \in Seq(AnyEntry)
  <2>1. plan.dir \in Directions
    BY DEF Plans
  <2>2. Stack(h, plan.dir) \in Seq(AnyEntry)
    BY <2>1 DEF Stack, HistoryStates
  <2> QED
    BY <2>1, <2>2, PopFacts
<1>2. d = h \/ d = Bump(k)
  BY DEF DiscardAction
<1> HIDE DEF s
<1>3. k \in HistoryStates /\ k.corr = h.corr
  BY <1>1, SetStackStacks DEF SameCache
<1> HIDE DEF k, d
<1>4. d.corr = h.corr
  BY <1>2, <1>3 DEF Bump, HistoryStates
<1>5. Held(d)
  BY <1>4, SameHeld
<1>6. Held(MoveEntry(h, plan.dir, reply))
  BY <1>1, MoveEntryHeld
<1> QED
  BY <1>5, <1>6 DEF FinishActionSuccess, d

LEMMA RecordSuccessHeld ==
    ASSUME NEW h, NEW n \in Nat, HistoryFits(h, n), NEW edit \in EditRuns, EditFits(h, edit, n),
           Unique(h, edit.seq), NEW reply \in Replies, Held(h),
           edit.op = "set" => edit.slot \in Slots /\ reply.val \in Values
    PROVE  Held(RecordSuccess(h, edit, reply))
<1> DEFINE applied == [h EXCEPT !.applied = @ + 1]
           counted == Bump(applied)
           set == InsertCorrection(counted, edit.slot, reply.val)
           setRec == [slot |-> edit.slot, old |-> edit.old, new |-> reply.val]
           newRec == [slot |-> <<reply.id, "object">>, old |-> "gone", new |-> "alive"]
           parent == InsertParent(counted, reply.id)
           cleared == [counted EXCEPT !.corr = NoCorrections, !.lost = counted.applied,
                                      !.undo = <<>>, !.redo = <<>>]
           g == RecordSuccess(h, edit, reply)
<1>1. h \in HistoryStates /\ h.applied + 1 \in Nat /\ h.rev + 1 \in Nat /\ edit.seq \in Nat
        /\ edit.seq <= n
  BY EditAssumption DEF HistoryFits, HistoryStates, EditFits
<1>2. \/ g = cleared /\ edit.op = "delete"
      \/ g = set /\ edit.op = "set"
      \/ g = PushRecord(set, edit, setRec) /\ edit.op = "set" /\ edit.old # None
      \/ g = counted /\ edit.op \in {"create", "other"}
      \/ g = PushRecord(parent, edit, newRec) /\ edit.op = "create" /\ reply.id # None
  <2> USE DEF EditRuns
  <2>1. edit.op \in {"set", "create", "delete", "other"}
    OBVIOUS
  <2> HIDE DEF EditRuns, applied, set, setRec, newRec, parent
  <2> QED
    BY <2>1 DEF RecordSuccess, applied, set, setRec, newRec, parent
<1>3. /\ counted \in HistoryStates /\ counted.undo = h.undo /\ counted.redo = h.redo
      /\ counted.group = h.group /\ counted.applied = h.applied + 1 /\ counted.corr = h.corr
      /\ counted.lost = h.lost /\ counted.gen = h.gen /\ counted.pending = h.pending
  BY <1>1 DEF Bump, HistoryStates
<1> HIDE DEF counted
<1>4. HistoryFits(counted, n) /\ Unique(counted, edit.seq) /\ Held(counted) /\ counted.applied # 0
  <2>1. HistoryFits(counted, n) /\ Unique(counted, edit.seq)
    BY <1>3, UniqueSame DEF HistoryFits, GroupFits
  <2>2. h.applied \in Nat
    BY <1>1 DEF HistoryStates
  <2> QED
    BY <1>3, <2>1, <2>2, SameHeld
\* A history that differs from counted in the cache alone, with a record more.
<1>5. ASSUME NEW k, SameButCorrections(counted, k), NEW rec \in AnyRecord, Held(k)
      PROVE  Held(PushRecord(k, edit, rec))
  <2>1. HistoryFits(k, n) /\ k \in HistoryStates /\ k.gen = h.gen /\ k.group = h.group
          /\ k.pending = h.pending /\ k.undo = counted.undo /\ k.redo = counted.redo
    BY <1>3, <1>4, <1>5, CorrectionsFit DEF SameButCorrections
  <2>2. EditFits(k, edit, n) /\ Unique(k, edit.seq)
    BY <1>3, <1>4, <2>1, UniqueSame DEF EditFits
  <2>3. SameCache(k, PushRecord(k, edit, rec))
    BY <2>1, <2>2, PushRecordUnique
  <2> QED
    BY <1>5, <2>3, SameHeld DEF SameCache
<1>6. CASE g = cleared
  <2>1. cleared.corr = NoCorrections
    BY <1>3 DEF HistoryStates
  <2> HIDE DEF cleared, g
  <2>2. \A s \in Slots : g.corr[s] = None
    BY <1>6, <2>1 DEF NoCorrections
  <2>3. Held(g)
    BY <2>2, EmptyHeld
  <2> QED
    BY <2>3 DEF g
<1>7. CASE edit.op = "set"
  <2>1. SameButCorrections(counted, set) /\ Held(set)
    BY <1>3, <1>4, <1>7, InsertCorrectionFits, InsertCorrectionHeld DEF Replies
  <2>2. edit.old # None => setRec \in AnyRecord
    BY <1>7 DEF EditRuns, AnyValue, AnyRecord, Slots, AnyObject
  <2> DEFINE s == set
             r == setRec
  <2>3. g = s \/ (g = PushRecord(s, edit, r) /\ edit.old # None)
    BY <1>2, <1>7
  <2> HIDE DEF set, setRec, s, r, g
  <2>4. SameButCorrections(counted, s) /\ Held(s) /\ (edit.old # None => r \in AnyRecord)
    BY <2>1, <2>2 DEF s, r
  <2>5. Held(g)
    BY <1>5, <2>3, <2>4
  <2> QED
    BY <2>5 DEF g
<1>8. CASE g = counted
  BY <1>4, <1>8
<1>9. CASE g = PushRecord(parent, edit, newRec) /\ edit.op = "create" /\ reply.id # None
  <2>1. newRec \in AnyRecord
    BY DEF Replies, AnyRecord
  <2>2. SameButCorrections(counted, parent) /\ Held(parent)
    BY <1>3, <1>4, InsertParentFits, InsertParentHeld
  <2> DEFINE p == parent
             r == newRec
  <2>3. g = PushRecord(p, edit, r)
    BY <1>9
  <2> HIDE DEF parent, newRec, p, r, g
  <2>4. SameButCorrections(counted, p) /\ Held(p) /\ r \in AnyRecord
    BY <2>1, <2>2 DEF p, r
  <2>5. Held(g)
    BY <1>5, <2>3, <2>4
  <2> QED
    BY <2>5 DEF g
<1> HIDE DEF set, setRec, newRec, parent, cleared, g
<1> QED
  BY <1>2, <1>6, <1>7, <1>8, <1>9 DEF g

\* A history with the cache of another.
Caches(h, g) == DOMAIN g = DOMAIN h /\ g.corr = h.corr

\* What does not record an answer leaves the cache alone.
LEMMA CloseCaches ==
    ASSUME NEW h, DOMAIN h = DOMAIN EmptyHistory(None, 0)
    PROVE  /\ Caches(h, CloseActiveGroup(h))
           /\ \A token : Caches(h, CloseGroupUnless(h, token)) /\ Caches(h, BeginGroup(h, token))
<1>1. DOMAIN h = {"gen", "rev", "applied", "undo", "redo", "corr", "lost", "unsup", "pending", "group"}
  BY DEF EmptyHistory
<1>2. Caches(h, CloseActiveGroup(h))
  <2>1. CASE h.group = None
    BY <2>1 DEF CloseActiveGroup, Caches
  <2>2. CASE h.group # None
    <3> DEFINE total == Len(h.group.entries)
               u == h.undo \o [i \in 1..total |-> [h.group.entries[i] EXCEPT !.count = total]]
    <3>1. CloseActiveGroup(h) = Bump([h EXCEPT !.undo = u, !.group = None])
      BY <1>1, <2>2 DEF CloseActiveGroup
    <3> HIDE DEF u
    <3> QED
      BY <1>1, <3>1 DEF Caches, Bump
  <2> QED
    BY <2>1, <2>2
<1>3. ASSUME NEW token PROVE Caches(h, CloseGroupUnless(h, token))
  BY <1>2 DEF CloseGroupUnless, Caches
<1>4. ASSUME NEW token PROVE Caches(h, BeginGroup(h, token))
  <2> DEFINE c == CloseActiveGroup(h)
             p == [token |-> token, entries |-> <<>>]
  <2>1. BeginGroup(h, token) = Bump([c EXCEPT !.group = p])
    BY DEF BeginGroup
  <2>2. DOMAIN c = DOMAIN h /\ c.corr = h.corr
    BY <1>2 DEF Caches
  <2> HIDE DEF c, p
  <2> QED
    BY <1>1, <2>1, <2>2 DEF Caches, Bump
<1> QED
  BY <1>2, <1>3, <1>4

LEMMA StackCaches ==
    ASSUME NEW h, DOMAIN h = DOMAIN EmptyHistory(None, 0)
    PROVE  /\ \A plan : Caches(h, DiscardAction(h, plan))
           /\ Caches(h, DiscardPendingGroup(h)) /\ Caches(h, MarkEditUnsupported(h))
           /\ \A key : Caches(h, ClearCompletedPendingGroup(h, key))
           /\ \A key : Caches(h, MarkMcpOutcomeUnknown(h, key))
           /\ \A plan, completed, unknown, retry :
                Caches(h, StartPendingGroup(h, plan, completed, unknown, retry))
<1>1. DOMAIN h = {"gen", "rev", "applied", "undo", "redo", "corr", "lost", "unsup", "pending", "group"}
  BY DEF EmptyHistory
<1>2. ASSUME NEW p PROVE Caches(h, Bump([h EXCEPT !.pending = p]))
  BY <1>1 DEF Caches, Bump
<1>3. ASSUME NEW plan PROVE Caches(h, DiscardAction(h, plan))
  <2> DEFINE s == Pop(Stack(h, plan.dir))
             k == SetStack(h, plan.dir, s)
  <2>1. DiscardAction(h, plan) = h \/ DiscardAction(h, plan) = Bump(k)
    BY DEF DiscardAction
  <2> HIDE DEF s
  <2>2. k = [h EXCEPT !.undo = s] \/ k = [h EXCEPT !.redo = s]
    BY DEF SetStack
  <2> HIDE DEF k
  <2> QED
    BY <1>1, <2>1, <2>2 DEF Caches, Bump
<1>4. Caches(h, DiscardPendingGroup(h))
  <2> DEFINE u == Without(h.undo, h.pending.key)
             r == Without(h.redo, h.pending.key)
  <2>1. DiscardPendingGroup(h) = Bump([h EXCEPT !.undo = u, !.redo = r, !.pending = None])
    BY <1>1 DEF DiscardPendingGroup
  <2> HIDE DEF u, r
  <2> QED
    BY <1>1, <2>1 DEF Caches, Bump
<1>5. Caches(h, MarkEditUnsupported(h))
  BY <1>1 DEF MarkEditUnsupported, Caches, Bump
<1>6. ASSUME NEW key PROVE Caches(h, ClearCompletedPendingGroup(h, key))
  <2>1. \/ ClearCompletedPendingGroup(h, key) = h
        \/ ClearCompletedPendingGroup(h, key) = Bump([h EXCEPT !.pending = None])
    BY DEF ClearCompletedPendingGroup
  <2> QED
    BY <1>2, <2>1 DEF Caches
<1>7. ASSUME NEW key PROVE Caches(h, MarkMcpOutcomeUnknown(h, key))
  <2> DEFINE p == [dir |-> "undo", key |-> key, count |-> 1, completed |-> 0,
                   unknown |-> TRUE, retry |-> FALSE]
  <2>1. MarkMcpOutcomeUnknown(h, key) = Bump([h EXCEPT !.pending = p])
    BY DEF MarkMcpOutcomeUnknown
  <2> HIDE DEF p
  <2> QED
    BY <1>2, <2>1
<1>8. ASSUME NEW plan, NEW completed, NEW unknown, NEW retry
      PROVE  Caches(h, StartPendingGroup(h, plan, completed, unknown, retry))
  <2> DEFINE p == [dir |-> plan.dir, key |-> plan.key, count |-> plan.count,
                   completed |-> completed, unknown |-> unknown, retry |-> retry]
  <2>1. StartPendingGroup(h, plan, completed, unknown, retry) = Bump([h EXCEPT !.pending = p])
    BY DEF StartPendingGroup
  <2> HIDE DEF p
  <2> QED
    BY <1>2, <2>1
<1> QED
  BY <1>3, <1>4, <1>5, <1>6, <1>7, <1>8

-----------------------------------------------------------------------------
(* Every step leaves the cache within its bounds.                          *)

LEMMA KeptHeld ==
    ASSUME Held(history), history'.corr = history.corr \/ history'.corr = NoCorrections
    PROVE  Held(history')
<1> DEFINE g == history'
<1>1. \A s \in Slots : g.corr[s] = history.corr[s] \/ g.corr[s] = None
  BY DEF NoCorrections
<1> HIDE DEF g
<1>2. Held(g)
  BY <1>1, FewerHeld
<1> QED
  BY <1>2 DEF g

\* The history of the present connection, and what ends an item.
LEMMA CurrentCaches ==
    ASSUME EditInv
    PROVE  /\ DOMAIN history = DOMAIN EmptyHistory(None, 0)
           /\ DOMAIN Current = DOMAIN EmptyHistory(None, 0)
           /\ Current.corr = history.corr \/ Current.corr = NoCorrections
           /\ \A h : h.corr = history.corr \/ h.corr = NoCorrections =>
                \/ Synchronize(h, session).corr = history.corr
                \/ Synchronize(h, session).corr = NoCorrections
<1>1. history \in HistoryStates
  BY DEF EditInv, HistoryFits
<1>2. DOMAIN history = DOMAIN EmptyHistory(None, 0)
  BY <1>1 DEF HistoryStates, EmptyHistory
<1>3. \A rev : DOMAIN EmptyHistory(session, rev) = DOMAIN EmptyHistory(None, 0)
                 /\ EmptyHistory(session, rev).corr = NoCorrections
  BY DEF EmptyHistory
<1> QED
  BY <1>2, <1>3 DEF Current, Synchronize

\* What records no answer leaves the cache alone, or empties it.
LEMMA SilentHeld ==
    ASSUME EditInv, Held(history),
           \/ UNCHANGED history
           \/ SessionChanged \/ EditRefused \/ EditUnanswered
           \/ \E slot \in UiSlots, val \in Values : SetFromUi(slot, val)
           \/ \E slot \in Slots, val \in Values, token \in {None} \cup 1..MaxSequence :
                SetFromMcp(slot, val, token)
           \/ \E src \in {"ui", "mcp"}, token \in {None} \cup 1..MaxSequence : Create(src, token)
           \/ \E src \in {"ui", "mcp"}, o \in Objects : Delete(src, o)
           \/ \E src \in {"ui", "mcp"} : OtherEdit(src)
           \/ HistoryFromUi \/ \E dir \in Directions : HistoryFromMcp(dir)
           \/ StartRetry \/ SendStep \/ GroupDone \/ SingleFails \/ StepFails
           \/ Begin \/ CloseGroup \/ Discard \/ AuthRevoked
    PROVE  Held(history')
<1> DEFINE Kept(h) == h.corr = history.corr \/ h.corr = NoCorrections
           c == Current
<1>1. /\ DOMAIN history = DOMAIN EmptyHistory(None, 0) /\ DOMAIN c = DOMAIN EmptyHistory(None, 0)
      /\ Kept(c) /\ Kept(history)
      /\ \A h : Kept(h) => Kept(Synchronize(h, session))
  BY CurrentCaches
<1>2. SUFFICES Kept(history')
  BY KeptHeld
<1> HIDE DEF Kept
<1>3. \A h, g : Kept(h) /\ Caches(h, g) => Kept(g)
  BY DEF Kept, Caches
<1>4. ASSUME NEW h, Kept(h), history' = Synchronize(h, session) PROVE Kept(history')
  BY <1>1, <1>4
<1>5. \A token : Kept(CloseGroupUnless(c, token)) /\ Kept(BeginGroup(c, token))
  <2> TAKE token
  <2> DEFINE g == CloseGroupUnless(c, token)
             k == BeginGroup(c, token)
  <2>1. Caches(c, g) /\ Caches(c, k)
    BY <1>1, CloseCaches
  <2> HIDE DEF g, k
  <2>2. Kept(g) /\ Kept(k)
    BY <1>1, <1>3, <2>1
  <2> QED
    BY <2>2 DEF g, k
<1>6. Kept(CloseActiveGroup(c)) /\ Kept(CloseActiveGroup(history))
  <2> DEFINE g == CloseActiveGroup(c)
             k == CloseActiveGroup(history)
  <2>1. Caches(c, g) /\ Caches(history, k)
    BY <1>1, CloseCaches
  <2> HIDE DEF g, k
  <2>2. Kept(g) /\ Kept(k)
    BY <1>1, <1>3, <2>1
  <2> QED
    BY <2>2 DEF g, k
<1>7. CASE UNCHANGED history
  BY <1>1, <1>7
<1>8. CASE SessionChanged \/ StartRetry
  BY <1>1, <1>8 DEF SessionChanged, StartRetry
<1>9. CASE \/ EditRefused
           \/ \E slot \in UiSlots, val \in Values : SetFromUi(slot, val)
           \/ \E slot \in Slots, val \in Values, token \in {None} \cup 1..MaxSequence :
                SetFromMcp(slot, val, token)
           \/ \E src \in {"ui", "mcp"}, token \in {None} \cup 1..MaxSequence : Create(src, token)
           \/ \E src \in {"ui", "mcp"}, o \in Objects : Delete(src, o)
           \/ \E src \in {"ui", "mcp"} : OtherEdit(src)
  <2>1. history' = c \/ \E token : history' = CloseGroupUnless(c, token)
    <3>1. CASE EditRefused
      BY <3>1 DEF EditRefused, Prepared
    <3>2. CASE \E slot \in UiSlots, val \in Values : SetFromUi(slot, val)
      BY <3>2 DEF SetFromUi, Accepted, Prepared
    <3>3. CASE \E slot \in Slots, val \in Values, token \in {None} \cup 1..MaxSequence :
                 SetFromMcp(slot, val, token)
      BY <3>3 DEF SetFromMcp, Accepted, Prepared
    <3>4. CASE \E src \in {"ui", "mcp"}, token \in {None} \cup 1..MaxSequence : Create(src, token)
      BY <3>4 DEF Create, Accepted, Prepared
    <3>5. CASE \E src \in {"ui", "mcp"}, o \in Objects : Delete(src, o)
      BY <3>5 DEF Delete, Accepted, Prepared
    <3>6. CASE \E src \in {"ui", "mcp"} : OtherEdit(src)
      BY <3>6 DEF OtherEdit, Accepted, Prepared
    <3> QED
      BY <1>9, <3>1, <3>2, <3>3, <3>4, <3>5, <3>6
  <2> QED
    BY <1>1, <1>5, <2>1
<1>10. CASE EditUnanswered
  <2> DEFINE g == CloseIfGrouped(c)
             k == MarkMcpOutcomeUnknown(g, run.seq)
  <2>1. g = c \/ g = CloseActiveGroup(c)
    BY DEF CloseIfGrouped
  <2>2. Caches(c, g)
    BY <1>1, <2>1, CloseCaches DEF Caches
  <2>3. history' \in {c, g, k}
    BY <1>10 DEF EditUnanswered
  <2> HIDE DEF g
  <2>4. Caches(g, k)
    BY <1>1, <2>2, StackCaches DEF Caches
  <2> HIDE DEF k
  <2> QED
    BY <1>1, <1>3, <2>2, <2>3, <2>4
<1>11. CASE HistoryFromUi \/ \E dir \in Directions : HistoryFromMcp(dir)
  <2>1. \E src, dir, at, shown : StartHistory(src, dir, at, shown)
    BY <1>11 DEF HistoryFromUi, HistoryFromMcp
  <2>2. history' = c \/ history' = CloseActiveGroup(c)
    BY <2>1 DEF StartHistory
  <2> QED
    BY <1>1, <1>6, <2>2
<1>12. CASE SendStep
  <2> DEFINE k == StartPendingGroup(history, run.plan, run.completed, FALSE, FALSE)
  <2>1. \/ history' = Synchronize(history, session) \/ history' = Synchronize(k, session)
        \/ history' = history
    BY <1>12 DEF SendStep, Finished
  <2>2. Caches(history, k)
    BY <1>1, StackCaches
  <2> HIDE DEF k
  <2> QED
    BY <1>1, <1>3, <1>4, <2>1, <2>2
<1>13. CASE GroupDone
  <2> DEFINE k == ClearCompletedPendingGroup(history, run.plan.key)
  <2>1. history' = Synchronize(history, session) \/ history' = Synchronize(k, session)
    BY <1>13 DEF GroupDone, Finished
  <2>2. Caches(history, k)
    BY <1>1, StackCaches
  <2> HIDE DEF k
  <2> QED
    BY <1>1, <1>3, <1>4, <2>1, <2>2
<1>14. CASE SingleFails
  <2> DEFINE k == DiscardAction(c, run.plan)
  <2>1. history' = Synchronize(c, session) \/ history' = Synchronize(k, session)
    BY <1>14 DEF SingleFails, Finished
  <2>2. Caches(c, k)
    BY <1>1, StackCaches
  <2> HIDE DEF k, c
  <2> QED
    BY <1>1, <1>3, <1>4, <2>1, <2>2
<1>15. CASE StepFails
  <2>1. PICK answered \in BOOLEAN :
           history' = Synchronize(IF session # run.gen THEN c
                                  ELSE StartPendingGroup(c, run.plan, run.completed,
                                                         ~answered, answered), session)
    BY <1>15 DEF StepFails, Finished
  <2> DEFINE k == StartPendingGroup(c, run.plan, run.completed, ~answered, answered)
  <2>2. history' = Synchronize(c, session) \/ history' = Synchronize(k, session)
    BY <2>1
  <2>3. Caches(c, k)
    BY <1>1, StackCaches
  <2> HIDE DEF k, c
  <2> QED
    BY <1>1, <1>3, <1>4, <2>2, <2>3
<1>16. CASE Begin \/ CloseGroup \/ AuthRevoked
  <2>1. \/ history' = c \/ history' = BeginGroup(c, seq) \/ history' = CloseActiveGroup(history)
    BY <1>16 DEF Begin, CloseGroup, AuthRevoked
  <2> QED
    BY <1>1, <1>5, <1>6, <2>1
<1>17. CASE Discard
  <2> DEFINE k == DiscardPendingGroup(c)
  <2>1. history' = k
    BY <1>17 DEF Discard
  <2>2. Caches(c, k)
    BY <1>1, StackCaches
  <2> HIDE DEF k, c
  <2> QED
    BY <1>1, <1>3, <2>1, <2>2
<1> QED
  BY <1>7, <1>8, <1>9, <1>10, <1>11, <1>12, <1>13, <1>14, <1>15, <1>16, <1>17

LEMMA EditAnsweredHeld ==
    ASSUME EditInv, CacheInv, Held(history), EditAnswered
    PROVE  Held(history')
<1> DEFINE c == Current
           done == RecordSuccess(c, run, run.reply)
           closed == CloseIfGrouped(c)
           off == MarkEditUnsupported(closed)
<1>1. /\ run # None /\ run.kind = "edit" /\ run.reply # None
      /\ history' = IF session # run.gen THEN c
                    ELSE IF run.reply.st = "accepted" THEN done
                    ELSE IF run.reply.st = "unsupported" /\ StructureEdit THEN off
                    ELSE closed
  BY DEF EditAnswered, InFlight
<1>2. /\ DOMAIN c = DOMAIN EmptyHistory(None, 0)
      /\ c.corr = history.corr \/ c.corr = NoCorrections
  BY CurrentCaches
<1>3. CASE session = run.gen /\ run.reply.st = "accepted"
  <2>1. c = history /\ run \in EditRuns /\ run.reply \in Replies
    BY <1>1, <1>3, CurrentFits, EditFacts DEF EditRuns
  <2>2. run.op = "set" => run.slot \in Slots /\ run.reply.val \in Values
    BY <1>1, <1>3 DEF EditInv, EditRunFits
  <2>3. Held(RecordSuccess(history, run, run.reply))
    BY <1>1, <2>1, <2>2, EditFacts, RecordSuccessHeld
  <2>4. history' = RecordSuccess(history, run, run.reply)
    BY <1>1, <1>3, <2>1
  <2> DEFINE k == RecordSuccess(history, run, run.reply)
  <2> HIDE DEF k
  <2> QED
    BY <2>3, <2>4 DEF k
<1>4. CASE ~(session = run.gen /\ run.reply.st = "accepted")
  <2>1. history' \in {c, closed, off}
    BY <1>1, <1>4
  <2>2. Caches(c, closed)
    BY <1>2, CloseCaches DEF CloseIfGrouped, Caches
  <2> HIDE DEF closed
  <2>3. Caches(closed, off)
    BY <1>2, <2>2, StackCaches DEF Caches
  <2> HIDE DEF off, c
  <2>4. history'.corr = c.corr
    BY <2>1, <2>2, <2>3 DEF Caches
  <2> QED
    BY <1>2, <2>4, KeptHeld
<1> QED
  BY <1>3, <1>4

\* The value an undone or redone change is answered with.
LEMMA StepValue ==
    ASSUME EditInv, CacheInv, TargetInv, run # None, run.kind = "history", run.step # None,
           session = run.gen, run.reply # None, run.reply.st = "accepted",
           ~IsCreate(run.step.rec)
    PROVE  run.reply.val \in Values
<1> DEFINE slot == run.step.rec.slot
<1>1. InFlight /\ Request(run).op = "set" /\ Request(run).slot = slot
  BY WorkFacts, StepRequest DEF InFlight
<1>2. slot \in Slots
  BY <1>1, SetSlot
<1>3. Moved(slot)
  BY <1>1 DEF Moved
<1>4. run.reply.val = engine[slot]
  BY <1>2, <1>3 DEF CacheInv, CaptureInv, AnswerFits
<1> QED
  BY <1>2, <1>4 DEF EditInv, SceneFits

LEMMA AppliedHeld ==
    ASSUME EditInv, CacheInv, TargetInv, Held(history), SingleApplied \/ StepApplied
    PROVE  Held(history')
<1> DEFINE c == Current
<1>1. /\ run # None /\ run.kind = "history" /\ run.step # None /\ run.reply # None
      /\ run.reply.st = "accepted"
  BY DEF SingleApplied, StepApplied, InFlight
<1>2. /\ run \in HistoryRuns /\ run.plan \in Plans /\ run.plan.dir \in Directions
      /\ history.group = None /\ HistoryFits(history, seq)
      /\ session = run.gen => c = history
  BY <1>1, WorkFacts
<1>3. /\ history \in HistoryStates
      /\ Stack(history, run.plan.dir) # <<>> /\ run.step = Top(Stack(history, run.plan.dir))
      /\ ~run.grouped => run.step = run.plan.steps[1]
  BY <1>1, StepFacts
<1>4. run.reply \in Replies
  BY <1>1, <1>2 DEF HistoryRuns
<1> DEFINE rec == run.step.rec
           k == FinishActionSuccess(history, run.plan, run.reply)
           halted == StartPendingGroup(c, run.plan, run.completed, TRUE, FALSE)
           done == FinishGroupStep(history, run.plan, run.reply)
<1>5. /\ DOMAIN c = DOMAIN EmptyHistory(None, 0)
      /\ c.corr = history.corr \/ c.corr = NoCorrections
  BY CurrentCaches
<1>6. ASSUME session = run.gen PROVE Held(done) /\ (~run.grouped => Held(k))
  <2>1. ~IsCreate(rec) => run.reply.val \in Values
    BY <1>1, <1>6, StepValue
  <2> QED
    BY <1>2, <1>3, <1>4, <2>1, FinishGroupStepHeld, FinishActionSuccessHeld
<1>7. \/ history' = Synchronize(c, session)
      \/ history' = Synchronize(halted, session)
      \/ session = run.gen /\ ~run.grouped /\ history' = Synchronize(k, session)
      \/ session = run.gen /\ history' = done
  <2>1. CASE SingleApplied
    BY <1>2, <2>1 DEF SingleApplied, Finished
  <2>2. CASE StepApplied
    BY <1>2, <2>2 DEF StepApplied, Finished
  <2> QED
    BY <2>1, <2>2
<1>8. Caches(c, halted)
  BY <1>5, StackCaches
<1>9. \A h : h.corr = history.corr \/ h.corr = NoCorrections =>
        \/ Synchronize(h, session).corr = history.corr
        \/ Synchronize(h, session).corr = NoCorrections
  BY CurrentCaches
<1>10. CASE history' = Synchronize(c, session) \/ history' = Synchronize(halted, session)
  <2> HIDE DEF halted, c
  <2>1. halted.corr = history.corr \/ halted.corr = NoCorrections
    BY <1>5, <1>8 DEF Caches
  <2>2. history'.corr = history.corr \/ history'.corr = NoCorrections
    BY <1>5, <1>9, <1>10, <2>1
  <2> QED
    BY <2>2, KeptHeld
<1>11. CASE session = run.gen /\ ~run.grouped /\ history' = Synchronize(k, session)
  <2>1. Held(k)
    BY <1>6, <1>11
  <2> HIDE DEF k
  <2>2. history'.corr = k.corr \/ history'.corr = NoCorrections
    BY <1>11 DEF Synchronize, EmptyHistory
  <2> DEFINE g == history'
  <2>3. \A s \in Slots : g.corr[s] = k.corr[s] \/ g.corr[s] = None
    BY <2>2 DEF NoCorrections
  <2> HIDE DEF g
  <2>4. Held(g)
    BY <2>1, <2>3, FewerHeld
  <2> QED
    BY <2>4 DEF g
<1>12. CASE session = run.gen /\ history' = done
  <2>1. Held(done)
    BY <1>6, <1>12
  <2> HIDE DEF done
  <2> QED
    BY <1>12, <2>1
<1> HIDE DEF c, k, halted, done
<1> QED
  BY <1>7, <1>10, <1>11, <1>12

LEMMA NextHeld ==
    ASSUME EditInv, CacheInv, TargetInv, Held(history), [Next]_vars
    PROVE  Held(history')
<1>1. CASE EditAnswered
  BY <1>1, EditAnsweredHeld
<1>2. CASE SingleApplied \/ StepApplied
  BY <1>2, AppliedHeld
<1>3. CASE \/ Disconnect \/ Connect
           \/ (\E slot \in UiSlots : CaptureValue(slot))
           \/ (\E dir \in UiDirections : CaptureCursor(dir))
           \/ EngineAccepts \/ EngineRefuses \/ UNCHANGED vars
  <2>1. UNCHANGED history
    BY <1>3 DEF Disconnect, Connect, CaptureValue, CaptureCursor, EngineAccepts, EngineRefuses, vars
  <2> QED
    BY <2>1
<1>4. CASE ~(\/ EditAnswered \/ SingleApplied \/ StepApplied \/ Disconnect \/ Connect
             \/ (\E slot \in UiSlots : CaptureValue(slot))
             \/ (\E dir \in UiDirections : CaptureCursor(dir))
             \/ EngineAccepts \/ EngineRefuses \/ UNCHANGED vars)
  <2>1. Next
    BY <1>4
  <2> QED
    BY <1>4, <2>1, SilentHeld DEF Next
<1> QED
  BY <1>1, <1>2, <1>3, <1>4

-----------------------------------------------------------------------------
(* What the stacks of the history have of the walk.                        *)

LEMMA UndoableInWalk ==
    ASSUME history \in HistoryStates
    PROVE  /\ Len(Undoable) = Here(history)
           /\ \A i \in 1..Here(history) : i \in 1..Span(history) /\ Undoable[i] = At(history, i)
<1> DEFINE h == history
           s == GroupEntries(h)
<1>1. /\ Here(h) \in Nat /\ Span(h) \in Nat /\ Here(h) <= Span(h) /\ Closed(h) \in Nat
      /\ h.undo \in Seq(AnyEntry) /\ s \in Seq(AnyEntry) /\ Closed(h) <= Here(h)
  BY WalkType
<1>2. Undoable = h.undo \o s
  BY DEF Undoable, GroupEntries
<1>3. /\ Len(Undoable) = Here(h)
      /\ \A k \in 1..Closed(h) : Undoable[k] = h.undo[k]
      /\ \A k \in 1..Open(h) : Undoable[Closed(h) + k] = s[k]
  BY <1>1, <1>2, ConcatFacts DEF Here, Closed, Open
<1>4. Open(h) \in Nat
  BY <1>1 DEF Open
<1> HIDE DEF s, h
<1>5. ASSUME NEW i \in 1..Here(h) PROVE i \in 1..Span(h) /\ Undoable[i] = At(h, i)
  <2>1. i \in 1..Span(h)
    BY <1>1
  <2>2. CASE i <= Closed(h)
    <3>1. i \in 1..Closed(h)
      BY <1>1, <2>2
    <3> QED
      BY <1>3, <2>1, <2>2, <3>1 DEF At
  <2>3. CASE ~(i <= Closed(h))
    <3>1. i - Closed(h) \in 1..Open(h) /\ Closed(h) + (i - Closed(h)) = i /\ i <= Here(h)
      BY <1>1, <1>4, <2>3 DEF Here
    <3>2. Undoable[i] = s[i - Closed(h)]
      BY <1>3, <3>1
    <3> QED
      BY <2>1, <2>3, <3>1, <3>2 DEF At, s
  <2> QED
    BY <2>2, <2>3
<1> QED
  BY <1>3, <1>5 DEF h

LEMMA RedoInWalk ==
    ASSUME NEW h \in HistoryStates
    PROVE  /\ Len(h.redo) = Undone(h)
           /\ \A i \in 1..Undone(h) :
                /\ Span(h) + 1 - i \in 1..Span(h) /\ Here(h) < Span(h) + 1 - i
                /\ At(h, Span(h) + 1 - i) = h.redo[i]
<1>1. "redo" \in Directions /\ "redo" # "undo"
  BY DEF Directions
<1>2. \A i \in 1..Undone(h) : Span(h) + 1 - i \in 1..Span(h) /\ At(h, Span(h) + 1 - i) = h.redo[i]
  BY <1>1, StackInWalk DEF Undone, Stack, StackIndex
<1>3. /\ Here(h) \in Nat /\ Undone(h) \in Nat /\ Span(h) = Here(h) + Undone(h)
  BY WalkType
<1>4. \A i \in 1..Undone(h) : Here(h) < Span(h) + 1 - i
  BY <1>3
<1> QED
  BY <1>2, <1>4 DEF Undone

\* Nothing is on its way: the history is where the engine is.
LEMMA SettledLeads ==
    ASSUME EditInv, ChainInv, Settled
    PROVE  Linked(history, Loose) /\ AllMeet(history, engine, Loose)
<1>1. Live /\ ~Answered
  BY DEF Settled, Live, Answered
<1>2. Scene = engine /\ Away = {}
  BY <1>1, NotSent, NothingSent
<1>3. Leads(history, engine, Loose, {})
  BY <1>1, <1>2 DEF ChainInv
<1>4. Loose \cup {} = Loose
  OBVIOUS
<1> QED
  BY <1>3, <1>4 DEF Leads, Chained

\* Of a slot the history follows, a value is what the next entry done on it started from,
\* and the last one is in the engine.
LEMMA UndoWalks == EditInv /\ TargetInv /\ ChainInv => UndoChain
<1> SUFFICES ASSUME EditInv, TargetInv, ChainInv, Settled,
                    NEW i \in 1..Len(Undoable), Followed(Undoable[i].rec.slot)
             PROVE  LET slot == Undoable[i].rec.slot
                        later == {j \in (i + 1)..Len(Undoable) : Undoable[j].rec.slot = slot}
                    IN  Undoable[i].rec.new =
                          IF later = {} THEN engine[slot]
                          ELSE Undoable[CHOOSE j \in later : \A k \in later : j <= k].rec.old
  BY DEF UndoChain
<1> DEFINE h == history
           slot == Undoable[i].rec.slot
           later == {j \in (i + 1)..Len(Undoable) : Undoable[j].rec.slot = slot}
           m == CHOOSE j \in later : \A k \in later : j <= k
<1>1. /\ Len(Undoable) = Here(h) /\ Here(h) \in Nat /\ Span(h) \in Nat /\ Here(h) <= Span(h)
      /\ \A k \in 1..Here(h) : k \in 1..Span(h) /\ Undoable[k] = At(h, k)
      /\ h \in HistoryStates
  BY UndoableInWalk, WalkType DEF EditInv, HistoryFits
<1>2. Linked(h, Loose) /\ AllMeet(h, engine, Loose)
  BY SettledLeads
<1>3. i \in 1..Here(h) /\ i \in 1..Span(h) /\ i <= Here(h) /\ SlotAt(h, i) = slot
  BY <1>1 DEF SlotAt
<1>4. slot \in AllSlots /\ slot \notin Loose
  BY <1>3 DEF TargetInv, Objective, RecordsFit, Record, Slots, AllSlots, SlotAt, Loose
<1>5. later = {j \in (i + 1)..Here(h) : SlotAt(h, j) = slot}
  BY <1>1, <1>3 DEF SlotAt
<1>6. Undoable[i] = At(h, i)
  BY <1>1, <1>3
<1> HIDE DEF h, slot, later, m
<1>7. CASE later = {}
  <2>1. Untouched(h, slot, i, Here(h) + 1)
    <3> SUFFICES ASSUME NEW k \in 1..Span(h), i < k, k < Here(h) + 1, SlotAt(h, k) = slot PROVE FALSE
      BY DEF Untouched
    <3>1. k \in (i + 1)..Here(h)
      BY <1>1, <1>3
    <3> QED
      BY <1>5, <1>7, <3>1
  <2>2. Meets(h, slot, engine[slot])
    BY <1>2, <1>4 DEF AllMeet
  <2>3. At(h, i).rec.new = engine[slot]
    BY <1>3, <2>1, <2>2 DEF Meets
  <2> QED
    BY <1>6, <1>7, <2>3 DEF slot, later
<1>8. CASE later # {}
  <2>1. later \subseteq Nat
    BY <1>1, <1>3, <1>5
  <2>2. m \in later /\ \A k \in later : m <= k
    <3>1. PICK j \in later : \A k \in later : j <= k
      BY <1>8, <2>1, Least
    <3> QED
      BY <3>1 DEF m
  <2>3. m \in 1..Here(h) /\ m \in 1..Span(h) /\ i < m /\ SlotAt(h, m) = slot
    BY <1>1, <1>3, <1>5, <2>2
  <2>4. Untouched(h, slot, i, m)
    <3> SUFFICES ASSUME NEW k \in 1..Span(h), i < k, k < m, SlotAt(h, k) = slot PROVE FALSE
      BY DEF Untouched
    <3>1. k \in (i + 1)..Here(h) /\ ~(m <= k)
      BY <1>1, <1>3, <2>3
    <3> QED
      BY <1>5, <2>2, <3>1
  <2>5. Succeeds(h, i, m)
    BY <1>3, <2>3, <2>4 DEF Succeeds
  <2>6. At(h, i).rec.new = At(h, m).rec.old
    BY <1>2, <1>3, <1>4, <2>3, <2>5 DEF Linked
  <2>7. Undoable[m] = At(h, m)
    BY <1>1, <2>3
  <2> QED
    BY <1>6, <1>8, <2>6, <2>7 DEF slot, later, m
<1> QED
  BY <1>7, <1>8

\* The same the other way: an undone entry starts where the next to be redone ends.
LEMMA RedoWalks == EditInv /\ TargetInv /\ ChainInv => RedoChain
<1> SUFFICES ASSUME EditInv, TargetInv, ChainInv, Settled,
                    NEW i \in 1..Len(history.redo), Followed(history.redo[i].rec.slot)
             PROVE  LET slot == history.redo[i].rec.slot
                        sooner == {j \in (i + 1)..Len(history.redo) : history.redo[j].rec.slot = slot}
                    IN  history.redo[i].rec.old =
                          IF sooner = {} THEN engine[slot]
                          ELSE history.redo[CHOOSE j \in sooner : \A k \in sooner : j <= k].rec.new
  BY DEF RedoChain
<1> DEFINE h == history
           redo == h.redo
           slot == redo[i].rec.slot
           sooner == {j \in (i + 1)..Len(redo) : redo[j].rec.slot = slot}
           m == CHOOSE j \in sooner : \A k \in sooner : j <= k
           n == Undone(h)
           w == Span(h) + 1 - i
           p == Span(h) + 1 - m
<1>1. /\ Here(h) \in Nat /\ Span(h) \in Nat /\ n \in Nat /\ Span(h) = Here(h) + n
      /\ h \in HistoryStates
  BY WalkType DEF EditInv, HistoryFits
<1>2. /\ Len(redo) = n
      /\ \A k \in 1..n : /\ Span(h) + 1 - k \in 1..Span(h) /\ Here(h) < Span(h) + 1 - k
                         /\ At(h, Span(h) + 1 - k) = redo[k]
  BY <1>1, RedoInWalk
<1>3. Linked(h, Loose) /\ AllMeet(h, engine, Loose)
  BY SettledLeads
<1>4. i \in 1..n /\ w \in 1..Span(h) /\ Here(h) < w /\ At(h, w) = redo[i] /\ SlotAt(h, w) = slot
  BY <1>2 DEF SlotAt
<1>5. slot \in AllSlots /\ slot \notin Loose
  BY <1>4 DEF TargetInv, Objective, RecordsFit, Record, Slots, AllSlots, SlotAt, Loose
<1>6. sooner = {j \in (i + 1)..n : SlotAt(h, Span(h) + 1 - j) = slot}
  <2>1. ASSUME NEW j \in (i + 1)..n PROVE redo[j].rec.slot = SlotAt(h, Span(h) + 1 - j)
    <3>1. j \in 1..n
      BY <1>1, <1>4
    <3> QED
      BY <1>2, <3>1 DEF SlotAt
  <2> QED
    BY <1>2, <2>1
<1> HIDE DEF h, redo, slot, sooner, m, n
\* The places of the walk that lie between here and there, as the redo stack counts them.
<1>7. ASSUME NEW k \in 1..Span(h), Here(h) < k, k < w
      PROVE  Span(h) + 1 - k \in (i + 1)..n /\ Span(h) + 1 - (Span(h) + 1 - k) = k
  <2> DEFINE S == Span(h)
             H == Here(h)
  <2>1. H \in Nat /\ n \in Nat /\ S = H + n /\ i \in 1..n /\ k \in 1..S /\ H < k /\ k < S + 1 - i
    BY <1>1, <1>4, <1>7
  <2> HIDE DEF S, H
  <2>2. S + 1 - k \in (i + 1)..n /\ S + 1 - (S + 1 - k) = k
    BY <2>1
  <2> QED
    BY <2>2 DEF S
<1>8. CASE sooner = {}
  <2>1. Untouched(h, slot, Here(h), w)
    <3> SUFFICES ASSUME NEW k \in 1..Span(h), Here(h) < k, k < w, SlotAt(h, k) = slot PROVE FALSE
      BY DEF Untouched
    <3>1. Span(h) + 1 - k \in (i + 1)..n /\ Span(h) + 1 - (Span(h) + 1 - k) = k
      BY <1>7
    <3> QED
      BY <1>6, <1>8, <3>1
  <2>2. Meets(h, slot, engine[slot])
    BY <1>3, <1>5 DEF AllMeet
  <2>3. At(h, w).rec.old = engine[slot]
    BY <1>4, <2>1, <2>2 DEF Meets
  <2> QED
    BY <1>4, <1>8, <2>3 DEF slot, sooner, redo, h
<1>9. CASE sooner # {}
  <2>1. sooner \subseteq Nat
    BY <1>1, <1>4, <1>6
  <2>2. m \in sooner /\ \A k \in sooner : m <= k
    <3>1. PICK j \in sooner : \A k \in sooner : j <= k
      BY <1>9, <2>1, Least
    <3> QED
      BY <3>1 DEF m
  <2>3. m \in 1..n /\ i < m /\ SlotAt(h, p) = slot
    BY <1>1, <1>4, <1>6, <2>2
  <2>4. p \in 1..Span(h) /\ At(h, p) = redo[m] /\ Here(h) < p /\ p < w
    <3>1. p \in 1..Span(h) /\ At(h, p) = redo[m] /\ Here(h) < p
      BY <1>2, <2>3
    <3> DEFINE S == Span(h)
    <3>2. S \in Nat /\ m \in Nat /\ i \in Nat /\ i < m
      BY <1>1, <1>4, <2>3
    <3> HIDE DEF S
    <3>3. S + 1 - m < S + 1 - i
      BY <3>2
    <3> QED
      BY <3>1, <3>3 DEF S
  <2>5. Untouched(h, slot, p, w)
    <3> SUFFICES ASSUME NEW k \in 1..Span(h), p < k, k < w, SlotAt(h, k) = slot PROVE FALSE
      BY DEF Untouched
    <3>1. Span(h) + 1 - k \in (i + 1)..n /\ Span(h) + 1 - (Span(h) + 1 - k) = k
      <4>1. Here(h) < k
        <5> HIDE DEF p
        <5> QED
          BY <1>1, <2>4
      <4> HIDE DEF w
      <4> QED
        BY <1>7, <4>1
    <3>2. ~(m <= Span(h) + 1 - k)
      <4> DEFINE S == Span(h)
      <4>1. S \in Nat /\ m \in Nat /\ k \in Nat /\ S + 1 - m < k
        BY <1>1, <2>3
      <4> HIDE DEF S
      <4>2. ~(m <= S + 1 - k)
        BY <4>1
      <4> QED
        BY <4>2 DEF S
    <3> QED
      BY <1>6, <2>2, <3>1, <3>2
  <2> HIDE DEF w, p
  <2>6. Succeeds(h, p, w)
    BY <1>4, <2>3, <2>4, <2>5 DEF Succeeds
  <2>7. At(h, p).rec.new = At(h, w).rec.old
    BY <1>3, <1>4, <1>5, <2>4, <2>6 DEF Linked
  <2> QED
    BY <1>4, <1>9, <2>4, <2>7 DEF slot, sooner, redo, h, m
<1> QED
  BY <1>8, <1>9

LEMMA WalkEntries ==
    ASSUME EditInv, GroupInv, TargetInv
    PROVE  \A i \in 1..Span(history) : At(history, i) \in Entry
<1>1. history \in HistoryStates
  BY DEF EditInv, HistoryFits
<1>2. \A i \in 1..Span(history) : At(history, i) \in AnyEntry
  BY <1>1, SpanType
<1>3. \A i \in 1..Span(history) : At(history, i).rec \in Record
  BY DEF TargetInv, Objective, RecordsFit
<1>4. \A i \in 1..Span(history) : At(history, i).count \in 1..MaxGroupEdits
  BY DEF GroupInv, Tidy, WalkFits, Counts
<1>5. \A e \in AnyEntry : e.rec \in Record /\ e.count \in 1..MaxGroupEdits => e \in Entry
  BY DEF AnyEntry, Entry
<1> QED
  BY <1>2, <1>3, <1>4, <1>5

LEMMA Typed ==
    ASSUME EditInv, CacheInv, GroupInv, TargetInv, Held(history)
    PROVE  TypeOK
<1> DEFINE h == history
<1>1. h \in HistoryStates
  BY DEF EditInv, HistoryFits
<1>2. /\ session \in 1..MaxGeneration \cup {None} /\ seq \in 1..(MaxSequence + 1)
      /\ h.gen \in 1..MaxGeneration \cup {None}
  BY <1>1 DEF EditInv, RunIsOfHistory, HistoryStates
<1>3. /\ DOMAIN engine = AllSlots
      /\ \A s \in Slots : engine[s] \in Values
      /\ \A o \in Objects : engine[<<o, "object">>] \in {"unborn", "alive", "gone"}
  BY DEF EditInv, SceneFits
<1>4. h.rev \in Nat /\ h.applied \in Nat /\ h.lost \in 0..h.applied
  BY <1>1 DEF HistoryStates, CacheInv, CaptureInv, Knows, Past
<1>5. \A i \in 1..Span(h) : At(h, i) \in Entry
  BY WalkEntries
<1>6. /\ Here(h) \in Nat /\ Undone(h) \in Nat /\ Closed(h) \in Nat /\ Open(h) \in Nat
      /\ Here(h) = Closed(h) + Open(h) /\ Span(h) = Here(h) + Undone(h)
  BY <1>1, SpanType
<1>7. Entries(h.undo)
  <2> SUFFICES ASSUME NEW i \in 1..Closed(h) PROVE h.undo[i] \in Entry
    BY DEF Entries, Closed
  <2>1. i \in 1..Span(h) /\ i <= Closed(h)
    BY <1>6
  <2> QED
    BY <1>5, <2>1 DEF At
<1>8. Entries(h.redo)
  <2> SUFFICES ASSUME NEW i \in 1..Undone(h) PROVE h.redo[i] \in Entry
    BY DEF Entries, Undone
  <2> QED
    BY <1>1, <1>5, RedoInWalk
<1>9. h.group # None => Entries(h.group.entries) /\ Len(h.group.entries) < MaxGroupEdits
  <2> SUFFICES ASSUME h.group # None
               PROVE  Entries(h.group.entries) /\ Len(h.group.entries) < MaxGroupEdits
    OBVIOUS
  <2>1. GroupEntries(h) = h.group.entries /\ Open(h) = Len(h.group.entries)
    BY DEF GroupEntries, Open
  <2>2. Open(h) < MaxGroupEdits
    BY DEF GroupInv, Tidy, GroupSmall
  <2>3. ASSUME NEW i \in 1..Open(h) PROVE GroupEntries(h)[i] \in Entry
    <3> HIDE DEF h
    <3> DEFINE k == Closed(h) + i
    <3>1. k \in 1..Span(h) /\ ~(k <= Closed(h)) /\ k <= Here(h) /\ k - Closed(h) = i
      BY <1>6
    <3> HIDE DEF k
    <3>2. At(h, k) = GroupEntries(h)[i]
      BY <3>1 DEF At
    <3> QED
      BY <1>5, <3>1, <3>2
  <2> QED
    BY <2>1, <2>2, <2>3 DEF Entries
<1>10. h.pending # None => h.pending.completed \in 0..h.pending.count
  BY DEF GroupInv, PendingFits
<1>11. /\ \A s \in Cached(h) : h.corr[s] \in [rev : 1..h.applied, val : Values]
       /\ Cardinality(Cached(h)) <= MaxCorrections
  <2>1. Cardinality(Cached(h)) <= MaxCorrections
    BY DEF Held
  <2>2. ASSUME NEW s \in Cached(h) PROVE h.corr[s] \in [rev : 1..h.applied, val : Values]
    <3>1. s \in Slots /\ h.corr[s] # None /\ h.corr[s] \in [rev : Nat, val : AnyValue]
      BY <1>1, <2>2 DEF Cached, HistoryStates
    <3>2. h.corr[s].rev # 0 /\ h.corr[s].val \in Values
      BY <3>1 DEF Held
    <3>3. h.corr[s].rev <= h.applied
      BY <2>2 DEF CacheInv, CaptureInv, Knows, Past
    <3> DEFINE c == h.corr[s]
    <3>4. c.rev \in 1..h.applied
      BY <1>4, <3>1, <3>2, <3>3
    <3> QED
      BY <3>1, <3>2, <3>4
  <2> QED
    BY <2>1, <2>2
<1>12. capture # None => capture.slot \in Slots /\ capture.val \in Values
  BY DEF EditInv, SceneFits, CacheInv, CaptureInv, CaptureFits, AnyValue
<1> QED
  BY <1>2, <1>3, <1>4, <1>7, <1>8, <1>9, <1>10, <1>11, <1>12 DEF TypeOK

\* Each undo or redo of a followed slot (prepare_action, finish_action_success) starts from
\* the value the engine has and leads to one it had, whatever edits, groups, refused steps,
\* retries and connections came in between; and the types hold.
THEOREM HistoryKeepsWalking == Spec => []HistoryWalks
<1>1. Init => Held(history)
  <2> SUFFICES ASSUME Init PROVE Held(history)
    OBVIOUS
  <2>1. \A s \in Slots : history.corr[s] = None
    BY DEF Init, EmptyHistory, NoCorrections
  <2> QED
    BY <2>1, EmptyHeld
<1>2. EditInv /\ CacheInv /\ TargetInv /\ Held(history) /\ [Next]_vars => Held(history)'
  BY NextHeld
<1>3. EditInv /\ CacheInv /\ GroupInv /\ TargetInv /\ ChainInv /\ Held(history) => HistoryWalks
  BY Typed, UndoWalks, RedoWalks DEF HistoryWalks
<1> QED
  BY <1>1, <1>2, <1>3, ChainInvariance, PTL DEF Spec
=============================================================================
