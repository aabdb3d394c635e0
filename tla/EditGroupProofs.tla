-------------------------- MODULE EditGroupProofs --------------------------
(***************************************************************************)
(* Theorems about EditService, on top of EditServiceProofs: a group is     *)
(* undone and redone as one, and every entry acts on an object that exists *)
(* when its turn comes.                                                    *)
(*                                                                         *)
(* Both are about the walk of a history: all its entries in the order they *)
(* were recorded, with a place between those that are done and those that  *)
(* are undone.  An undo or redo moves that place, an edit cuts off what    *)
(* lies behind it and adds an entry, so most steps leave most of the walk  *)
(* as it is.                                                               *)
(***************************************************************************)
EXTENDS EditServiceProofs

-----------------------------------------------------------------------------
(* The walk of a history: all its entries in the order they were recorded,   *)
(* with a place between the ones that are done and the ones that are undone. *)

Closed(h) == Len(h.undo)
Open(h) == Len(GroupEntries(h))
Undone(h) == Len(h.redo)
Here(h) == Closed(h) + Open(h)
Span(h) == Here(h) + Undone(h)
At(h, i) ==
    IF i <= Closed(h) THEN h.undo[i]
    ELSE IF i <= Here(h) THEN GroupEntries(h)[i - Closed(h)]
    ELSE h.redo[Span(h) + 1 - i]
InGroup(h, i) == Closed(h) < i /\ i <= Here(h)

SameStacks(h, g) == g.undo = h.undo /\ g.redo = h.redo /\ g.group = h.group

LEMMA WalkType ==
    ASSUME NEW h \in HistoryStates
    PROVE  /\ h.undo \in Seq(AnyEntry) /\ h.redo \in Seq(AnyEntry) /\ GroupEntries(h) \in Seq(AnyEntry)
           /\ Here(h) \in Nat /\ Span(h) \in Nat /\ Here(h) <= Span(h) /\ Closed(h) \in Nat
           /\ Closed(h) <= Here(h) /\ Undone(h) \in Nat /\ Span(h) = Here(h) + Undone(h)
           /\ \A i \in 1..Span(h) : At(h, i) \in AnyEntry
           /\ h.group = None => Here(h) = Closed(h)
<1>1. h.undo \in Seq(AnyEntry) /\ h.redo \in Seq(AnyEntry) /\ GroupEntries(h) \in Seq(AnyEntry)
  BY DEF HistoryStates, GroupEntries
<1>2. /\ Closed(h) \in Nat /\ Undone(h) \in Nat /\ Open(h) \in Nat
      /\ Here(h) \in Nat /\ Span(h) \in Nat /\ Here(h) <= Span(h) /\ Closed(h) <= Here(h)
      /\ Here(h) = Closed(h) + Open(h) /\ Span(h) = Here(h) + Undone(h)
  <2>1. Closed(h) \in Nat /\ Undone(h) \in Nat /\ Open(h) \in Nat
    BY <1>1 DEF Closed, Undone, Open
  <2>2. Here(h) = Closed(h) + Open(h) /\ Span(h) = Here(h) + Undone(h)
    BY DEF Here, Span
  <2> QED
    BY <2>1, <2>2
<1>3. ASSUME NEW i \in 1..Span(h) PROVE At(h, i) \in AnyEntry
  <2> DEFINE group == GroupEntries(h)
  <2>0. /\ \A k \in 1..Closed(h) : h.undo[k] \in AnyEntry
        /\ \A k \in 1..Open(h) : group[k] \in AnyEntry
        /\ \A k \in 1..Undone(h) : h.redo[k] \in AnyEntry
    BY <1>1 DEF Closed, Undone, Open
  <2> HIDE DEF group
  <2>1. CASE i <= Closed(h)
    <3>1. i \in 1..Closed(h)
      BY <1>2, <2>1
    <3> QED
      BY <2>0, <2>1, <3>1 DEF At
  <2>2. CASE ~(i <= Closed(h)) /\ i <= Here(h)
    <3>1. i - Closed(h) \in 1..Open(h)
      BY <1>2, <2>2
    <3> QED
      BY <2>0, <2>2, <3>1 DEF At, group
  <2>3. CASE ~(i <= Closed(h)) /\ ~(i <= Here(h))
    <3>1. Span(h) + 1 - i \in 1..Undone(h)
      BY <1>2, <2>3
    <3> QED
      BY <2>0, <2>3, <3>1 DEF At
  <2> QED
    BY <2>1, <2>2, <2>3
<1>4. h.group = None => Here(h) = Closed(h)
  <2>1. h.group = None => Open(h) = 0
    BY DEF GroupEntries, Open
  <2> QED
    BY <1>2, <2>1
<1> QED
  BY <1>1, <1>2, <1>3, <1>4

\* The walk without a group: the undo stack, then the redo stack from its top.
LEMMA WalkOfStacks ==
    ASSUME NEW h \in HistoryStates, h.group = None
    PROVE  /\ \A i \in 1..Here(h) : At(h, i) = h.undo[i]
           /\ \A i \in (Here(h) + 1)..Span(h) : At(h, i) = h.redo[Span(h) + 1 - i]
<1>1. Here(h) = Closed(h) /\ Here(h) \in Nat /\ Span(h) \in Nat
  BY WalkType
<1> QED
  BY <1>1 DEF At

\* A stack by its places in the walk.
StackIndex(h, dir, i) == IF dir = "undo" THEN i ELSE Span(h) + 1 - i
LEMMA StackInWalk ==
    ASSUME NEW h \in HistoryStates, NEW dir \in Directions
    PROVE  \A i \in 1..Len(Stack(h, dir)) :
             /\ StackIndex(h, dir, i) \in 1..Span(h) /\ At(h, StackIndex(h, dir, i)) = Stack(h, dir)[i]
             /\ ~InGroup(h, StackIndex(h, dir, i))
             /\ dir = "undo" <=> StackIndex(h, dir, i) <= Here(h)
<1>1. /\ Here(h) \in Nat /\ Span(h) \in Nat /\ Here(h) <= Span(h) /\ Closed(h) \in Nat
      /\ Closed(h) <= Here(h) /\ Undone(h) \in Nat /\ Span(h) = Here(h) + Undone(h)
  BY WalkType
<1>2. CASE dir = "undo"
  <2> TAKE i \in 1..Len(Stack(h, dir))
  <2>1. i \in 1..Closed(h) /\ StackIndex(h, dir, i) = i
    BY <1>2 DEF Stack, StackIndex, Closed
  <2>2. i \in 1..Span(h) /\ i <= Here(h) /\ ~InGroup(h, i)
    BY <1>1, <2>1 DEF InGroup
  <2>3. At(h, i) = h.undo[i]
    BY <1>1, <2>1 DEF At
  <2> QED
    BY <1>2, <2>1, <2>2, <2>3 DEF Stack
<1>3. CASE dir = "redo"
  <2> TAKE i \in 1..Len(Stack(h, dir))
  <2>1. i \in 1..Undone(h) /\ StackIndex(h, dir, i) = Span(h) + 1 - i
    BY <1>3 DEF Stack, StackIndex, Undone
  <2>2. Span(h) + 1 - i \in 1..Span(h) /\ Span(h) + 1 - i > Here(h) /\ Span(h) + 1 - (Span(h) + 1 - i) = i
    BY <1>1, <2>1
  <2>3. At(h, Span(h) + 1 - i) = h.redo[i]
    BY <1>1, <2>2 DEF At
  <2>4. ~InGroup(h, Span(h) + 1 - i) /\ ~(Span(h) + 1 - i <= Here(h))
    BY <1>1, <2>2 DEF InGroup
  <2> QED
    BY <1>3, <2>1, <2>2, <2>3, <2>4 DEF Stack
<1> QED
  BY <1>2, <1>3 DEF Directions

LEMMA TopFacts ==
    ASSUME NEW S, NEW s \in Seq(S), s # <<>>
    PROVE  Len(s) \in Nat /\ Len(s) > 0 /\ Top(s) = s[Len(s)] /\ Top(s) \in S
BY DEF Top

LEMMA AppendFacts ==
    ASSUME NEW S, NEW s \in Seq(S), NEW e
    PROVE  /\ Len(Append(s, e)) = Len(s) + 1 /\ Append(s, e)[Len(s) + 1] = e
           /\ \A i \in 1..Len(s) : Append(s, e)[i] = s[i]
OBVIOUS

\* An entry with another record.
LEMMA WithRecord ==
    ASSUME NEW e \in AnyEntry, NEW rec
    PROVE  /\ [e EXCEPT !.rec = rec].id = e.id /\ [e EXCEPT !.rec = rec].key = e.key
           /\ [e EXCEPT !.rec = rec].count = e.count /\ [e EXCEPT !.rec = rec].named = e.named
           /\ [e EXCEPT !.rec = rec].rec = rec
BY DEF AnyEntry

\* The part of an entry a move leaves alone.
SameEntry(e, f) == f.id = e.id /\ f.key = e.key /\ f.count = e.count /\ f.named = e.named

\* What an undo or redo takes, in the walk.
Next1(h, dir) == IF dir = "undo" THEN Here(h) ELSE Here(h) + 1
Beyond(h, dir) == IF dir = "undo" THEN Here(h) - 1 ELSE Here(h) + 1

\* The top of one stack goes to the other, as e.
LEMMA MoveWalks ==
    ASSUME NEW h \in HistoryStates, NEW g \in HistoryStates, h.group = None, g.group = None,
           NEW dir \in Directions, Stack(h, dir) # <<>>, NEW e,
           Stack(g, dir) = Pop(Stack(h, dir)),
           Stack(g, Opposite(dir)) = Append(Stack(h, Opposite(dir)), e)
    PROVE  /\ Span(g) = Span(h) /\ Here(g) = Beyond(h, dir) /\ Next1(h, dir) \in 1..Span(h)
           /\ At(h, Next1(h, dir)) = Top(Stack(h, dir))
           /\ \A i \in 1..Span(h) : At(g, i) = IF i = Next1(h, dir) THEN e ELSE At(h, i)
<1>1. /\ Here(h) = Closed(h) /\ Span(h) = Here(h) + Undone(h) /\ Here(h) \in Nat /\ Undone(h) \in Nat
      /\ Here(g) = Closed(g) /\ Span(g) = Here(g) + Undone(g) /\ Here(g) \in Nat /\ Undone(g) \in Nat
      /\ Span(h) \in Nat /\ Span(g) \in Nat
      /\ h.undo \in Seq(AnyEntry) /\ h.redo \in Seq(AnyEntry)
  BY WalkType
<1>2. /\ \A i \in 1..Here(h) : At(h, i) = h.undo[i]
      /\ \A i \in (Here(h) + 1)..Span(h) : At(h, i) = h.redo[Span(h) + 1 - i]
      /\ \A i \in 1..Here(g) : At(g, i) = g.undo[i]
      /\ \A i \in (Here(g) + 1)..Span(g) : At(g, i) = g.redo[Span(g) + 1 - i]
  BY WalkOfStacks
<1>3. CASE dir = "undo"
  <2>1. h.undo # <<>> /\ g.undo = Pop(h.undo) /\ g.redo = Append(h.redo, e)
    BY <1>3 DEF Stack, Opposite
  <2>2. Closed(h) > 0 /\ Top(h.undo) = h.undo[Closed(h)]
    BY <1>1, <2>1, TopFacts DEF Closed
  <2>3. Closed(g) = Closed(h) - 1 /\ \A i \in 1..(Closed(h) - 1) : g.undo[i] = h.undo[i]
    BY <1>1, <2>1, PopFacts DEF Closed
  <2>4. Undone(g) = Undone(h) + 1 /\ g.redo[Undone(h) + 1] = e
          /\ \A i \in 1..Undone(h) : g.redo[i] = h.redo[i]
    BY <1>1, <2>1, AppendFacts DEF Undone
  <2>5. Span(g) = Span(h) /\ Here(g) = Here(h) - 1 /\ Here(h) \in 1..Span(h)
    BY <1>1, <2>2, <2>3, <2>4
  <2>6. At(h, Here(h)) = Top(h.undo)
    BY <1>1, <1>2, <2>2
  <2>7. ASSUME NEW i \in 1..Span(h) PROVE At(g, i) = IF i = Here(h) THEN e ELSE At(h, i)
    <3>1. CASE i < Here(h)
      <4>1. i \in 1..Here(g) /\ i \in 1..Here(h) /\ i \in 1..(Closed(h) - 1)
        BY <1>1, <2>5, <3>1
      <4> QED
        BY <1>2, <2>3, <3>1, <4>1
    <3>2. CASE i = Here(h)
      <4>1. i \in (Here(g) + 1)..Span(g) /\ Span(g) + 1 - i = Undone(h) + 1
        BY <1>1, <2>5, <3>2
      <4> QED
        BY <1>2, <2>4, <3>2, <4>1
    <3>3. CASE i > Here(h)
      <4>1. i \in (Here(g) + 1)..Span(g) /\ i \in (Here(h) + 1)..Span(h) /\ Span(h) + 1 - i \in 1..Undone(h)
              /\ i # Here(h)
        BY SMTT(30), <1>1, <2>5, <3>3
      <4>2. At(g, i) = g.redo[Span(h) + 1 - i] /\ At(h, i) = h.redo[Span(h) + 1 - i]
        BY <1>2, <2>5, <4>1
      <4> QED
        BY <2>4, <4>1, <4>2
    <3> QED
      BY <1>1, <3>1, <3>2, <3>3
  <2> QED
    BY <1>3, <2>5, <2>6, <2>7 DEF Next1, Beyond, Stack
<1>4. CASE dir = "redo"
  <2>1. h.redo # <<>> /\ g.redo = Pop(h.redo) /\ g.undo = Append(h.undo, e)
    BY <1>4 DEF Stack, Opposite
  <2>2. Undone(h) > 0 /\ Top(h.redo) = h.redo[Undone(h)]
    BY <1>1, <2>1, TopFacts DEF Undone
  <2>3. Undone(g) = Undone(h) - 1 /\ \A i \in 1..(Undone(h) - 1) : g.redo[i] = h.redo[i]
    BY <1>1, <2>1, PopFacts DEF Undone
  <2>4. Closed(g) = Closed(h) + 1 /\ g.undo[Closed(h) + 1] = e
          /\ \A i \in 1..Closed(h) : g.undo[i] = h.undo[i]
    BY <1>1, <2>1, AppendFacts DEF Closed
  <2>5. Span(g) = Span(h) /\ Here(g) = Here(h) + 1 /\ Here(h) + 1 \in 1..Span(h)
    BY <1>1, <2>2, <2>3, <2>4
  <2>6. At(h, Here(h) + 1) = Top(h.redo)
    <3>1. Here(h) + 1 \in (Here(h) + 1)..Span(h) /\ Span(h) + 1 - (Here(h) + 1) = Undone(h)
      BY <1>1, <2>5
    <3> QED
      BY <1>2, <2>2, <3>1
  <2>7. ASSUME NEW i \in 1..Span(h) PROVE At(g, i) = IF i = Here(h) + 1 THEN e ELSE At(h, i)
    <3>1. CASE i <= Here(h)
      <4>1. i \in 1..Here(g) /\ i \in 1..Here(h) /\ i \in 1..Closed(h) /\ i # Here(h) + 1
        BY <1>1, <2>5, <3>1
      <4> QED
        BY <1>2, <2>4, <4>1
    <3>2. CASE i = Here(h) + 1
      <4>1. i \in 1..Here(g) /\ i = Closed(h) + 1
        BY <1>1, <2>5, <3>2
      <4> QED
        BY <1>2, <2>4, <3>2, <4>1
    <3>3. CASE i > Here(h) + 1
      <4>1. i \in (Here(g) + 1)..Span(g) /\ i \in (Here(h) + 1)..Span(h)
              /\ Span(h) + 1 - i \in 1..(Undone(h) - 1) /\ i # Here(h) + 1
        BY SMTT(30), <1>1, <2>5, <3>3
      <4>2. At(g, i) = g.redo[Span(h) + 1 - i] /\ At(h, i) = h.redo[Span(h) + 1 - i]
        BY <1>2, <2>5, <4>1
      <4>3. g.redo[Span(h) + 1 - i] = h.redo[Span(h) + 1 - i]
        BY <2>3, <4>1
      <4>4. At(g, i) = At(h, i) /\ i # Here(h) + 1
        BY <4>1, <4>2, <4>3
      <4> QED
        BY <4>4
    <3>4. i <= Here(h) \/ i = Here(h) + 1 \/ i > Here(h) + 1
      <4>1. Here(h) \in Nat /\ i \in Int
        BY <1>1
      <4> QED
        BY <4>1
    <3> QED
      BY <3>1, <3>2, <3>3, <3>4
  <2> QED
    BY <1>4, <2>5, <2>6, <2>7 DEF Next1, Beyond, Stack
<1> QED
  BY <1>3, <1>4 DEF Directions


-----------------------------------------------------------------------------
(* What the methods make of the walk.                                      *)

LEMMA SameWalk ==
    ASSUME NEW h, NEW g, SameStacks(h, g)
    PROVE  /\ Closed(g) = Closed(h) /\ Open(g) = Open(h) /\ Undone(g) = Undone(h)
           /\ Here(g) = Here(h) /\ Span(g) = Span(h)
           /\ \A i : At(g, i) = At(h, i) /\ (InGroup(g, i) <=> InGroup(h, i))
<1>1. g.undo = h.undo /\ g.redo = h.redo /\ GroupEntries(g) = GroupEntries(h)
  BY DEF SameStacks, GroupEntries
<1>2. Closed(g) = Closed(h) /\ Open(g) = Open(h) /\ Undone(g) = Undone(h)
  BY <1>1 DEF Closed, Open, Undone
<1>3. Here(g) = Here(h) /\ Span(g) = Span(h)
  BY <1>2 DEF Here, Span
<1>4. \A i : At(g, i) = At(h, i)
  BY <1>1, <1>2, <1>3 DEF At
<1> QED
  BY <1>2, <1>3, <1>4 DEF InGroup

LEMMA ConcatFacts ==
    ASSUME NEW S, NEW s \in Seq(S), NEW t \in Seq(S)
    PROVE  /\ Len(s \o t) = Len(s) + Len(t)
           /\ \A i \in 1..Len(s) : (s \o t)[i] = s[i]
           /\ \A i \in 1..Len(t) : (s \o t)[Len(s) + i] = t[i]
<1>1. Len(s) \in Nat /\ Len(t) \in Nat /\ Len(s \o t) = Len(s) + Len(t)
  OBVIOUS
<1>2. \A i \in 1..(Len(s) + Len(t)) : (s \o t)[i] = IF i <= Len(s) THEN s[i] ELSE t[i - Len(s)]
  OBVIOUS
<1>3. ASSUME NEW i \in 1..Len(t) PROVE (s \o t)[Len(s) + i] = t[i]
  <2>1. Len(s) + i \in 1..(Len(s) + Len(t)) /\ ~(Len(s) + i <= Len(s)) /\ Len(s) + i - Len(s) = i
    BY <1>1
  <2> QED
    BY <1>2, <2>1
<1> QED
  BY <1>1, <1>2, <1>3

\* Closing the active group leaves the walk as it is, but for the counts of the group.
LEMMA CloseWalks ==
    ASSUME NEW h, NEW n, HistoryFits(h, n), h.group # None
    PROVE  LET g == CloseActiveGroup(h)
           IN  /\ g \in HistoryStates /\ g.group = None /\ g.pending = h.pending
               /\ Span(g) = Span(h) /\ Here(g) = Here(h)
               /\ \A i \in 1..Span(h) :
                    /\ ~InGroup(h, i) => At(g, i) = At(h, i)
                    /\ InGroup(h, i) =>
                         /\ At(g, i).key = At(h, i).key /\ At(g, i).named = At(h, i).named
                         /\ At(g, i).rec = At(h, i).rec /\ At(g, i).count = Open(h)
<1> DEFINE g == CloseActiveGroup(h)
           e == GroupEntries(h)
           c == Counted(h)
<1>1. /\ h \in HistoryStates /\ g \in HistoryStates /\ g.group = None /\ g.pending = h.pending
      /\ g.undo = h.undo \o c /\ g.redo = h.redo
  BY CloseLeaves DEF HistoryFits
<1>2. e = h.group.entries
  BY DEF GroupEntries
<1>3. /\ c \in Seq(AnyEntry) /\ e \in Seq(AnyEntry) /\ h.undo \in Seq(AnyEntry) /\ Len(c) = Len(e)
      /\ \A i \in 1..Len(e) : c[i].key = e[i].key /\ c[i].rec = e[i].rec
  BY <1>2, CountedEntries
<1>4. ASSUME NEW i \in 1..Len(e) PROVE c[i].named = e[i].named /\ c[i].count = Len(e)
  <2>1. e[i] \in AnyEntry /\ c[i] = [e[i] EXCEPT !.count = Len(e)]
    BY <1>2, <1>3 DEF Counted
  <2> HIDE DEF e, c
  <2> QED
    BY <2>1 DEF AnyEntry
<1> HIDE DEF g, e, c
<1>5. Open(h) = Len(e) /\ Len(c) = Open(h)
  BY <1>3 DEF Open, e
<1>6. /\ Closed(g) = Closed(h) + Open(h)
      /\ \A i \in 1..Closed(h) : g.undo[i] = h.undo[i]
      /\ \A i \in 1..Open(h) : g.undo[Closed(h) + i] = c[i]
  <2>1. /\ Len(h.undo \o c) = Len(h.undo) + Len(c)
        /\ \A i \in 1..Len(h.undo) : (h.undo \o c)[i] = h.undo[i]
        /\ \A i \in 1..Len(c) : (h.undo \o c)[Len(h.undo) + i] = c[i]
    <3> DEFINE u == h.undo
    <3>1. u \in Seq(AnyEntry) /\ c \in Seq(AnyEntry)
      BY <1>3
    <3> HIDE DEF u
    <3>2. /\ Len(u \o c) = Len(u) + Len(c)
          /\ \A i \in 1..Len(u) : (u \o c)[i] = u[i]
          /\ \A i \in 1..Len(c) : (u \o c)[Len(u) + i] = c[i]
      BY <3>1, ConcatFacts
    <3> QED
      BY <3>2 DEF u
  <2> QED
    BY <1>1, <1>5, <2>1 DEF Closed
<1>7. Undone(g) = Undone(h)
  BY <1>1 DEF Undone
<1>8. /\ Closed(h) \in Nat /\ Here(h) \in Nat /\ Span(h) \in Nat /\ Undone(h) \in Nat /\ Closed(h) <= Here(h)
      /\ Here(g) = Closed(g) /\ Span(g) = Here(g) + Undone(g) /\ Span(h) = Here(h) + Undone(h)
  BY <1>1, WalkType
<1>9. Here(h) = Closed(h) + Open(h) /\ Open(h) \in Nat
  BY <1>3, <1>5 DEF Here
<1>10. Here(g) = Here(h) /\ Span(g) = Span(h)
  BY <1>6, <1>7, <1>8, <1>9
<1>11. \A i \in 1..Open(h) :
         /\ c[i].key = e[i].key /\ c[i].rec = e[i].rec
         /\ c[i].named = e[i].named /\ c[i].count = Open(h)
  BY <1>3, <1>4, <1>5
<1>12. ASSUME NEW i \in 1..Span(h)
       PROVE  /\ ~InGroup(h, i) => At(g, i) = At(h, i)
              /\ InGroup(h, i) =>
                   /\ At(g, i).key = At(h, i).key /\ At(g, i).named = At(h, i).named
                   /\ At(g, i).rec = At(h, i).rec /\ At(g, i).count = Open(h)
  <2>1. CASE i <= Closed(h)
    <3>1. i \in 1..Closed(h) /\ i <= Closed(g) /\ ~InGroup(h, i)
      BY <1>6, <1>8, <1>9, <2>1 DEF InGroup
    <3> QED
      BY <1>6, <2>1, <3>1 DEF At
  <2>2. CASE ~(i <= Closed(h)) /\ i <= Here(h)
    <3>1. /\ i - Closed(h) \in 1..Open(h) /\ i <= Closed(g) /\ InGroup(h, i)
          /\ Closed(h) + (i - Closed(h)) = i
      BY <1>6, <1>8, <1>9, <2>2 DEF InGroup
    <3>2. At(h, i) = e[i - Closed(h)]
      BY <2>2 DEF At, e
    <3>3. At(g, i) = c[i - Closed(h)]
      BY <1>6, <3>1 DEF At
    <3> QED
      BY <1>11, <3>1, <3>2, <3>3
  <2>3. CASE ~(i <= Closed(h)) /\ ~(i <= Here(h))
    <3>1. ~(i <= Closed(g)) /\ ~(i <= Here(g)) /\ ~InGroup(h, i)
      BY <1>6, <1>8, <1>9, <1>10, <2>3 DEF InGroup
    <3> QED
      BY <1>1, <1>10, <2>3, <3>1 DEF At
  <2> QED
    BY <2>1, <2>2, <2>3
<1> QED
  BY <1>1, <1>10, <1>12 DEF g

\* A new group is empty.
LEMMA OpenWalks ==
    ASSUME NEW h \in HistoryStates, h.group = None, NEW g \in HistoryStates,
           g.undo = h.undo, g.redo = h.redo, g.group # None, g.group.entries = <<>>
    PROVE  /\ Span(g) = Span(h) /\ Here(g) = Here(h) /\ Undone(g) = Undone(h) /\ Open(g) = 0
           /\ \A i \in 1..Span(h) : At(g, i) = At(h, i) /\ ~InGroup(g, i)
<1>1. GroupEntries(g) = <<>> /\ GroupEntries(h) = <<>>
  BY DEF GroupEntries
<1>2. Closed(g) = Closed(h) /\ Open(g) = 0 /\ Open(h) = 0 /\ Undone(g) = Undone(h)
  BY <1>1 DEF Closed, Open, Undone
<1>3. Here(g) = Here(h) /\ Span(g) = Span(h)
  BY <1>2 DEF Here, Span
<1>4. Closed(g) \in Nat /\ Here(g) = Closed(g)
  <2>1. Closed(g) \in Nat
    BY WalkType
  <2> QED
    BY <1>2, <2>1 DEF Here
<1>5. ASSUME NEW i \in 1..Span(h) PROVE ~InGroup(g, i)
  BY <1>4, WalkType DEF InGroup
<1>6. \A i \in 1..Span(h) : At(g, i) = At(h, i)
  BY <1>1, <1>2, <1>3 DEF At
<1> QED
  BY <1>2, <1>3, <1>5, <1>6

\* A new record lies after what is done, and what was undone is gone.
PushesAt(h, g, e) ==
    /\ Span(g) = Here(h) + 1 /\ Here(g) = Span(g) /\ Undone(g) = 0
    /\ At(g, Here(h) + 1) = e
    /\ \A i \in 1..Here(h) : At(g, i) = At(h, i) /\ (InGroup(g, i) <=> InGroup(h, i))

LEMMA PushAloneWalks ==
    ASSUME NEW h \in HistoryStates, h.group = None, NEW g \in HistoryStates, g.group = None, NEW e,
           g.undo = Append(h.undo, e), g.redo = <<>>
    PROVE  PushesAt(h, g, e)
<1>1. h.undo \in Seq(AnyEntry) /\ GroupEntries(h) = <<>> /\ GroupEntries(g) = <<>>
  BY DEF HistoryStates, GroupEntries
<1>2. /\ Closed(g) = Closed(h) + 1 /\ g.undo[Closed(h) + 1] = e
      /\ \A i \in 1..Closed(h) : g.undo[i] = h.undo[i]
  BY <1>1, AppendFacts DEF Closed
<1>3. Open(g) = 0 /\ Open(h) = 0 /\ Undone(g) = 0
  BY <1>1 DEF Open, Undone
<1>4. Closed(h) \in Nat
  BY WalkType
<1>5. Here(h) = Closed(h) /\ Here(g) = Closed(g) /\ Span(g) = Closed(g)
  BY <1>2, <1>3, <1>4 DEF Here, Span
<1>6. At(g, Here(h) + 1) = e
  <2>1. Here(h) + 1 <= Closed(g)
    BY <1>2, <1>4, <1>5
  <2>2. At(g, Here(h) + 1) = g.undo[Here(h) + 1]
    BY <2>1 DEF At
  <2> QED
    BY <1>2, <1>5, <2>2
<1>7. ASSUME NEW i \in 1..Here(h) PROVE At(g, i) = At(h, i) /\ ~InGroup(g, i) /\ ~InGroup(h, i)
  <2>1. i <= Closed(h) /\ i <= Closed(g) /\ ~(Closed(h) < i) /\ ~(Closed(g) < i) /\ i \in 1..Closed(h)
    BY <1>2, <1>4, <1>5
  <2>2. At(g, i) = g.undo[i] /\ At(h, i) = h.undo[i]
    BY <2>1 DEF At
  <2> QED
    BY <1>2, <2>1, <2>2 DEF InGroup
<1> QED
  BY <1>2, <1>3, <1>5, <1>6, <1>7 DEF PushesAt

LEMMA PushGroupedWalks ==
    ASSUME NEW h \in HistoryStates, h.group # None, NEW g \in HistoryStates, g.group # None, NEW e,
           g.undo = h.undo, g.redo = <<>>, g.group.entries = Append(h.group.entries, e)
    PROVE  PushesAt(h, g, e) /\ InGroup(g, Here(h) + 1) /\ Open(g) = Open(h) + 1
<1>1. GroupEntries(h) \in Seq(AnyEntry) /\ GroupEntries(g) = Append(GroupEntries(h), e)
  BY DEF HistoryStates, GroupEntries
<1>2. /\ Open(g) = Open(h) + 1 /\ GroupEntries(g)[Open(h) + 1] = e /\ Open(h) \in Nat
      /\ \A i \in 1..Open(h) : GroupEntries(g)[i] = GroupEntries(h)[i]
  BY <1>1, AppendFacts DEF Open
<1>3. Closed(g) = Closed(h) /\ Undone(g) = 0
  BY DEF Closed, Undone
<1>4. Closed(h) \in Nat
  BY WalkType
<1>5. Here(h) = Closed(h) + Open(h) /\ Here(g) = Here(h) + 1 /\ Span(g) = Here(h) + 1
  BY <1>2, <1>3, <1>4 DEF Here, Span
<1>6. At(g, Here(h) + 1) = e /\ InGroup(g, Here(h) + 1)
  <2>2. InGroup(g, Here(h) + 1)
    BY <1>2, <1>3, <1>4, <1>5 DEF InGroup
  <2>3. \A i : ~(i <= Closed(g)) /\ i <= Here(g) => At(g, i) = GroupEntries(g)[i - Closed(g)]
    BY DEF At
  <2>4. PICK i : i = Here(h) + 1
    OBVIOUS
  <2>5. i \in Nat /\ ~(i <= Closed(g)) /\ i <= Here(g) /\ i - Closed(g) = Open(h) + 1
    BY <1>2, <1>3, <1>4, <1>5, <2>4
  <2>6. At(g, i) = GroupEntries(g)[Open(h) + 1]
    BY <2>3, <2>5
  <2> QED
    BY <1>2, <2>2, <2>4, <2>6
<1>7. ASSUME NEW i \in 1..Here(h) PROVE At(g, i) = At(h, i) /\ (InGroup(g, i) <=> InGroup(h, i))
  <2>1. CASE i <= Closed(h)
    <3>1. i <= Closed(g) /\ ~(Closed(h) < i) /\ ~(Closed(g) < i)
      BY <1>3, <1>4, <2>1
    <3>2. At(g, i) = g.undo[i] /\ At(h, i) = h.undo[i]
      BY <2>1, <3>1 DEF At
    <3> QED
      BY <3>1, <3>2 DEF InGroup
  <2>2. CASE ~(i <= Closed(h))
    <3>1. i <= Here(h) /\ i <= Here(g) /\ i - Closed(h) \in 1..Open(h)
      BY <1>2, <1>4, <1>5, <2>2
    <3>2. ~(i <= Closed(g))
      BY <1>3, <2>2
    <3>3. At(g, i) = GroupEntries(g)[i - Closed(g)] /\ At(h, i) = GroupEntries(h)[i - Closed(h)]
      BY <2>2, <3>1, <3>2 DEF At
    <3>4. Closed(h) < i /\ Closed(g) < i
      BY <1>3, <1>4, <2>2
    <3> QED
      BY <1>2, <1>3, <3>1, <3>3, <3>4 DEF InGroup
  <2> QED
    BY <2>1, <2>2
<1> QED
  BY <1>2, <1>3, <1>5, <1>6, <1>7 DEF PushesAt

\* The entries from place a to place b, around the place the history is at, are gone.
Removes(h, g, a, b) ==
    /\ a \in 1..(Here(h) + 1) /\ b \in Here(h)..Span(h)
    /\ Here(g) = a - 1 /\ Span(g) = Span(h) - (b + 1 - a)
    /\ \A i \in 1..Span(g) : At(g, i) = At(h, IF i < a THEN i ELSE i + (b + 1 - a))

\* Two histories without a group whose stacks are prefixes of two others'.
LEMMA PrefixWalks ==
    ASSUME NEW h \in HistoryStates, h.group = None, NEW g \in HistoryStates, g.group = None,
           NEW a \in 1..(Here(h) + 1), NEW b \in Here(h)..Span(h),
           Len(g.undo) = a - 1, \A i \in 1..(a - 1) : g.undo[i] = h.undo[i],
           Len(g.redo) = Span(h) - b, \A i \in 1..(Span(h) - b) : g.redo[i] = h.redo[i]
    PROVE  Removes(h, g, a, b)
<1>1. /\ Here(h) \in Nat /\ Span(h) \in Nat /\ Here(h) <= Span(h) /\ Here(g) \in Nat /\ Span(g) \in Nat
      /\ Here(g) = Closed(g) /\ Span(g) = Here(g) + Undone(g) /\ Closed(h) = Here(h)
      /\ Span(h) = Here(h) + Undone(h) /\ Undone(h) \in Nat /\ Undone(g) \in Nat
  BY WalkType
<1>2. Closed(g) = a - 1 /\ Undone(g) = Span(h) - b
  BY DEF Closed, Undone
<1>3. Here(g) = a - 1 /\ Span(g) = Span(h) - (b + 1 - a)
  BY <1>1, <1>2
<1>4. /\ \A i \in 1..Here(h) : At(h, i) = h.undo[i]
      /\ \A i \in (Here(h) + 1)..Span(h) : At(h, i) = h.redo[Span(h) + 1 - i]
      /\ \A i \in 1..Here(g) : At(g, i) = g.undo[i]
      /\ \A i \in (Here(g) + 1)..Span(g) : At(g, i) = g.redo[Span(g) + 1 - i]
  BY WalkOfStacks
<1>5. ASSUME NEW i \in 1..Span(g) PROVE At(g, i) = At(h, IF i < a THEN i ELSE i + (b + 1 - a))
  <2>1. CASE i < a
    <3>1. i \in 1..Here(g) /\ i \in 1..Here(h) /\ i \in 1..(a - 1)
      BY <1>1, <1>3, <2>1
    <3> QED
      BY <1>4, <2>1, <3>1
  <2>2. CASE ~(i < a)
    <3> DEFINE k == i + (b + 1 - a)
    <3>0. a \in Int /\ b \in Int /\ a >= 1 /\ a <= Here(h) + 1 /\ Here(h) <= b /\ b <= Span(h)
            /\ i \in Int /\ 1 <= i /\ i <= Span(g) /\ k \in Int
      BY <1>1
    <3>1. i \in (Here(g) + 1)..Span(g) /\ k \in (Here(h) + 1)..Span(h)
          /\ Span(g) + 1 - i = Span(h) + 1 - k /\ Span(g) + 1 - i \in 1..(Span(h) - b)
      <4> DEFINE H == Here(h)
                 S == Span(h)
      <4>1. H \in Int /\ S \in Int /\ H <= S /\ Here(g) = a - 1 /\ Span(g) = S - (b + 1 - a)
              /\ a <= H + 1 /\ H <= b /\ b <= S /\ k = i + (b + 1 - a)
        BY <1>1, <1>3, <3>0
      <4> HIDE DEF H, S, k
      <4>2. i >= a /\ i <= S - (b + 1 - a)
        BY <2>2, <3>0, <4>1
      <4>3. i \in (Here(g) + 1)..Span(g)
        BY <3>0, <4>1, <4>2
      <4>4. k \in (H + 1)..S
        BY <3>0, <4>1, <4>2
      <4>5. Span(g) + 1 - i = S + 1 - k /\ Span(g) + 1 - i \in 1..(S - b)
        BY <3>0, <4>1, <4>2
      <4> QED
        BY <4>3, <4>4, <4>5 DEF H, S
    <3> HIDE DEF k
    <3>2. At(g, i) = g.redo[Span(g) + 1 - i] /\ At(h, k) = h.redo[Span(g) + 1 - i]
      BY <1>4, <3>1
    <3>3. At(g, i) = At(h, k)
      BY <3>1, <3>2
    <3> QED
      BY <2>2, <3>3 DEF k
  <2> QED
    BY <2>1, <2>2
<1> QED
  BY <1>3, <1>5 DEF Removes

\* Dropping the top of a stack.
LEMMA DropWalks ==
    ASSUME NEW h \in HistoryStates, h.group = None, NEW g \in HistoryStates, g.group = None,
           NEW dir \in Directions, Stack(h, dir) # <<>>,
           Stack(g, dir) = Pop(Stack(h, dir)), Stack(g, Opposite(dir)) = Stack(h, Opposite(dir))
    PROVE  /\ Removes(h, g, Next1(h, dir), Next1(h, dir)) /\ Next1(h, dir) \in 1..Span(h)
           /\ At(h, Next1(h, dir)) = Top(Stack(h, dir))
<1>1. /\ Here(h) \in Nat /\ Span(h) \in Nat /\ Here(h) <= Span(h) /\ Closed(h) = Here(h)
      /\ Span(h) = Here(h) + Undone(h) /\ Undone(h) \in Nat
      /\ h.undo \in Seq(AnyEntry) /\ h.redo \in Seq(AnyEntry)
  BY WalkType
<1>2. /\ \A i \in 1..Here(h) : At(h, i) = h.undo[i]
      /\ \A i \in (Here(h) + 1)..Span(h) : At(h, i) = h.redo[Span(h) + 1 - i]
  BY WalkOfStacks
<1>3. Len(h.undo) = Here(h) /\ Len(h.redo) = Span(h) - Here(h)
  BY <1>1 DEF Closed, Undone
<1>4. CASE dir = "undo"
  <2>1. h.undo # <<>> /\ g.undo = Pop(h.undo) /\ g.redo = h.redo
    BY <1>4 DEF Stack, Opposite
  <2>2. Len(g.undo) = Here(h) - 1 /\ \A i \in 1..(Here(h) - 1) : g.undo[i] = h.undo[i]
    <3> DEFINE s == h.undo
    <3>1. s \in Seq(AnyEntry) /\ s # <<>> /\ Len(s) = Here(h)
      BY <1>1, <1>3, <2>1
    <3> HIDE DEF s
    <3>2. Len(Pop(s)) = Len(s) - 1 /\ \A i \in 1..(Len(s) - 1) : Pop(s)[i] = s[i]
      BY <3>1, PopFacts
    <3> QED
      BY <2>1, <3>1, <3>2 DEF s
  <2>3. Here(h) > 0 /\ Top(h.undo) = h.undo[Here(h)]
    BY <1>1, <1>3, <2>1, TopFacts
  <2>4. Here(h) \in 1..(Here(h) + 1) /\ Here(h) \in Here(h)..Span(h) /\ Here(h) \in 1..Here(h)
          /\ Here(h) \in 1..Span(h)
    BY <1>1, <2>3
  <2>5. \A i \in 1..(Span(h) - Here(h)) : g.redo[i] = h.redo[i]
    BY <2>1
  <2>6. Removes(h, g, Here(h), Here(h))
    BY <1>3, <2>1, <2>2, <2>4, <2>5, PrefixWalks
  <2>7. At(h, Here(h)) = Top(Stack(h, dir))
    BY <1>2, <1>4, <2>3, <2>4 DEF Stack
  <2> QED
    BY <1>4, <2>4, <2>6, <2>7 DEF Next1
<1>5. CASE dir = "redo"
  <2>1. h.redo # <<>> /\ g.redo = Pop(h.redo) /\ g.undo = h.undo
    BY <1>5 DEF Stack, Opposite
  <2>2. Len(g.redo) = Span(h) - Here(h) - 1 /\ \A i \in 1..(Span(h) - Here(h) - 1) : g.redo[i] = h.redo[i]
    <3> DEFINE s == h.redo
    <3>1. s \in Seq(AnyEntry) /\ s # <<>> /\ Len(s) = Span(h) - Here(h)
      BY <1>1, <1>3, <2>1
    <3> HIDE DEF s
    <3>2. Len(Pop(s)) = Len(s) - 1 /\ \A i \in 1..(Len(s) - 1) : Pop(s)[i] = s[i]
      BY <3>1, PopFacts
    <3> QED
      BY <2>1, <3>1, <3>2 DEF s
  <2>3. Span(h) - Here(h) > 0 /\ Top(h.redo) = h.redo[Span(h) - Here(h)]
    BY <1>1, <1>3, <2>1, TopFacts
  <2> DEFINE k == Here(h) + 1
  <2>4. k \in 1..(Here(h) + 1) /\ k \in Here(h)..Span(h) /\ k - 1 = Here(h) /\ k \in (Here(h) + 1)..Span(h)
          /\ k \in 1..Span(h) /\ Span(h) - k = Span(h) - Here(h) - 1 /\ Span(h) + 1 - k = Span(h) - Here(h)
    BY <1>1, <2>3
  <2> HIDE DEF k
  <2>5. \A i \in 1..(k - 1) : g.undo[i] = h.undo[i]
    BY <2>1
  <2>6. Removes(h, g, k, k)
    BY <1>3, <2>1, <2>2, <2>4, <2>5, PrefixWalks
  <2>7. At(h, k) = Top(Stack(h, dir))
    BY <1>2, <1>5, <2>3, <2>4 DEF Stack
  <2> QED
    BY <1>5, <2>4, <2>6, <2>7 DEF Next1, k
<1> QED
  BY <1>4, <1>5 DEF Directions

\* A stack with the entries of group key on top of it, and without them.
LEMMA WithoutTop ==
    ASSUME NEW s \in Seq(AnyEntry), NEW key, NEW n \in 0..Len(s),
           \A i \in 1..Len(s) : s[i].key = key <=> i > n
    PROVE  Len(Without(s, key)) = n /\ \A i \in 1..n : Without(s, key)[i] = s[i]
<1>1. PICK kept :
         /\ kept[0] = <<>>
         /\ \A i \in 1..Len(s) : kept[i] = IF s[i].key = key THEN kept[i - 1]
                                           ELSE Append(kept[i - 1], s[i])
         /\ Without(s, key) = kept[Len(s)]
  BY WithoutKept
<1>2. Len(s) \in Nat /\ n \in Nat /\ n <= Len(s)
  OBVIOUS
<1> DEFINE Part(m) == IF m < n THEN m ELSE n
           Fits(t, k) == t \in Seq(AnyEntry) /\ Len(t) = k /\ \A i \in 1..k : t[i] = s[i]
           Wrong == {m \in Nat : m <= Len(s) /\ ~Fits(kept[m], Part(m))}
<1>3. ASSUME NEW m \in Wrong, \A k \in Wrong : m <= k PROVE FALSE
  <2>1. m \in 0..Len(s) /\ m \in Nat /\ ~Fits(kept[m], Part(m))
    BY <1>2, <1>3
  <2>2. CASE m = 0
    <3>1. kept[m] = <<>> /\ Part(m) = 0
      BY <1>1, <1>2, <2>2
    <3> HIDE DEF Part
    <3> QED
      BY <2>1, <3>1
  <2>3. CASE m # 0
    <3>1. m - 1 \in Nat /\ m - 1 <= Len(s) /\ m \in 1..Len(s) /\ ~(m <= m - 1)
      BY <1>2, <2>1, <2>3
    <3>2. Fits(kept[m - 1], Part(m - 1))
      <4>1. m - 1 \notin Wrong
        <5> HIDE DEF Wrong
        <5> QED
          BY <1>3, <3>1
      <4> HIDE DEF Fits, Part
      <4> QED
        BY <3>1, <4>1
    <3>3. s[m] \in AnyEntry
      BY <3>1
    <3>4. CASE m > n
      <4>1. kept[m] = kept[m - 1]
        BY <1>1, <3>1, <3>4
      <4>2. Part(m) = Part(m - 1)
        BY <1>2, <3>1, <3>4
      <4> HIDE DEF Fits, Part
      <4> QED
        BY <2>1, <3>2, <4>1, <4>2
    <3>5. CASE ~(m > n)
      <4>1. kept[m] = Append(kept[m - 1], s[m])
        BY <1>1, <3>1, <3>5
      <4>2. Part(m) = m /\ Part(m - 1) = m - 1
        BY <1>2, <3>1, <3>5
      <4> DEFINE t == kept[m - 1]
      <4>3. t \in Seq(AnyEntry) /\ Len(t) = m - 1 /\ \A i \in 1..(m - 1) : t[i] = s[i]
        BY <3>2, <4>2
      <4> HIDE DEF t, Part
      <4>4. /\ Append(t, s[m]) \in Seq(AnyEntry) /\ Len(Append(t, s[m])) = m
            /\ \A i \in 1..m : Append(t, s[m])[i] = s[i]
        BY <3>1, <3>3, <4>3
      <4>5. Fits(kept[m], m)
        BY <4>1, <4>4 DEF t
      <4> QED
        BY <2>1, <4>2, <4>5
    <3> QED
      BY <1>2, <2>1, <3>4, <3>5
  <2> QED
    BY <2>2, <2>3
<1>4. Wrong = {}
  <2>1. Wrong \subseteq Nat
    OBVIOUS
  <2> HIDE DEF Wrong
  <2> QED
    BY <1>3, <2>1, Least
<1>5. Fits(kept[Len(s)], Part(Len(s)))
  BY <1>2, <1>4
<1>6. Part(Len(s)) = n
  BY <1>2
<1> QED
  BY <1>1, <1>5, <1>6

\* Dropping a group whose entries lie around the place the history is at.
LEMMA WithoutWalks ==
    ASSUME NEW h \in HistoryStates, h.group = None, NEW g \in HistoryStates, g.group = None, NEW key,
           NEW a \in 1..(Here(h) + 1), NEW b \in Here(h)..Span(h),
           \A i \in 1..Span(h) : At(h, i).key = key <=> a <= i /\ i <= b,
           g.undo = Without(h.undo, key), g.redo = Without(h.redo, key)
    PROVE  Removes(h, g, a, b)
<1>1. /\ Here(h) \in Nat /\ Span(h) \in Nat /\ Here(h) <= Span(h) /\ Closed(h) = Here(h)
      /\ Span(h) = Here(h) + Undone(h) /\ Undone(h) \in Nat
      /\ h.undo \in Seq(AnyEntry) /\ h.redo \in Seq(AnyEntry)
  BY WalkType
<1>2. /\ \A i \in 1..Here(h) : At(h, i) = h.undo[i]
      /\ \A i \in (Here(h) + 1)..Span(h) : At(h, i) = h.redo[Span(h) + 1 - i]
  BY WalkOfStacks
<1>3. Len(h.undo) = Here(h) /\ Len(h.redo) = Span(h) - Here(h)
  BY <1>1 DEF Closed, Undone
<1>4. Len(g.undo) = a - 1 /\ \A i \in 1..(a - 1) : g.undo[i] = h.undo[i]
  <2> DEFINE u == h.undo
  <2>1. u \in Seq(AnyEntry) /\ Len(u) = Here(h) /\ a - 1 \in 0..Here(h)
    BY <1>1, <1>3
  <2>2. ASSUME NEW i \in 1..Here(h) PROVE u[i].key = key <=> i > a - 1
    <3>1. i \in 1..Span(h) /\ At(h, i) = u[i] /\ i <= b
      BY <1>1, <1>2
    <3>2. u[i].key = key <=> a <= i
      BY <3>1
    <3> QED
      BY <1>1, <3>2
  <2> HIDE DEF u
  <2>3. Len(Without(u, key)) = a - 1 /\ \A i \in 1..(a - 1) : Without(u, key)[i] = u[i]
    BY <2>1, <2>2, WithoutTop
  <2> QED
    BY <2>3 DEF u
<1>5. Len(g.redo) = Span(h) - b /\ \A i \in 1..(Span(h) - b) : g.redo[i] = h.redo[i]
  <2> DEFINE r == h.redo
             n == Span(h) - b
  <2>1. r \in Seq(AnyEntry) /\ Len(r) = Span(h) - Here(h) /\ n \in 0..(Span(h) - Here(h))
    BY <1>1, <1>3
  <2>2. ASSUME NEW i \in 1..(Span(h) - Here(h)) PROVE r[i].key = key <=> i > n
    <3>1. /\ Span(h) + 1 - i \in (Here(h) + 1)..Span(h) /\ Span(h) + 1 - i \in 1..Span(h)
          /\ Span(h) + 1 - (Span(h) + 1 - i) = i /\ a <= Span(h) + 1 - i
      <4> DEFINE p == Span(h)
                 q == Here(h)
      <4>1. p \in Nat /\ q \in Nat /\ a \in Nat /\ a <= q + 1 /\ i \in 1..(p - q) /\ q <= p
        BY <1>1
      <4> HIDE DEF p, q
      <4>2. p + 1 - i \in (q + 1)..p /\ p + 1 - i \in 1..p /\ p + 1 - (p + 1 - i) = i /\ a <= p + 1 - i
        BY <4>1, SMTT(30)
      <4> QED
        BY <4>2 DEF p, q
    <3>2. At(h, Span(h) + 1 - i) = r[i]
      BY <1>2, <3>1
    <3>3. r[i].key = key <=> Span(h) + 1 - i <= b
      BY <3>1, <3>2
    <3> QED
      BY <1>1, <3>3
  <2> HIDE DEF r, n
  <2>3. Len(Without(r, key)) = n /\ \A i \in 1..n : Without(r, key)[i] = r[i]
    BY <2>1, <2>2, WithoutTop
  <2> QED
    BY <2>3 DEF r, n
<1> QED
  BY <1>4, <1>5, PrefixWalks


-----------------------------------------------------------------------------
(* The groups in the walk.  The entries of a group lie side by side, as many *)
(* as each of them counts; the active group is at the end of what is done;   *)
(* and only the group of key may be cut by the place the history is at.      *)

Block(h, key, a, count) ==
    /\ a \in 1..Span(h) /\ count \in Nat /\ count > 0 /\ a + count - 1 <= Span(h)
    /\ \A i \in 1..Span(h) : At(h, i).key = key <=> a <= i /\ i <= a + count - 1

Whole(h, i) == \E a \in 1..Span(h) : Block(h, At(h, i).key, a, At(h, i).count)

Blocks(h) ==
    \A i \in 1..Span(h) : ~InGroup(h, i) => Whole(h, i) /\ (At(h, i).named \/ At(h, i).count = 1)

Counts(h) == \A i \in 1..Span(h) : At(h, i).count \in 1..MaxGroupEdits

GroupKeys(h) ==
    h.group # None =>
        /\ \A i \in 1..Span(h) : At(h, i).key = h.group.token <=> InGroup(h, i)
        /\ \A i \in 1..Span(h) : InGroup(h, i) => At(h, i).named
        /\ Open(h) # 0 => Undone(h) = 0

GroupSmall(h) == h.group # None => Open(h) < MaxGroupEdits

Cut(h, key) ==
    \A i, j \in 1..Span(h) :
      i <= Here(h) /\ Here(h) < j /\ At(h, i).key = At(h, j).key => At(h, i).key = key

WalkFits(h, key) == Blocks(h) /\ Counts(h) /\ GroupKeys(h) /\ Cut(h, key)

\* The group of an undo or redo with done of its steps completed.
Accounts(h, dir, key, done, count) ==
    /\ count \in Nat /\ done \in 0..count
    /\ \E a \in 1..Span(h) :
         /\ Block(h, key, a, count)
         /\ Here(h) = IF dir = "undo" THEN a + count - 1 - done ELSE a - 1 + done

Occurs(h, key) == \E i \in 1..Span(h) : At(h, i).key = key

LEMMA SpanType ==
    ASSUME NEW h \in HistoryStates
    PROVE  /\ Here(h) \in Nat /\ Span(h) \in Nat /\ Here(h) <= Span(h) /\ Closed(h) \in Nat
           /\ Closed(h) <= Here(h) /\ Open(h) \in Nat /\ Here(h) = Closed(h) + Open(h)
           /\ Undone(h) \in Nat /\ Span(h) = Here(h) + Undone(h)
           /\ \A i \in 1..Span(h) : At(h, i) \in AnyEntry /\ At(h, i).key \in 1..MaxSequence
           /\ h.group = None => Here(h) = Closed(h) /\ Open(h) = 0
           /\ h.group = None => \A i \in 1..Span(h) : ~InGroup(h, i)
<1>1. /\ Here(h) \in Nat /\ Span(h) \in Nat /\ Here(h) <= Span(h) /\ Closed(h) \in Nat
      /\ Closed(h) <= Here(h) /\ Undone(h) \in Nat /\ Span(h) = Here(h) + Undone(h)
      /\ \A i \in 1..Span(h) : At(h, i) \in AnyEntry
      /\ h.group = None => Here(h) = Closed(h)
  BY WalkType
<1>2. GroupEntries(h) \in Seq(AnyEntry)
  BY WalkType
<1>3. Open(h) \in Nat
  BY <1>2 DEF Open
<1>4. Here(h) = Closed(h) + Open(h)
  BY DEF Here
<1>5. h.group = None => Open(h) = 0
  BY <1>1, <1>3, <1>4
<1>6. h.group = None => \A i \in 1..Span(h) : ~InGroup(h, i)
  BY <1>1 DEF InGroup
<1>7. \A i \in 1..Span(h) : At(h, i).key \in 1..MaxSequence
  BY <1>1 DEF AnyEntry
<1> QED
  BY <1>1, <1>3, <1>4, <1>5, <1>6, <1>7

\* The same walk with other records.
Alike(h, g) ==
    /\ Span(g) = Span(h)
    /\ \A i \in 1..Span(h) : SameEntry(At(h, i), At(g, i))

LEMMA AlikeBlocks ==
    ASSUME NEW h, NEW g, Alike(h, g)
    PROVE  /\ \A key, a, count : Block(h, key, a, count) => Block(g, key, a, count)
           /\ \A i \in 1..Span(h) : Whole(h, i) => Whole(g, i)
           /\ Counts(h) => Counts(g)
           /\ \A key : Occurs(h, key) <=> Occurs(g, key)
<1>1. \A key, a, count : Block(h, key, a, count) => Block(g, key, a, count)
  BY DEF Alike, SameEntry, Block
<1>2. ASSUME NEW i \in 1..Span(h), Whole(h, i) PROVE Whole(g, i)
  <2>1. PICK a \in 1..Span(h) : Block(h, At(h, i).key, a, At(h, i).count)
    BY <1>2 DEF Whole
  <2>2. At(g, i).key = At(h, i).key /\ At(g, i).count = At(h, i).count /\ Span(g) = Span(h)
    BY DEF Alike, SameEntry
  <2>3. Block(g, At(g, i).key, a, At(g, i).count)
    BY <1>1, <2>1, <2>2
  <2> QED
    BY <2>2, <2>3 DEF Whole
<1>3. Counts(h) => Counts(g)
  BY DEF Alike, SameEntry, Counts
<1>4. \A key : Occurs(h, key) <=> Occurs(g, key)
  BY DEF Alike, SameEntry, Occurs
<1> QED
  BY <1>1, <1>2, <1>3, <1>4

\* Without a group, the place the history is at decides only what is cut.
LEMMA AlikeFits ==
    ASSUME NEW h \in HistoryStates, NEW g \in HistoryStates, h.group = None, g.group = None,
           Alike(h, g), NEW k, WalkFits(h, k)
    PROVE  Blocks(g) /\ Counts(g) /\ GroupKeys(g) /\ GroupSmall(g)
<1>1. /\ \A i \in 1..Span(h) : ~InGroup(h, i)
      /\ Span(g) = Span(h)
  BY SpanType DEF Alike
<1>2. Counts(g)
  BY AlikeBlocks DEF WalkFits
<1>3. GroupKeys(g) /\ GroupSmall(g)
  BY DEF GroupKeys, GroupSmall
<1>4. Blocks(g)
  <2> SUFFICES ASSUME NEW i \in 1..Span(g)
               PROVE  Whole(g, i) /\ (At(g, i).named \/ At(g, i).count = 1)
    BY DEF Blocks
  <2>1. i \in 1..Span(h) /\ Whole(h, i) /\ (At(h, i).named \/ At(h, i).count = 1)
    BY <1>1 DEF WalkFits, Blocks
  <2>2. Whole(g, i)
    BY <2>1, AlikeBlocks
  <2> QED
    BY <2>1, <2>2 DEF Alike, SameEntry
<1> QED
  BY <1>2, <1>3, <1>4

\* A key that is on one side only does not excuse a cut.
LEMMA CutNone ==
    ASSUME NEW h, NEW key, Cut(h, key),
           \A i, j \in 1..Span(h) :
             ~(i <= Here(h) /\ Here(h) < j /\ At(h, i).key = key /\ At(h, j).key = key)
    PROVE  \A k : Cut(h, k)
BY DEF Cut

LEMMA CutAny ==
    ASSUME NEW h \in HistoryStates, Cut(h, None)
    PROVE  \A k : Cut(h, k)
<1>1. \A i \in 1..Span(h) : At(h, i).key # None
  BY SpanType, EditAssumption
<1> QED
  BY <1>1 DEF Cut

LEMMA NothingDone ==
    ASSUME NEW h \in HistoryStates, NEW dir, NEW key, NEW done, NEW count,
           Accounts(h, dir, key, done, count), done = 0 \/ done = count, Cut(h, key)
    PROVE  \A k : Cut(h, k)
<1>1. PICK a \in 1..Span(h) :
         /\ Block(h, key, a, count)
         /\ Here(h) = IF dir = "undo" THEN a + count - 1 - done ELSE a - 1 + done
  BY DEF Accounts
<1>2. Span(h) \in Nat /\ Here(h) \in Nat /\ count \in Nat /\ done \in Nat
  BY SpanType DEF Accounts
<1>3. Here(h) = a - 1 \/ Here(h) = a + count - 1
  BY <1>1, <1>2
<1>4. \A i \in 1..Span(h) : At(h, i).key = key <=> a <= i /\ i <= a + count - 1
  BY <1>1 DEF Block
<1>5. ASSUME NEW i \in 1..Span(h), NEW j \in 1..Span(h), i <= Here(h), Here(h) < j,
             At(h, i).key = key, At(h, j).key = key
      PROVE  FALSE
  <2>1. a <= i /\ j <= a + count - 1
    BY <1>4, <1>5
  <2> QED
    BY <1>2, <1>3, <1>5, <2>1
<1> QED
  BY <1>5, CutNone

\* What an undo or redo takes next belongs to its group, and one more step is done.
LEMMA NextStep ==
    ASSUME NEW h \in HistoryStates, NEW g \in HistoryStates, NEW dir \in Directions, NEW key,
           NEW done, NEW count, Accounts(h, dir, key, done, count), done < count,
           Alike(h, g), Here(g) = Beyond(h, dir)
    PROVE  /\ Next1(h, dir) \in 1..Span(h) /\ At(h, Next1(h, dir)).key = key
           /\ Accounts(g, dir, key, done + 1, count)
<1>1. PICK a \in 1..Span(h) :
         /\ Block(h, key, a, count)
         /\ Here(h) = IF dir = "undo" THEN a + count - 1 - done ELSE a - 1 + done
  BY DEF Accounts
<1>2. /\ Span(h) \in Nat /\ Here(h) \in Nat /\ count \in Nat /\ done \in 0..count /\ Span(g) = Span(h)
      /\ a + count - 1 <= Span(h)
  BY <1>1, SpanType DEF Accounts, Alike, Block
<1>3. \A i \in 1..Span(h) : At(h, i).key = key <=> a <= i /\ i <= a + count - 1
  BY <1>1 DEF Block
<1>4. Next1(h, dir) \in 1..Span(h) /\ a <= Next1(h, dir) /\ Next1(h, dir) <= a + count - 1
  BY <1>1, <1>2 DEF Next1
<1>5. Here(g) = IF dir = "undo" THEN a + count - 1 - (done + 1) ELSE a - 1 + (done + 1)
  <2>1. CASE dir = "undo"
    BY <1>1, <1>2, <2>1 DEF Beyond
  <2>2. CASE dir # "undo"
    BY <1>1, <1>2, <2>2 DEF Beyond
  <2> QED
    BY <2>1, <2>2
<1>6. Block(g, key, a, count)
  BY <1>1, AlikeBlocks
<1>7. done + 1 \in 0..count
  BY <1>2
<1>8. Accounts(g, dir, key, done + 1, count)
  BY <1>2, <1>5, <1>6, <1>7 DEF Accounts
<1> QED
  BY <1>3, <1>4, <1>8

LEMMA MoveFits ==
    ASSUME NEW h \in HistoryStates, NEW g \in HistoryStates, h.group = None, g.group = None,
           NEW dir \in Directions, NEW key, WalkFits(h, key), Alike(h, g),
           Here(g) = Beyond(h, dir), Next1(h, dir) \in 1..Span(h), At(h, Next1(h, dir)).key = key
    PROVE  WalkFits(g, key) /\ GroupSmall(g)
<1>1. Blocks(g) /\ Counts(g) /\ GroupKeys(g) /\ GroupSmall(g)
  BY AlikeFits
<1>2. /\ Span(h) \in Nat /\ Here(h) \in Nat /\ Span(g) = Span(h)
      /\ \A i \in 1..Span(h) : At(g, i).key = At(h, i).key
  BY SpanType DEF Alike, SameEntry
<1>3. ASSUME NEW i \in 1..Span(g), NEW j \in 1..Span(g), i <= Here(g), Here(g) < j,
             At(g, i).key = At(g, j).key
      PROVE  At(g, i).key = key
  <2>1. i \in 1..Span(h) /\ j \in 1..Span(h) /\ At(h, i).key = At(h, j).key /\ At(g, i).key = At(h, i).key
    BY <1>2, <1>3
  <2>2. CASE i <= Here(h) /\ Here(h) < j
    BY <2>1, <2>2 DEF WalkFits, Cut
  <2>3. CASE ~(i <= Here(h)) \/ ~(Here(h) < j)
    <3>1. i = Next1(h, dir) \/ j = Next1(h, dir)
      <4>1. CASE dir = "undo"
        <5>1. Here(g) = Here(h) - 1 /\ Next1(h, dir) = Here(h)
          BY <4>1 DEF Beyond, Next1
        <5> QED
          BY <1>2, <1>3, <2>3, <5>1
      <4>2. CASE dir # "undo"
        <5>1. Here(g) = Here(h) + 1 /\ Next1(h, dir) = Here(h) + 1
          BY <4>2 DEF Beyond, Next1
        <5> QED
          BY <1>2, <1>3, <2>3, <5>1
      <4> QED
        BY <4>1, <4>2
    <3> QED
      BY <2>1, <3>1
  <2> QED
    BY <2>2, <2>3
<1>4. Cut(g, key)
  BY <1>3 DEF Cut
<1> QED
  BY <1>1, <1>4 DEF WalkFits


LEMMA NextOfGroup ==
    ASSUME NEW h \in HistoryStates, h.group = None, NEW dir \in Directions, NEW key, NEW done, NEW count,
           Accounts(h, dir, key, done, count), done < count
    PROVE  Stack(h, dir) # <<>> /\ Top(Stack(h, dir)).key = key
<1>1. PICK a \in 1..Span(h) :
         /\ Block(h, key, a, count)
         /\ Here(h) = IF dir = "undo" THEN a + count - 1 - done ELSE a - 1 + done
  BY DEF Accounts
<1>2. /\ Span(h) \in Nat /\ Here(h) \in Nat /\ count \in Nat /\ done \in 0..count
      /\ a + count - 1 <= Span(h) /\ Here(h) = Closed(h) /\ Span(h) = Here(h) + Undone(h)
      /\ Undone(h) \in Nat
  BY <1>1, SpanType DEF Accounts, Block
<1>3. \A i \in 1..Span(h) : At(h, i).key = key <=> a <= i /\ i <= a + count - 1
  BY <1>1 DEF Block
<1>4. Next1(h, dir) \in 1..Span(h) /\ a <= Next1(h, dir) /\ Next1(h, dir) <= a + count - 1
  BY <1>1, <1>2 DEF Next1
<1>5. At(h, Next1(h, dir)).key = key
  BY <1>3, <1>4
<1>6. h.undo \in Seq(AnyEntry) /\ h.redo \in Seq(AnyEntry)
  BY WalkType
<1>7. CASE dir = "undo"
  <2>1. Next1(h, dir) = Closed(h) /\ Closed(h) > 0
    BY <1>2, <1>4, <1>7 DEF Next1
  <2>2. h.undo # <<>>
    BY <1>6, <2>1 DEF Closed
  <2>3. At(h, Closed(h)) = h.undo[Closed(h)]
    BY <1>2, <2>1 DEF At
  <2>4. At(h, Next1(h, dir)) = Top(h.undo)
    BY <2>1, <2>3 DEF Top, Closed
  <2> QED
    BY <1>5, <1>7, <2>2, <2>4 DEF Stack
<1>8. CASE dir = "redo"
  <2>1. Next1(h, dir) = Here(h) + 1 /\ Undone(h) > 0
    BY <1>2, <1>4, <1>8 DEF Next1
  <2>2. h.redo # <<>>
    BY <1>6, <2>1 DEF Undone
  <2>3. At(h, Here(h) + 1) = h.redo[Span(h) + 1 - (Here(h) + 1)]
    <3>1. ~(Here(h) + 1 <= Closed(h)) /\ ~(Here(h) + 1 <= Here(h))
      BY <1>2
    <3> QED
      BY <3>1 DEF At
  <2>4. Span(h) + 1 - (Here(h) + 1) = Undone(h)
    BY <1>2
  <2>5. At(h, Next1(h, dir)) = Top(h.redo)
    BY <2>1, <2>3, <2>4 DEF Top, Undone
  <2> QED
    BY <1>5, <1>8, <2>2, <2>5 DEF Stack
<1> QED
  BY <1>7, <1>8 DEF Directions

\* Whole groups can be taken out where the history is.
LEMMA RemoveFits ==
    ASSUME NEW h \in HistoryStates, NEW g \in HistoryStates, h.group = None, g.group = None,
           NEW a, NEW b, Removes(h, g, a, b), NEW k, WalkFits(h, k),
           \A i, j \in 1..Span(h) : a <= i /\ i <= b /\ At(h, i).key = At(h, j).key => a <= j /\ j <= b,
           \A i, j \in 1..Span(h) :
             i <= Here(h) /\ Here(h) < j /\ At(h, i).key = At(h, j).key => a <= i /\ i <= b
    PROVE  (\A m : WalkFits(g, m)) /\ GroupSmall(g)
<1> DEFINE n == b + 1 - a
           f(i) == IF i < a THEN i ELSE i + n
<1>1. /\ Here(h) \in Nat /\ Span(h) \in Nat /\ Here(h) <= Span(h)
      /\ Here(g) \in Nat /\ Span(g) \in Nat /\ Here(g) <= Span(g)
      /\ \A i \in 1..Span(h) : ~InGroup(h, i)
  BY SpanType
<1>2. a \in Nat /\ a > 0 /\ b \in Nat /\ a <= Here(h) + 1 /\ Here(h) <= b /\ b <= Span(h) /\ n \in Nat
      /\ Here(g) = a - 1 /\ Span(g) = Span(h) - n /\ n = b + 1 - a
  BY <1>1 DEF Removes
<1>3. \A i \in 1..Span(g) : At(g, i) = At(h, f(i))
  BY DEF Removes
<1>4. \A i \in 1..Span(g) :
        /\ f(i) \in 1..Span(h) /\ ~(a <= f(i) /\ f(i) <= b)
        /\ i <= Here(g) => f(i) = i /\ f(i) <= Here(h) /\ f(i) < a
        /\ Here(g) < i => f(i) = i + n /\ f(i) > b /\ f(i) > Here(h)
  BY <1>1, <1>2
<1>5. Counts(g)
  BY <1>3, <1>4 DEF WalkFits, Counts
<1>6. \A m : Cut(g, m)
  <2> SUFFICES ASSUME NEW i \in 1..Span(g), NEW j \in 1..Span(g), i <= Here(g), Here(g) < j,
                      At(g, i).key = At(g, j).key
               PROVE  FALSE
    BY DEF Cut
  <2>1. /\ f(i) \in 1..Span(h) /\ f(j) \in 1..Span(h) /\ f(i) <= Here(h) /\ Here(h) < f(j) /\ f(i) < a
    BY <1>1, <1>2, <1>4
  <2>2. At(h, f(i)).key = At(h, f(j)).key
    BY <1>3
  <2> HIDE DEF f
  <2>3. a <= f(i)
    BY <2>1, <2>2
  <2> QED
    BY <1>2, <2>1, <2>3
<1>7. GroupKeys(g) /\ GroupSmall(g)
  BY DEF GroupKeys, GroupSmall
<1>8. Blocks(g)
  <2> SUFFICES ASSUME NEW i \in 1..Span(g)
               PROVE  Whole(g, i) /\ (At(g, i).named \/ At(g, i).count = 1)
    BY DEF Blocks
  <2>1. f(i) \in 1..Span(h) /\ At(g, i) = At(h, f(i)) /\ ~(a <= f(i) /\ f(i) <= b)
    BY <1>3, <1>4
  <2> DEFINE key == At(g, i).key
             count == At(g, i).count
  <2>2. Whole(h, f(i)) /\ (At(g, i).named \/ At(g, i).count = 1)
    BY <1>1, <2>1 DEF WalkFits, Blocks
  <2>3. PICK c \in 1..Span(h) : Block(h, key, c, count)
    BY <2>1, <2>2 DEF Whole
  <2>4. /\ count \in Nat /\ count > 0 /\ c + count - 1 <= Span(h)
        /\ \A j \in 1..Span(h) : At(h, j).key = key <=> c <= j /\ j <= c + count - 1
    BY <2>3 DEF Block
  <2> HIDE DEF key, count
  <2>5. \A j \in 1..Span(h) : At(h, j).key = key => ~(a <= j /\ j <= b)
    <3>1. At(h, f(i)).key = key
      BY <2>1 DEF key
    <3> HIDE DEF f
    <3> QED
      BY <2>1, <3>1
  <2>6. c + count - 1 < a \/ c > b
    <3>1. CASE n > 0
      <4>1. a \in 1..Span(h) /\ b \in 1..Span(h) /\ a <= b
        BY <1>1, <1>2, <3>1
      <4>2. ~(c <= a /\ a <= c + count - 1)
        BY <2>4, <2>5, <4>1
      <4>3. c \in 1..Span(h) /\ At(h, c).key = key
        BY <2>4
      <4>4. ~(a <= c /\ c <= b)
        BY <2>5, <4>3
      <4> QED
        BY <1>2, <2>4, <4>2, <4>4
    <3>2. CASE ~(n > 0)
      <4>1. a = Here(h) + 1 /\ b = Here(h)
        BY <1>1, <1>2, <3>2
      <4>2. SUFFICES ASSUME c <= Here(h), Here(h) < c + count - 1 PROVE FALSE
        BY <1>1, <2>4, <4>1
      <4>3. c \in 1..Span(h) /\ c + count - 1 \in 1..Span(h)
        BY <1>1, <2>4
      <4>4. At(h, c).key = key /\ At(h, c + count - 1).key = key
        BY <2>4, <4>3
      <4>5. a <= c /\ c <= b
        BY <4>2, <4>3, <4>4
      <4> QED
        BY <1>1, <4>1, <4>5
    <3> QED
      BY <3>1, <3>2
  <2>7. CASE c + count - 1 < a
    <3>1. c \in 1..Span(g) /\ c + count - 1 <= Span(g)
      BY <1>1, <1>2, <2>4, <2>7
    <3>2. ASSUME NEW j \in 1..Span(g) PROVE At(g, j).key = key <=> c <= j /\ j <= c + count - 1
      <4>1. f(j) \in 1..Span(h) /\ At(g, j) = At(h, f(j))
        BY <1>3, <1>4
      <4>2. c <= f(j) /\ f(j) <= c + count - 1 <=> c <= j /\ j <= c + count - 1
        <5>1. CASE j < a
          BY <5>1
        <5>2. CASE ~(j < a)
          <6>1. ~(j <= c + count - 1) /\ f(j) = j + n /\ ~(j + n <= c + count - 1)
            BY <1>2, <2>4, <2>7, <5>2
          <6> QED
            BY <6>1
        <5> QED
          BY <5>1, <5>2
      <4> HIDE DEF f
      <4> QED
        BY <2>4, <4>1, <4>2
    <3>3. Block(g, key, c, count)
      BY <2>4, <3>1, <3>2 DEF Block
    <3> QED
      BY <2>2, <3>1, <3>3 DEF Whole, key, count
  <2>8. CASE c > b
    <3>1. c - n \in 1..Span(g) /\ c - n + count - 1 <= Span(g)
      BY <1>1, <1>2, <2>4, <2>8
    <3>2. ASSUME NEW j \in 1..Span(g) PROVE At(g, j).key = key <=> c - n <= j /\ j <= c - n + count - 1
      <4>1. f(j) \in 1..Span(h) /\ At(g, j) = At(h, f(j))
        BY <1>3, <1>4
      <4>2. c <= f(j) /\ f(j) <= c + count - 1 <=> c - n <= j /\ j <= c - n + count - 1
        <5>1. CASE j < a
          <6>1. ~(c <= j) /\ f(j) = j /\ ~(c - n <= j)
            BY <1>2, <2>4, <2>8, <5>1
          <6> QED
            BY <6>1
        <5>2. CASE ~(j < a)
          <6>1. f(j) = j + n
            BY <5>2
          <6> QED
            BY <1>2, <2>4, <6>1
        <5> QED
          BY <5>1, <5>2
      <4> HIDE DEF f
      <4> QED
        BY <2>4, <4>1, <4>2
    <3>3. Block(g, key, c - n, count)
      BY <2>4, <3>1, <3>2 DEF Block
    <3> QED
      BY <2>2, <3>1, <3>3 DEF Whole, key, count
  <2> QED
    BY <2>6, <2>7, <2>8
<1> QED
  BY <1>5, <1>6, <1>7, <1>8 DEF WalkFits


\* A block that begins before the place the history is at ends there when nothing is cut.
LEMMA UncutBlock ==
    ASSUME NEW h \in HistoryStates, Cut(h, None), NEW key, NEW a \in 1..Span(h), NEW count,
           Block(h, key, a, count), a <= Here(h)
    PROVE  a + count - 1 <= Here(h)
<1>1. /\ Span(h) \in Nat /\ Here(h) \in Nat /\ Here(h) <= Span(h)
      /\ \A i \in 1..Span(h) : At(h, i).key # None
  BY SpanType, EditAssumption
<1>2. /\ count \in Nat /\ count > 0 /\ a + count - 1 <= Span(h)
      /\ \A i \in 1..Span(h) : At(h, i).key = key <=> a <= i /\ i <= a + count - 1
  BY DEF Block
<1>3. SUFFICES ASSUME Here(h) < a + count - 1 PROVE FALSE
  BY <1>1, <1>2
<1>4. a + count - 1 \in 1..Span(h) /\ a <= a + count - 1
  BY <1>2
<1>5. At(h, a).key = key /\ At(h, a + count - 1).key = key
  BY <1>2, <1>4
<1>6. At(h, a).key = None
  BY <1>3, <1>4, <1>5 DEF Cut
<1> QED
  BY <1>1, <1>6

\* Blocks of what is done are not touched by what is pushed on top.
LEMMA PushKeeps ==
    ASSUME NEW h \in HistoryStates, NEW g \in HistoryStates, NEW e, PushesAt(h, g, e),
           WalkFits(h, None), NEW i \in 1..Here(h), ~InGroup(h, i), e.key # At(h, i).key
    PROVE  Whole(g, i) /\ (At(g, i).named \/ At(g, i).count = 1)
<1>1. /\ Span(h) \in Nat /\ Here(h) \in Nat /\ Here(h) <= Span(h)
      /\ Span(g) = Here(h) + 1 /\ At(g, Here(h) + 1) = e
      /\ \A j \in 1..Here(h) : At(g, j) = At(h, j)
  BY SpanType DEF PushesAt
<1>2. i \in 1..Span(h) /\ At(g, i) = At(h, i)
  BY <1>1
<1>3. Whole(h, i) /\ (At(h, i).named \/ At(h, i).count = 1)
  BY <1>2 DEF WalkFits, Blocks
<1>4. PICK a \in 1..Span(h) : Block(h, At(h, i).key, a, At(h, i).count)
  BY <1>3 DEF Whole
<1> DEFINE key == At(h, i).key
           count == At(h, i).count
<1>5. /\ count \in Nat /\ count > 0 /\ a + count - 1 <= Span(h)
      /\ \A j \in 1..Span(h) : At(h, j).key = key <=> a <= j /\ j <= a + count - 1
  BY <1>4 DEF Block
<1>6. a <= i
  BY <1>2, <1>5
<1>7. a <= Here(h)
  BY <1>1, <1>6
<1>8. a + count - 1 <= Here(h)
  BY <1>4, <1>7, UncutBlock DEF WalkFits
<1> HIDE DEF key, count
<1>9. ASSUME NEW j \in 1..Span(g) PROVE At(g, j).key = key <=> a <= j /\ j <= a + count - 1
  <2>1. CASE j \in 1..Here(h)
    BY <1>1, <1>5, <2>1
  <2>2. CASE j = Here(h) + 1
    <3>1. At(g, j).key # key
      BY <1>1, <2>2 DEF key
    <3>2. ~(j <= a + count - 1)
      BY <1>1, <1>5, <1>8, <2>2
    <3> QED
      BY <3>1, <3>2
  <2> QED
    BY <1>1, <2>1, <2>2
<1>10. a \in 1..Span(g) /\ a + count - 1 <= Span(g)
  BY <1>1, <1>5, <1>8
<1>11. Block(g, key, a, count)
  BY <1>5, <1>9, <1>10 DEF Block
<1> QED
  BY <1>2, <1>3, <1>10, <1>11 DEF Whole, key, count

LEMMA PushAllDone ==
    ASSUME NEW h \in HistoryStates, NEW g \in HistoryStates, NEW e, PushesAt(h, g, e),
           WalkFits(h, None), e.count \in 1..MaxGroupEdits
    PROVE  (\A m : Cut(g, m)) /\ Counts(g)
<1>1. /\ Span(h) \in Nat /\ Here(h) \in Nat /\ Here(h) <= Span(h)
      /\ Span(g) = Here(h) + 1 /\ At(g, Here(h) + 1) = e /\ Here(g) = Span(g)
      /\ \A j \in 1..Here(h) : At(g, j) = At(h, j)
  BY SpanType DEF PushesAt
<1>2. \A j \in 1..Span(g) : ~(Here(g) < j)
  BY <1>1
<1>3. \A m : Cut(g, m)
  BY <1>2 DEF Cut
<1>4. ASSUME NEW i \in 1..Span(g) PROVE At(g, i).count \in 1..MaxGroupEdits
  <2>1. i = Here(h) + 1 \/ (i \in 1..Here(h) /\ i \in 1..Span(h))
    BY <1>1
  <2> QED
    BY <1>1, <2>1 DEF WalkFits, Counts
<1> QED
  BY <1>3, <1>4 DEF Counts

LEMMA PushAloneFits ==
    ASSUME NEW h \in HistoryStates, h.group = None, NEW g \in HistoryStates, g.group = None, NEW e,
           g.undo = Append(h.undo, e), g.redo = <<>>, WalkFits(h, None),
           e.count = 1, \A i \in 1..Span(h) : At(h, i).key # e.key
    PROVE  WalkFits(g, None) /\ GroupSmall(g)
<1>1. PushesAt(h, g, e)
  BY PushAloneWalks
<1>2. /\ Span(h) \in Nat /\ Here(h) \in Nat /\ Here(h) <= Span(h)
      /\ Span(g) = Here(h) + 1 /\ At(g, Here(h) + 1) = e /\ Here(g) = Span(g)
      /\ \A j \in 1..Here(h) : At(g, j) = At(h, j)
      /\ \A i \in 1..Span(h) : ~InGroup(h, i)
  BY <1>1, SpanType DEF PushesAt
<1>3. 1 \in 1..MaxGroupEdits
  BY EditAssumption
<1>4. Cut(g, None) /\ Counts(g)
  BY <1>1, <1>3, PushAllDone
<1>5. GroupKeys(g) /\ GroupSmall(g)
  BY DEF GroupKeys, GroupSmall
<1>6. ASSUME NEW i \in 1..Span(g) PROVE Whole(g, i) /\ (At(g, i).named \/ At(g, i).count = 1)
  <2>1. CASE i \in 1..Here(h)
    <3>1. i \in 1..Span(h)
      BY <1>2, <2>1
    <3> QED
      BY <1>1, <1>2, <2>1, <3>1, PushKeeps
  <2>2. CASE i = Here(h) + 1
    <3>1. At(g, i) = e
      BY <1>2, <2>2
    <3>2. ASSUME NEW j \in 1..Span(g) PROVE At(g, j).key = e.key <=> i <= j /\ j <= i + 1 - 1
      <4>1. j = i \/ (j \in 1..Here(h) /\ j \in 1..Span(h) /\ ~(i <= j))
        BY <1>2, <2>2
      <4>2. j = i => At(g, j).key = e.key /\ i <= j /\ j <= i + 1 - 1
        BY <3>1
      <4> QED
        BY <1>2, <4>1, <4>2
    <3>3. Block(g, e.key, i, 1)
      BY <1>2, <2>2, <3>2 DEF Block
    <3> QED
      BY <3>1, <3>3 DEF Whole
  <2> QED
    BY <1>2, <2>1, <2>2
<1> QED
  BY <1>4, <1>5, <1>6 DEF WalkFits, Blocks

LEMMA PushGroupedFits ==
    ASSUME NEW h \in HistoryStates, h.group # None, NEW g \in HistoryStates, g.group # None, NEW e,
           g.undo = h.undo, g.redo = IF h.group.entries = <<>> THEN <<>> ELSE h.redo,
           g.group.entries = Append(h.group.entries, e),
           g.group.token = h.group.token, WalkFits(h, None), GroupSmall(h),
           e.count = Len(h.group.entries) + 1, e.key = h.group.token, e.named
    PROVE  WalkFits(g, None) /\ Open(g) = Open(h) + 1 /\ Open(g) <= MaxGroupEdits
<1>0. Open(h) = Len(h.group.entries)
  BY DEF Open, GroupEntries
<1>1. /\ Span(h) \in Nat /\ Here(h) \in Nat /\ Here(h) <= Span(h) /\ Open(h) \in Nat /\ MaxGroupEdits \in Nat
      /\ h.redo \in Seq(AnyEntry) /\ h.group.entries \in Seq(AnyEntry)
  BY SpanType, WalkType, EditAssumption DEF GroupEntries
<1>2. g.redo = <<>>
  <2>1. CASE h.group.entries = <<>>
    BY <2>1
  <2>2. CASE h.group.entries # <<>>
    <3>1. Open(h) # 0
      BY <1>0, <1>1, <2>2
    <3>2. Len(h.redo) = 0
      BY <3>1 DEF WalkFits, GroupKeys, Undone
    <3> QED
      BY <1>1, <2>2, <3>2
  <2> QED
    BY <2>1, <2>2
<1>3. PushesAt(h, g, e) /\ InGroup(g, Here(h) + 1) /\ Open(g) = Open(h) + 1
  BY <1>2, PushGroupedWalks
<1>4. /\ Span(g) = Here(h) + 1 /\ At(g, Here(h) + 1) = e /\ Here(g) = Span(g) /\ Undone(g) = 0
      /\ \A j \in 1..Here(h) : At(g, j) = At(h, j) /\ (InGroup(g, j) <=> InGroup(h, j))
  BY <1>3 DEF PushesAt
<1>5. Open(g) <= MaxGroupEdits /\ e.count \in 1..MaxGroupEdits
  BY <1>0, <1>1, <1>3 DEF GroupSmall
<1>6. Cut(g, None) /\ Counts(g)
  BY <1>3, <1>5, PushAllDone
<1>7. /\ \A i \in 1..Span(h) : At(h, i).key = h.group.token <=> InGroup(h, i)
      /\ \A i \in 1..Span(h) : InGroup(h, i) => At(h, i).named
  BY DEF WalkFits, GroupKeys
<1>8. ASSUME NEW i \in 1..Span(g)
      PROVE  /\ At(g, i).key = g.group.token <=> InGroup(g, i)
             /\ InGroup(g, i) => At(g, i).named
             /\ ~InGroup(g, i) => Whole(g, i) /\ (At(g, i).named \/ At(g, i).count = 1)
  <2>1. CASE i \in 1..Here(h)
    <3>1. i \in 1..Span(h)
      BY <1>1, <2>1
    <3>2. At(g, i) = At(h, i) /\ (InGroup(g, i) <=> InGroup(h, i))
      BY <1>4, <2>1
    <3>3. ~InGroup(h, i) => e.key # At(h, i).key
      BY <1>7, <3>1
    <3>4. ~InGroup(h, i) => Whole(g, i) /\ (At(g, i).named \/ At(g, i).count = 1)
      BY <1>3, <2>1, <3>3, PushKeeps
    <3> QED
      BY <1>7, <3>1, <3>2, <3>4
  <2>2. CASE i = Here(h) + 1
    BY <1>3, <1>4, <2>2
  <2> QED
    BY <1>1, <1>4, <2>1, <2>2
<1>9. GroupKeys(g) /\ Blocks(g)
  BY <1>4, <1>8 DEF GroupKeys, Blocks
<1> QED
  BY <1>3, <1>5, <1>6, <1>9 DEF WalkFits

LEMMA CloseFits ==
    ASSUME NEW h, NEW n, HistoryFits(h, n), WalkFits(h, None), h.group # None => Open(h) <= MaxGroupEdits
    PROVE  WalkFits(CloseActiveGroup(h), None) /\ GroupSmall(CloseActiveGroup(h))
<1>1. CASE h.group = None
  BY <1>1 DEF CloseActiveGroup, GroupSmall
<1>2. CASE h.group # None
  <2> DEFINE g == CloseActiveGroup(h)
  <2>1. /\ g \in HistoryStates /\ g.group = None /\ Span(g) = Span(h) /\ Here(g) = Here(h)
        /\ h \in HistoryStates
        /\ \A i \in 1..Span(h) :
             /\ ~InGroup(h, i) => At(g, i) = At(h, i)
             /\ InGroup(h, i) =>
                  /\ At(g, i).key = At(h, i).key /\ At(g, i).named = At(h, i).named
                  /\ At(g, i).rec = At(h, i).rec /\ At(g, i).count = Open(h)
    BY <1>2, CloseWalks DEF HistoryFits
  <2> HIDE DEF g
  <2>2. /\ Span(h) \in Nat /\ Here(h) \in Nat /\ Here(h) <= Span(h) /\ Closed(h) \in Nat
        /\ Open(h) \in Nat /\ Here(h) = Closed(h) + Open(h) /\ MaxGroupEdits \in Nat
    BY <2>1, SpanType, EditAssumption
  <2>3. \A i \in 1..Span(h) : At(g, i).key = At(h, i).key
    BY <2>1
  <2>4. Cut(g, None)
    BY <2>1, <2>3 DEF WalkFits, Cut
  <2>5. Counts(g)
    <3> SUFFICES ASSUME NEW i \in 1..Span(h) PROVE At(g, i).count \in 1..MaxGroupEdits
      BY <2>1 DEF Counts
    <3>1. CASE InGroup(h, i)
      <4>1. Open(h) > 0
        BY <2>2, <3>1 DEF InGroup
      <4> QED
        BY <1>2, <2>1, <2>2, <3>1, <4>1
    <3>2. CASE ~InGroup(h, i)
      BY <2>1, <3>2 DEF WalkFits, Counts
    <3> QED
      BY <3>1, <3>2
  <2>6. ASSUME NEW i \in 1..Span(g) PROVE Whole(g, i) /\ (At(g, i).named \/ At(g, i).count = 1)
    <3>0. i \in 1..Span(h)
      BY <2>1
    <3>1. CASE InGroup(h, i)
      <4>1. Closed(h) + 1 \in 1..Span(h) /\ Open(h) > 0 /\ Closed(h) + 1 + Open(h) - 1 <= Span(h)
        BY <2>2, <3>0, <3>1 DEF InGroup
      <4>2. /\ \A j \in 1..Span(h) : At(h, j).key = h.group.token <=> InGroup(h, j)
            /\ At(h, i).named
        BY <1>2, <3>0, <3>1 DEF WalkFits, GroupKeys
      <4>3. \A j \in 1..Span(h) : InGroup(h, j) <=> Closed(h) + 1 <= j /\ j <= Closed(h) + 1 + Open(h) - 1
        BY <2>2 DEF InGroup
      <4>4. \A j \in 1..Span(g) : At(g, j).key = h.group.token
                                     <=> Closed(h) + 1 <= j /\ j <= Closed(h) + 1 + Open(h) - 1
        BY <2>1, <2>3, <4>2, <4>3
      <4>5. Block(g, h.group.token, Closed(h) + 1, Open(h))
        BY <2>1, <2>2, <4>1, <4>4 DEF Block
      <4>6. At(g, i).key = h.group.token /\ At(g, i).count = Open(h) /\ At(g, i).named
        BY <2>1, <3>0, <3>1, <4>2
      <4> QED
        BY <2>1, <4>1, <4>5, <4>6 DEF Whole
    <3>2. CASE ~InGroup(h, i)
      <4>1. Whole(h, i) /\ (At(h, i).named \/ At(h, i).count = 1) /\ At(g, i) = At(h, i)
        BY <2>1, <3>0, <3>2 DEF WalkFits, Blocks
      <4>2. PICK a \in 1..Span(h) : Block(h, At(h, i).key, a, At(h, i).count)
        BY <4>1 DEF Whole
      <4>3. Block(g, At(h, i).key, a, At(h, i).count)
        BY <2>1, <2>3, <4>2 DEF Block
      <4> QED
        BY <2>1, <4>1, <4>2, <4>3 DEF Whole
    <3> QED
      BY <3>1, <3>2
  <2>7. GroupKeys(g) /\ GroupSmall(g)
    BY <2>1 DEF GroupKeys, GroupSmall
  <2> QED
    BY <2>4, <2>5, <2>6, <2>7 DEF WalkFits, Blocks, g
<1> QED
  BY <1>1, <1>2

LEMMA OpenFits ==
    ASSUME NEW h \in HistoryStates, h.group = None, NEW g \in HistoryStates,
           g.undo = h.undo, g.redo = h.redo, g.group # None, g.group.entries = <<>>,
           \A i \in 1..Span(h) : At(h, i).key # g.group.token, WalkFits(h, None)
    PROVE  WalkFits(g, None) /\ GroupSmall(g)
<1>1. /\ Span(g) = Span(h) /\ Here(g) = Here(h) /\ Undone(g) = Undone(h) /\ Open(g) = 0
      /\ \A i \in 1..Span(h) : At(g, i) = At(h, i) /\ ~InGroup(g, i)
  BY OpenWalks
<1>2. Alike(h, g)
  BY <1>1 DEF Alike, SameEntry
<1>3. Cut(g, None)
  BY <1>1 DEF WalkFits, Cut
<1>4. GroupKeys(g)
  BY <1>1 DEF GroupKeys
<1>5. GroupSmall(g)
  BY <1>1, EditAssumption DEF GroupSmall
<1>6. Blocks(g)
  <2> SUFFICES ASSUME NEW i \in 1..Span(h) PROVE Whole(g, i) /\ (At(g, i).named \/ At(g, i).count = 1)
    BY <1>1 DEF Blocks
  <2>1. Whole(h, i) /\ (At(h, i).named \/ At(h, i).count = 1)
    BY SpanType DEF WalkFits, Blocks
  <2> QED
    BY <1>1, <1>2, <2>1, AlikeBlocks
<1>7. Counts(g)
  BY <1>2, AlikeBlocks DEF WalkFits
<1> QED
  BY <1>3, <1>4, <1>5, <1>6, <1>7 DEF WalkFits


\* The top of a stack in the walk.
LEMMA TopWalks ==
    ASSUME NEW h \in HistoryStates, h.group = None, NEW dir \in Directions, Stack(h, dir) # <<>>
    PROVE  Next1(h, dir) \in 1..Span(h) /\ At(h, Next1(h, dir)) = Top(Stack(h, dir))
<1>1. /\ Span(h) \in Nat /\ Here(h) \in Nat /\ Here(h) = Closed(h) /\ Span(h) = Here(h) + Undone(h)
      /\ Undone(h) \in Nat /\ h.undo \in Seq(AnyEntry) /\ h.redo \in Seq(AnyEntry)
  BY SpanType, WalkType
<1>2. CASE dir = "undo"
  <2>1. h.undo # <<>> /\ Next1(h, dir) = Closed(h)
    BY <1>1, <1>2 DEF Stack, Next1
  <2>2. Closed(h) > 0
    BY <1>1, <2>1 DEF Closed
  <2>3. At(h, Closed(h)) = h.undo[Closed(h)]
    BY <1>1 DEF At
  <2> QED
    BY <1>1, <1>2, <2>1, <2>2, <2>3 DEF Stack, Top, Closed
<1>3. CASE dir = "redo"
  <2>1. h.redo # <<>> /\ Next1(h, dir) = Here(h) + 1
    BY <1>3 DEF Stack, Next1
  <2>2. Undone(h) > 0
    BY <1>1, <2>1 DEF Undone
  <2>3. ~(Here(h) + 1 <= Closed(h)) /\ ~(Here(h) + 1 <= Here(h)) /\ Span(h) + 1 - (Here(h) + 1) = Undone(h)
    BY <1>1
  <2>4. At(h, Here(h) + 1) = h.redo[Undone(h)]
    BY <2>3 DEF At
  <2>5. Here(h) + 1 \in 1..Span(h)
    BY <1>1, <2>2
  <2> QED
    BY <1>3, <2>1, <2>4, <2>5 DEF Stack, Top, Undone
<1> QED
  BY <1>2, <1>3 DEF Directions

\* An undo or redo that starts with the top of a stack has its whole group before it.
LEMMA StartAccounts ==
    ASSUME NEW h \in HistoryStates, h.group = None, NEW dir \in Directions, Stack(h, dir) # <<>>,
           WalkFits(h, None)
    PROVE  /\ Accounts(h, dir, Top(Stack(h, dir)).key, 0, Top(Stack(h, dir)).count)
           /\ Top(Stack(h, dir)).named \/ Top(Stack(h, dir)).count = 1
<1> DEFINE i == Next1(h, dir)
           key == Top(Stack(h, dir)).key
           count == Top(Stack(h, dir)).count
<1>1. i \in 1..Span(h) /\ At(h, i) = Top(Stack(h, dir))
  BY TopWalks
<1>2. /\ Span(h) \in Nat /\ Here(h) \in Nat /\ Here(h) <= Span(h) /\ ~InGroup(h, i)
      /\ \A j \in 1..Span(h) : At(h, j).key # None
  BY <1>1, SpanType, EditAssumption
<1>3. Whole(h, i) /\ (At(h, i).named \/ At(h, i).count = 1)
  BY <1>1, <1>2 DEF WalkFits, Blocks
<1>4. PICK a \in 1..Span(h) : Block(h, key, a, count)
  BY <1>1, <1>3 DEF Whole
<1>5. At(h, i).key = key
  BY <1>1
<1>6. i = IF dir = "undo" THEN Here(h) ELSE Here(h) + 1
  BY DEF Next1
<1> HIDE DEF i, key, count
<1>7. /\ count \in Nat /\ count > 0 /\ a + count - 1 <= Span(h)
      /\ \A j \in 1..Span(h) : At(h, j).key = key <=> a <= j /\ j <= a + count - 1
  BY <1>4 DEF Block
<1>8. a <= i /\ i <= a + count - 1
  BY <1>1, <1>5, <1>7
<1>9. Here(h) = IF dir = "undo" THEN a + count - 1 - 0 ELSE a - 1 + 0
  <2>1. CASE dir = "undo"
    <3>1. a <= Here(h) /\ Here(h) <= a + count - 1
      BY <1>6, <1>8, <2>1
    <3>2. a + count - 1 <= Here(h)
      BY <1>4, <3>1, UncutBlock DEF WalkFits
    <3> QED
      BY <1>2, <1>7, <2>1, <3>1, <3>2
  <2>2. CASE dir # "undo"
    <3>1. a <= Here(h) + 1 /\ Here(h) + 1 <= a + count - 1
      BY <1>6, <1>8, <2>2
    <3>2. ~(a <= Here(h))
      <4>1. SUFFICES ASSUME a <= Here(h) PROVE FALSE
        OBVIOUS
      <4>2. a + count - 1 <= Here(h)
        BY <1>4, <4>1, UncutBlock DEF WalkFits
      <4> QED
        BY <1>2, <1>7, <3>1, <4>2
    <3> QED
      BY <1>2, <1>7, <2>2, <3>1, <3>2
  <2> QED
    BY <2>1, <2>2
<1>10. Accounts(h, dir, key, 0, count)
  BY <1>4, <1>7, <1>9 DEF Accounts
<1> QED
  BY <1>1, <1>3, <1>10 DEF key, count

\* The entries it has still to take lie on top of their stack.
LEMMA TopRunCounts ==
    ASSUME NEW h \in HistoryStates, h.group = None, NEW dir \in Directions, NEW key, NEW done, NEW count,
           Accounts(h, dir, key, done, count)
    PROVE  Len(TopRun(Stack(h, dir), key)) = count - done
<1> DEFINE s == Stack(h, dir)
           n == Len(s) + 1 - (count - done)
<1>1. PICK a \in 1..Span(h) :
         /\ Block(h, key, a, count)
         /\ Here(h) = IF dir = "undo" THEN a + count - 1 - done ELSE a - 1 + done
  BY DEF Accounts
<1>2. /\ Span(h) \in Nat /\ Here(h) \in Nat /\ Here(h) <= Span(h) /\ count \in Nat /\ done \in 0..count
      /\ a + count - 1 <= Span(h) /\ Here(h) = Closed(h) /\ Span(h) = Here(h) + Undone(h)
      /\ Undone(h) \in Nat /\ s \in Seq(AnyEntry)
  BY <1>1, SpanType, WalkType DEF Accounts, Block, Stack
<1>3. \A i \in 1..Span(h) : At(h, i).key = key <=> a <= i /\ i <= a + count - 1
  BY <1>1 DEF Block
<1>4. Len(s) = IF dir = "undo" THEN Here(h) ELSE Undone(h)
  BY <1>2 DEF Stack, Closed, Undone
<1>5. \A i \in 1..Len(s) : At(h, StackIndex(h, dir, i)) = s[i] /\ StackIndex(h, dir, i) \in 1..Span(h)
  BY StackInWalk
<1> HIDE DEF s
<1>6. Len(s) \in Nat /\ n \in 1..Len(s) + 1 /\ n \in Nat
  BY SMTT(30), <1>1, <1>2, <1>4
<1>7. ASSUME NEW i \in 1..Len(s) PROVE s[i].key = key <=> i >= n
  <2>1. s[i].key = key <=> a <= StackIndex(h, dir, i) /\ StackIndex(h, dir, i) <= a + count - 1
    BY <1>3, <1>5
  <2>2. CASE dir = "undo"
    <3>1. StackIndex(h, dir, i) = i /\ Len(s) = a + count - 1 - done
      BY <1>1, <1>4, <2>2 DEF StackIndex
    <3>2. n = a
      BY <1>2, <3>1
    <3>3. i <= a + count - 1
      BY <1>2, <3>1
    <3> QED
      BY <2>1, <3>1, <3>2, <3>3
  <2>3. CASE dir # "undo"
    <3>1. StackIndex(h, dir, i) = Span(h) + 1 - i /\ Len(s) = Span(h) - (a - 1 + done)
      BY <1>1, <1>2, <1>4, <2>3 DEF StackIndex
    <3>2. a <= StackIndex(h, dir, i)
      BY <1>2, <3>1
    <3>3. StackIndex(h, dir, i) <= a + count - 1 <=> i >= n
      BY SMTT(30), <1>2, <3>1
    <3> QED
      BY <2>1, <3>2, <3>3
  <2> QED
    BY <2>2, <2>3
<1>8. \A i \in n..Len(s) : s[i].key = key
  BY <1>6, <1>7
<1>9. n = 1 \/ s[n - 1].key # key
  <2> SUFFICES ASSUME n # 1 PROVE s[n - 1].key # key
    OBVIOUS
  <2>1. n - 1 \in 1..Len(s) /\ ~(n - 1 >= n)
    BY <1>6
  <2> HIDE DEF n
  <2> QED
    BY <1>7, <2>1
<1>10. Len(s) + 1 - n = count - done
  BY <1>2, <1>6
<1> HIDE DEF n
<1>11. TopRun(s, key) = [i \in 1..(Len(s) + 1 - n) |-> s[Len(s) + 1 - i]]
  BY <1>2, <1>6, <1>8, <1>9, TopRunFrom
<1>12. count - done \in Nat
  BY <1>2
<1>13. Len([i \in 1..(count - done) |-> s[Len(s) + 1 - i]]) = count - done
  BY <1>12
<1> QED
  BY <1>10, <1>11, <1>13 DEF s


-----------------------------------------------------------------------------
(* What the methods make of the groups.                                      *)

PendingFits(h) ==
    h.pending # None =>
        /\ h.pending.completed \in 0..h.pending.count
        /\ h.pending.retry \/ Occurs(h, h.pending.key) =>
             /\ Accounts(h, h.pending.dir, h.pending.key, h.pending.completed, h.pending.count)
             /\ h.pending.completed < h.pending.count

Tidy(h, key) == WalkFits(h, key) /\ GroupSmall(h)

LEMMA NothingTidy ==
    ASSUME NEW h \in HistoryStates, Span(h) = 0, h.group = None
    PROVE  \A key : Tidy(h, key)
<1>1. 1..Span(h) = {}
  OBVIOUS
<1> QED
  BY <1>1 DEF Tidy, WalkFits, Blocks, Counts, GroupKeys, Cut, GroupSmall

LEMMA EmptyTidy ==
    ASSUME NEW gen \in 1..MaxGeneration \cup {None}, NEW rev \in Nat
    PROVE  (\A key : Tidy(EmptyHistory(gen, rev), key)) /\ PendingFits(EmptyHistory(gen, rev))
<1> DEFINE h == EmptyHistory(gen, rev)
<1>1. h \in HistoryStates /\ h.undo = <<>> /\ h.redo = <<>> /\ h.group = None /\ h.pending = None
  <2>1. HistoryFits(h, 0)
    BY EmptyFits
  <2> QED
    BY <2>1 DEF HistoryFits, EmptyHistory
<1> HIDE DEF h
<1>2. Closed(h) = 0 /\ Undone(h) = 0
  BY <1>1 DEF Closed, Undone
<1>3. Span(h) = 0
  BY <1>1, <1>2, SpanType
<1>4. \A key : Tidy(h, key)
  BY <1>1, <1>3, NothingTidy
<1> QED
  BY <1>1, <1>4 DEF PendingFits, h

LEMMA SameTidy ==
    ASSUME NEW h, NEW g, SameStacks(h, g)
    PROVE  /\ \A key : WalkFits(h, key) => WalkFits(g, key)
           /\ GroupSmall(h) => GroupSmall(g)
           /\ \A key : Tidy(h, key) => Tidy(g, key)
           /\ \A dir, key, done, count : Accounts(h, dir, key, done, count) => Accounts(g, dir, key, done, count)
           /\ \A key : Occurs(g, key) <=> Occurs(h, key)
           /\ g.pending = h.pending /\ PendingFits(h) => PendingFits(g)
<1>1. /\ Open(g) = Open(h) /\ Undone(g) = Undone(h)
      /\ Here(g) = Here(h) /\ Span(g) = Span(h) /\ g.group = h.group
      /\ \A i : At(g, i) = At(h, i) /\ (InGroup(g, i) <=> InGroup(h, i))
  BY SameWalk DEF SameStacks
<1>2. Alike(h, g)
  BY <1>1 DEF Alike, SameEntry
<1>3. \A key, a, count : Block(h, key, a, count) => Block(g, key, a, count)
  BY <1>2, AlikeBlocks
<1>4. \A dir, key, done, count : Accounts(h, dir, key, done, count) => Accounts(g, dir, key, done, count)
  BY <1>1, <1>3 DEF Accounts
<1>5. \A key : Occurs(g, key) <=> Occurs(h, key)
  BY <1>2, AlikeBlocks
<1>6. Counts(h) => Counts(g)
  BY <1>2, AlikeBlocks
<1>7. Blocks(h) => Blocks(g)
  <2> SUFFICES ASSUME Blocks(h), NEW i \in 1..Span(g), ~InGroup(g, i)
               PROVE  Whole(g, i) /\ (At(g, i).named \/ At(g, i).count = 1)
    BY DEF Blocks
  <2>1. i \in 1..Span(h) /\ ~InGroup(h, i)
    BY <1>1
  <2>2. Whole(h, i) /\ (At(h, i).named \/ At(h, i).count = 1)
    BY <2>1 DEF Blocks
  <2>3. Whole(g, i)
    BY <1>2, <2>1, <2>2, AlikeBlocks
  <2> QED
    BY <1>1, <2>2, <2>3
<1>8. GroupKeys(h) => GroupKeys(g)
  BY <1>1 DEF GroupKeys
<1>9. \A key : Cut(h, key) => Cut(g, key)
  BY <1>1 DEF Cut
<1>10. \A key : WalkFits(h, key) => WalkFits(g, key)
  BY <1>6, <1>7, <1>8, <1>9 DEF WalkFits
<1>11. GroupSmall(h) => GroupSmall(g)
  BY <1>1 DEF GroupSmall
<1>12. g.pending = h.pending /\ PendingFits(h) => PendingFits(g)
  BY <1>4, <1>5 DEF PendingFits
<1> QED
  BY <1>4, <1>5, <1>10, <1>11, <1>12 DEF Tidy

LEMMA SynchronizeTidy ==
    ASSUME NEW gen \in 1..MaxGeneration \cup {None}, NEW n \in Nat, NEW h, HistoryFits(h, n)
    PROVE  /\ \A key : Tidy(h, key) => Tidy(Synchronize(h, gen), key)
           /\ PendingFits(h) => PendingFits(Synchronize(h, gen))
           /\ h.gen # gen => \A key : Tidy(Synchronize(h, gen), key)
<1>1. h.rev + 1 \in Nat
  BY DEF HistoryFits, HistoryStates
<1>2. CASE h.gen = gen
  BY <1>2 DEF Synchronize
<1>3. CASE h.gen # gen
  BY <1>1, <1>3, EmptyTidy DEF Synchronize
<1> QED
  BY <1>2, <1>3

LEMMA KnownKeys ==
    ASSUME NEW h, NEW n, HistoryFits(h, n)
    PROVE  /\ \A i \in 1..Span(h) : At(h, i).key < n
           /\ h.group # None => h.group.token < n
<1>1. h \in HistoryStates
  BY DEF HistoryFits
<1>2. /\ Here(h) \in Nat /\ Span(h) \in Nat /\ Here(h) <= Span(h) /\ Closed(h) \in Nat
      /\ Closed(h) <= Here(h) /\ Open(h) \in Nat /\ Here(h) = Closed(h) + Open(h)
      /\ Undone(h) \in Nat /\ Span(h) = Here(h) + Undone(h)
  BY <1>1, SpanType
<1>3. /\ \A i \in 1..Closed(h) : h.undo[i].key < n
      /\ \A i \in 1..Undone(h) : h.redo[i].key < n
      /\ \A i \in 1..Open(h) : GroupEntries(h)[i].key < n
      /\ h.group # None => h.group.token < n
  BY DEF HistoryFits, Known, GroupFits, Closed, Undone, Open, GroupEntries
<1>4. ASSUME NEW i \in 1..Span(h) PROVE At(h, i).key < n
  <2>1. CASE i <= Closed(h)
    <3>1. i \in 1..Closed(h)
      BY <1>2, <2>1
    <3> QED
      BY <1>3, <2>1, <3>1 DEF At
  <2>2. CASE ~(i <= Closed(h)) /\ i <= Here(h)
    <3>1. i - Closed(h) \in 1..Open(h)
      BY <1>2, <2>2
    <3> QED
      BY <1>3, <2>2, <3>1 DEF At
  <2>3. CASE ~(i <= Closed(h)) /\ ~(i <= Here(h))
    <3>1. Span(h) + 1 - i \in 1..Undone(h)
      BY <1>2, <2>3
    <3> QED
      BY <1>3, <2>3, <3>1 DEF At
  <2> QED
    BY <2>1, <2>2, <2>3
<1> QED
  BY <1>3, <1>4

LEMMA CloseTidy ==
    ASSUME NEW h, NEW n, HistoryFits(h, n), Tidy(h, None)
    PROVE  Tidy(CloseActiveGroup(h), None)
<1>1. h.group # None => Open(h) <= MaxGroupEdits
  <2>1. h \in HistoryStates
    BY DEF HistoryFits
  <2>2. Open(h) \in Nat /\ MaxGroupEdits \in Nat
    BY <2>1, SpanType, EditAssumption
  <2> QED
    BY <2>2 DEF Tidy, GroupSmall
<1> QED
  BY <1>1, CloseFits DEF Tidy

LEMMA CloseUnlessTidy ==
    ASSUME NEW h, NEW n, HistoryFits(h, n), Tidy(h, None), NEW token
    PROVE  Tidy(CloseGroupUnless(h, token), None)
BY CloseTidy DEF CloseGroupUnless

LEMMA BeginTidy ==
    ASSUME NEW h, NEW n \in 1..MaxSequence, HistoryFits(h, n), h.pending = None, Tidy(h, None)
    PROVE  Tidy(BeginGroup(h, n), None)
<1> DEFINE c == CloseActiveGroup(h)
           g == BeginGroup(h, n)
<1>1. HistoryFits(c, n) /\ c.group = None /\ Tidy(c, None)
  BY CloseFollows, CloseTidy DEF Follows
<1>2. g \in HistoryStates
  BY BeginGroupFollows DEF Follows, HistoryFits
<1>3. c \in HistoryStates
  BY <1>1 DEF HistoryFits
<1>4. /\ g.undo = c.undo /\ g.redo = c.redo /\ g.group = [token |-> n, entries |-> <<>>]
  BY <1>3 DEF BeginGroup, Bump, HistoryStates
<1> HIDE DEF c, g
<1>5. g.group # None
  <2>1. g.group \in [token : 1..MaxSequence, entries : Seq(AnyEntry)]
    BY <1>4
  <2> QED
    BY <2>1, NoneAssumption
<1>6. \A i \in 1..Span(c) : At(c, i).key # n
  <2>1. \A i \in 1..Span(c) : At(c, i).key < n /\ At(c, i).key \in 1..MaxSequence
    BY <1>1, <1>3, KnownKeys, SpanType
  <2> QED
    BY <2>1
<1>7. Tidy(g, None)
  BY <1>1, <1>2, <1>3, <1>4, <1>5, <1>6, OpenFits DEF Tidy
<1> QED
  BY <1>7 DEF g

\* A deletion makes everything obsolete but the active group.
LEMMA DeleteTidy ==
    ASSUME NEW h \in HistoryStates, NEW g \in HistoryStates, g.undo = <<>>, g.redo = <<>>,
           g.group = h.group, Tidy(h, None)
    PROVE  Tidy(g, None)
<1>1. /\ Here(h) \in Nat /\ Span(h) \in Nat /\ Here(h) <= Span(h) /\ Closed(h) \in Nat
      /\ Open(h) \in Nat /\ Here(h) = Closed(h) + Open(h)
      /\ Here(g) = Closed(g) + Open(g) /\ Span(g) = Here(g) + Undone(g)
      /\ h.group = None => Open(h) = 0
  BY SpanType
<1>2. GroupEntries(g) = GroupEntries(h)
  BY DEF GroupEntries
<1>3. Closed(g) = 0 /\ Undone(g) = 0 /\ Open(g) = Open(h)
  BY <1>2 DEF Closed, Undone, Open
<1>4. Here(g) = Open(h) /\ Span(g) = Open(h)
  BY <1>1, <1>3
<1>5. ASSUME NEW i \in 1..Span(g)
      PROVE  /\ Closed(h) + i \in 1..Span(h) /\ InGroup(h, Closed(h) + i) /\ InGroup(g, i)
             /\ At(g, i) = At(h, Closed(h) + i) /\ h.group # None
  <2>1. Closed(h) + i \in 1..Span(h) /\ InGroup(h, Closed(h) + i) /\ InGroup(g, i) /\ h.group # None
    BY <1>1, <1>3, <1>4 DEF InGroup
  <2>2. ~(Closed(h) + i <= Closed(h)) /\ Closed(h) + i <= Here(h) /\ Closed(h) + i - Closed(h) = i
    BY <1>1, <1>4
  <2>3. ~(i <= Closed(g)) /\ i <= Here(g) /\ i - Closed(g) = i
    BY <1>1, <1>3, <1>4
  <2>4. At(h, Closed(h) + i) = GroupEntries(h)[i]
    <3>1. \A k : ~(k <= Closed(h)) /\ k <= Here(h) => At(h, k) = GroupEntries(h)[k - Closed(h)]
      BY DEF At
    <3>2. PICK k : k = Closed(h) + i
      OBVIOUS
    <3>3. ~(k <= Closed(h)) /\ k <= Here(h) /\ k - Closed(h) = i
      BY <1>1, <1>4, <2>2, <3>2
    <3>4. At(h, k) = GroupEntries(h)[i]
      BY <3>1, <3>3
    <3> QED
      BY <3>2, <3>4
  <2>5. At(g, i) = GroupEntries(h)[i]
    BY <1>2, <2>3 DEF At
  <2> QED
    BY <2>1, <2>4, <2>5
<1>6. Blocks(g) /\ Counts(g)
  BY <1>5 DEF Tidy, WalkFits, Blocks, Counts
<1>7. Cut(g, None)
  <2>1. \A j \in 1..Span(g) : ~(Here(g) < j)
    BY <1>1, <1>4
  <2> QED
    BY <2>1 DEF Cut
<1>8. GroupKeys(g)
  <2>1. ASSUME NEW i \in 1..Span(g)
        PROVE  (At(g, i).key = g.group.token <=> InGroup(g, i)) /\ At(g, i).named
    <3>1. /\ Closed(h) + i \in 1..Span(h) /\ InGroup(h, Closed(h) + i) /\ InGroup(g, i)
          /\ At(g, i) = At(h, Closed(h) + i) /\ h.group # None
      BY <1>5
    <3> DEFINE j == Closed(h) + i
    <3>2. j \in 1..Span(h) /\ InGroup(h, j) /\ At(g, i) = At(h, j)
      BY <3>1
    <3> HIDE DEF j
    <3> QED
      BY <3>1, <3>2 DEF Tidy, WalkFits, GroupKeys
  <2> QED
    BY <1>3, <2>1 DEF GroupKeys
<1>9. GroupSmall(g)
  BY <1>3 DEF Tidy, GroupSmall
<1> QED
  BY <1>6, <1>7, <1>8, <1>9 DEF Tidy, WalkFits


\* The record of a walk's entry after an undo or redo of the next one has moved it.
MovedRec(h, dir, reply, i) ==
    IF i = Next1(h, dir) THEN UpdatedRecord(At(h, i).rec, dir, reply) ELSE At(h, i).rec
\* A re-created object is found by the rest of its group.
NewRec(h, dir, key, reply, i) ==
    IF IsCreate(At(h, Next1(h, dir)).rec) /\ dir = "redo" /\ At(h, i).key = key
      THEN ReplaceRecordIds(MovedRec(h, dir, reply, i), At(h, Next1(h, dir)).rec.slot[1], reply.id)
      ELSE MovedRec(h, dir, reply, i)

LEMMA MoveEntryWalks ==
    ASSUME NEW h, NEW n, HistoryFits(h, n), h.group = None, Past(h), NEW m, Unique(h, m),
           NEW dir \in Directions, Stack(h, dir) # <<>>, NEW reply \in Replies
    PROVE  LET g == MoveEntry(h, dir, reply)
           IN  /\ g \in HistoryStates /\ g.group = None /\ g.pending = h.pending
               /\ Alike(h, g) /\ Here(g) = Beyond(h, dir)
               /\ Next1(h, dir) \in 1..Span(h) /\ At(h, Next1(h, dir)) = Top(Stack(h, dir))
               /\ \A i \in 1..Span(h) : At(g, i).rec = MovedRec(h, dir, reply, i)
<1> DEFINE g == MoveEntry(h, dir, reply)
           rec == UpdatedRecord(Top(Stack(h, dir)).rec, dir, reply)
           e == [Top(Stack(h, dir)) EXCEPT !.rec = rec]
<1>1. /\ Stack(g, dir) = Pop(Stack(h, dir))
      /\ Stack(g, Opposite(dir)) = Append(Stack(h, Opposite(dir)), e)
  BY MoveEntryTells
<1>2. g \in HistoryStates /\ g.group = None /\ g.pending = h.pending /\ h \in HistoryStates
  BY MoveEntryFollows DEF Follows, SameKind, HistoryFits
<1> HIDE DEF g, rec, e
<1>3. /\ Span(g) = Span(h) /\ Here(g) = Beyond(h, dir) /\ Next1(h, dir) \in 1..Span(h)
      /\ At(h, Next1(h, dir)) = Top(Stack(h, dir))
      /\ \A i \in 1..Span(h) : At(g, i) = IF i = Next1(h, dir) THEN e ELSE At(h, i)
  BY <1>1, <1>2, MoveWalks
<1>4. ASSUME NEW i \in 1..Span(h)
      PROVE  SameEntry(At(h, i), At(g, i)) /\ At(g, i).rec = MovedRec(h, dir, reply, i)
  <2>1. At(h, i) \in AnyEntry
    BY <1>2, SpanType
  <2>2. CASE i = Next1(h, dir)
    <3>1. At(g, i) = [At(h, i) EXCEPT !.rec = rec]
      BY <1>3, <2>2 DEF e
    <3>2. rec = UpdatedRecord(At(h, i).rec, dir, reply)
      BY <1>3, <2>2 DEF rec
    <3> QED
      BY <2>1, <2>2, <3>1, <3>2, WithRecord DEF SameEntry, MovedRec
  <2>3. CASE i # Next1(h, dir)
    BY <1>3, <2>3 DEF SameEntry, MovedRec
  <2> QED
    BY <2>2, <2>3
<1> QED
  BY <1>2, <1>3, <1>4 DEF Alike, g

Remaps(h, g, key, old, new) ==
    g.undo = RemapGroupIds(h.undo, key, old, new) /\ g.redo = RemapGroupIds(h.redo, key, old, new)

LEMMA RemapWalks ==
    ASSUME NEW h \in HistoryStates, h.group = None, NEW g \in HistoryStates, g.group = None,
           NEW key, NEW old, NEW new,
           Remaps(h, g, key, old, new)
    PROVE  /\ Alike(h, g) /\ Here(g) = Here(h)
           /\ \A i \in 1..Span(h) : At(g, i).rec = IF At(h, i).key = key
                                                     THEN ReplaceRecordIds(At(h, i).rec, old, new)
                                                     ELSE At(h, i).rec
<1> DEFINE Other(e) == IF e.key = key THEN [e EXCEPT !.rec = ReplaceRecordIds(e.rec, old, new)] ELSE e
<1>1. /\ Here(h) \in Nat /\ Span(h) \in Nat /\ Undone(h) \in Nat /\ Span(h) = Here(h) + Undone(h) /\ Here(h) = Closed(h)
      /\ Here(g) \in Nat /\ Span(g) \in Nat /\ Undone(g) \in Nat /\ Span(g) = Here(g) + Undone(g) /\ Here(g) = Closed(g)
      /\ h.undo \in Seq(AnyEntry) /\ h.redo \in Seq(AnyEntry)
      /\ \A i \in 1..Span(h) : At(h, i) \in AnyEntry
  BY SpanType, WalkType
<1>2. ASSUME NEW s \in Seq(AnyEntry)
      PROVE  /\ Len(RemapGroupIds(s, key, old, new)) = Len(s)
             /\ \A i \in 1..Len(s) : RemapGroupIds(s, key, old, new)[i] = Other(s[i])
  <2>1. Len(s) \in Nat
    OBVIOUS
  <2> QED
    BY <2>1 DEF RemapGroupIds
<1>3. /\ Closed(g) = Closed(h) /\ Undone(g) = Undone(h)
      /\ \A i \in 1..Closed(h) : g.undo[i] = Other(h.undo[i])
      /\ \A i \in 1..Undone(h) : g.redo[i] = Other(h.redo[i])
  BY SMTT(30), <1>1, <1>2 DEF Closed, Undone, Remaps
<1> HIDE DEF Other
<1>4. Span(g) = Span(h) /\ Here(g) = Here(h)
  BY <1>1, <1>3
<1>5. /\ \A i \in 1..Here(h) : At(h, i) = h.undo[i]
      /\ \A i \in (Here(h) + 1)..Span(h) : At(h, i) = h.redo[Span(h) + 1 - i]
      /\ \A i \in 1..Here(h) : At(g, i) = g.undo[i]
      /\ \A i \in (Here(h) + 1)..Span(h) : At(g, i) = g.redo[Span(h) + 1 - i]
  BY <1>4, WalkOfStacks
<1>6. ASSUME NEW i \in 1..Span(h) PROVE At(g, i) = Other(At(h, i))
  <2>1. CASE i <= Here(h)
    <3>1. i \in 1..Here(h) /\ i \in 1..Closed(h)
      BY <1>1, <2>1
    <3> QED
      BY <1>3, <1>5, <3>1
  <2>2. CASE ~(i <= Here(h))
    <3>1. i \in (Here(h) + 1)..Span(h) /\ Span(h) + 1 - i \in 1..Undone(h)
      BY <1>1, <2>2
    <3> QED
      BY <1>3, <1>5, <3>1
  <2> QED
    BY <2>1, <2>2
<1>7. ASSUME NEW e \in AnyEntry
      PROVE  /\ SameEntry(e, Other(e))
             /\ Other(e).rec = IF e.key = key THEN ReplaceRecordIds(e.rec, old, new) ELSE e.rec
  BY WithRecord DEF Other, SameEntry
<1> QED
  BY <1>1, <1>4, <1>6, <1>7 DEF Alike

LEMMA FinishGroupStepWalks ==
    ASSUME NEW h, NEW n, HistoryFits(h, n), h.group = None, Past(h), NEW m, Unique(h, m),
           NEW plan \in Plans, Stack(h, plan.dir) # <<>>, NEW reply \in Replies
    PROVE  LET g == FinishGroupStep(h, plan, reply)
           IN  /\ g \in HistoryStates /\ g.group = None
               /\ Alike(h, g) /\ Here(g) = Beyond(h, plan.dir)
               /\ Next1(h, plan.dir) \in 1..Span(h) /\ At(h, Next1(h, plan.dir)) = Top(Stack(h, plan.dir))
               /\ \A i \in 1..Span(h) : At(g, i).rec = NewRec(h, plan.dir, plan.key, reply, i)
               /\ IF h.pending = None \/ h.pending.key # plan.key THEN g.pending = h.pending
                  ELSE IF HasGroupOnStack(g, h.pending.dir, plan.key)
                    THEN g.pending = [h.pending EXCEPT !.completed = @ + 1]
                    ELSE g.pending = None
<1> DEFINE rec == Top(Stack(h, plan.dir)).rec
           moved == MoveEntry(h, plan.dir, reply)
           remap == IF IsCreate(rec) /\ plan.dir = "redo"
                      THEN [moved EXCEPT
                              !.undo = RemapGroupIds(@, plan.key, rec.slot[1], reply.id),
                              !.redo = RemapGroupIds(@, plan.key, rec.slot[1], reply.id)]
                      ELSE moved
           g == FinishGroupStep(h, plan, reply)
           dir == plan.dir
<1>0. dir \in Directions
  BY DEF Plans
<1>1. /\ moved \in HistoryStates /\ moved.group = None /\ moved.pending = h.pending
      /\ Alike(h, moved) /\ Here(moved) = Beyond(h, dir)
      /\ Next1(h, dir) \in 1..Span(h) /\ At(h, Next1(h, dir)) = Top(Stack(h, dir))
      /\ \A i \in 1..Span(h) : At(moved, i).rec = MovedRec(h, dir, reply, i)
  BY <1>0, MoveEntryWalks
<1>2. g = IF h.pending = None \/ h.pending.key # plan.key THEN remap
          ELSE IF HasGroupOnStack(remap, h.pending.dir, plan.key)
            THEN [remap EXCEPT !.pending.completed = @ + 1]
            ELSE [remap EXCEPT !.pending = None]
  BY DEF FinishGroupStep
<1>3. g \in HistoryStates /\ g.group = None
  BY FinishGroupStepFollows DEF Follows, HistoryFits
<1>4. HistoryFits(moved, n)
  BY <1>0, MoveEntryFollows DEF Follows
<1> HIDE DEF moved, rec, g
<1>5. /\ remap \in HistoryStates /\ remap.group = None /\ remap.pending = h.pending
      /\ Alike(h, remap) /\ Here(remap) = Beyond(h, dir)
      /\ \A i \in 1..Span(h) : At(remap, i).rec = NewRec(h, dir, plan.key, reply, i)
  <2>1. CASE IsCreate(rec) /\ dir = "redo"
    <3> DEFINE u == RemapGroupIds(moved.undo, plan.key, rec.slot[1], reply.id)
               r == RemapGroupIds(moved.redo, plan.key, rec.slot[1], reply.id)
    <3>1. reply.id \in AnyObject /\ moved.undo \in Seq(AnyEntry) /\ moved.redo \in Seq(AnyEntry)
            /\ Known(moved.undo, moved.gen, n) /\ Known(moved.redo, moved.gen, n)
      BY <1>1, <1>4 DEF HistoryFits, HistoryStates, Replies
    <3>2. u \in Seq(AnyEntry) /\ r \in Seq(AnyEntry)
      BY <3>1, RemapKnown
    <3>3. remap = [moved EXCEPT !.undo = u, !.redo = r]
      BY <1>1, <2>1 DEF HistoryStates
    <3>4. u = RemapGroupIds(moved.undo, plan.key, rec.slot[1], reply.id)
          /\ r = RemapGroupIds(moved.redo, plan.key, rec.slot[1], reply.id)
      OBVIOUS
    <3> HIDE DEF u, r, remap
    <3>5. /\ remap \in HistoryStates /\ remap.group = None /\ remap.pending = h.pending
          /\ remap.undo = u /\ remap.redo = r
      BY <1>1, <3>2, <3>3 DEF HistoryStates
    <3>6. /\ Alike(moved, remap) /\ Here(remap) = Here(moved)
          /\ \A i \in 1..Span(moved) : At(remap, i).rec = IF At(moved, i).key = plan.key
                                         THEN ReplaceRecordIds(At(moved, i).rec, rec.slot[1], reply.id)
                                         ELSE At(moved, i).rec
      <4>1. PICK old, new, key : old = rec.slot[1] /\ new = reply.id /\ key = plan.key
        OBVIOUS
      <4>2. Remaps(moved, remap, key, old, new)
        BY <3>4, <3>5, <4>1 DEF Remaps
      <4>3. moved \in HistoryStates /\ remap \in HistoryStates /\ moved.group = None /\ remap.group = None
        BY <1>1, <3>5
      <4>4. /\ Alike(moved, remap) /\ Here(remap) = Here(moved)
            /\ \A i \in 1..Span(moved) : At(remap, i).rec = IF At(moved, i).key = key
                                           THEN ReplaceRecordIds(At(moved, i).rec, old, new)
                                           ELSE At(moved, i).rec
        BY <4>2, <4>3, RemapWalks
      <4> QED
        BY <4>1, <4>4
    <3>7. Alike(h, remap)
      BY <1>1, <3>6 DEF Alike, SameEntry
    <3>8. At(h, Next1(h, dir)).rec = rec
      BY <1>1 DEF rec
    <3>9. ASSUME NEW i \in 1..Span(h) PROVE At(remap, i).rec = NewRec(h, dir, plan.key, reply, i)
      <4>1. /\ At(moved, i).key = At(h, i).key /\ At(moved, i).rec = MovedRec(h, dir, reply, i)
            /\ Span(moved) = Span(h)
        BY <1>1 DEF Alike, SameEntry
      <4>2. At(remap, i).rec = IF At(h, i).key = plan.key
                                 THEN ReplaceRecordIds(MovedRec(h, dir, reply, i), rec.slot[1], reply.id)
                                 ELSE MovedRec(h, dir, reply, i)
        BY <3>6, <4>1
      <4> QED
        BY <2>1, <3>8, <4>2 DEF NewRec
    <3> QED
      BY <1>1, <3>5, <3>6, <3>7, <3>9
  <2>2. CASE ~(IsCreate(rec) /\ dir = "redo")
    <3>1. remap = moved
      BY <2>2
    <3>2. At(h, Next1(h, dir)).rec = rec
      BY <1>1 DEF rec
    <3> HIDE DEF remap
    <3> QED
      BY <1>1, <2>2, <3>1, <3>2 DEF NewRec
  <2> QED
    BY <2>1, <2>2
<1> HIDE DEF remap
<1>6. /\ g.undo = remap.undo /\ g.redo = remap.redo
      /\ IF h.pending = None \/ h.pending.key # plan.key THEN g.pending = h.pending
         ELSE IF HasGroupOnStack(remap, h.pending.dir, plan.key)
           THEN g.pending = [h.pending EXCEPT !.completed = @ + 1]
           ELSE g.pending = None
  BY <1>2, <1>5 DEF HistoryStates
<1>7. HasGroupOnStack(remap, h.pending.dir, plan.key) <=> HasGroupOnStack(g, h.pending.dir, plan.key)
  BY <1>6 DEF HasGroupOnStack, Stack
<1>8. SameStacks(remap, g)
  BY <1>3, <1>5, <1>6 DEF SameStacks
<1>9. /\ Span(g) = Span(remap) /\ Here(g) = Here(remap)
      /\ \A i : At(g, i) = At(remap, i)
  BY <1>8, SameWalk
<1>10. Alike(h, g) /\ \A i \in 1..Span(h) : At(g, i).rec = NewRec(h, dir, plan.key, reply, i)
  BY <1>5, <1>9 DEF Alike
<1> QED
  BY <1>1, <1>3, <1>5, <1>6, <1>7, <1>9, <1>10 DEF g


\* A history that differs in its revisions and its cache alone.
Renewed(h, g) ==
    /\ g \in HistoryStates /\ SameStacks(h, g) /\ g.pending = h.pending /\ g.gen = h.gen
    /\ \A n : HistoryFits(h, n) => HistoryFits(g, n)

\* What an accepted edit makes of the history: nothing, one more record, or, a deletion, the
\* end of everything but the active group.
Recorded(h, edit, rec, reply) ==
    \/ edit.op = "set" /\ edit.old \notin {None, reply.val}
         /\ rec = [slot |-> edit.slot, old |-> edit.old, new |-> reply.val]
    \/ edit.op = "create" /\ reply.id # None
         /\ rec = [slot |-> <<reply.id, "object">>, old |-> "gone", new |-> "alive"]

LEMMA RecordSuccessForms ==
    ASSUME NEW h, NEW n \in Nat, HistoryFits(h, n), NEW edit \in EditRuns, EditFits(h, edit, n),
           NEW reply \in Replies,
           edit.op = "set" => edit.slot \in Slots /\ reply.val \in Values
    PROVE  LET r == RecordSuccess(h, edit, reply)
           IN  \/ /\ edit.op = "delete" /\ r \in HistoryStates /\ r.undo = <<>> /\ r.redo = <<>>
                  /\ r.group = h.group /\ r.pending = h.pending
               \/ \E g : /\ Renewed(h, g)
                         /\ \/ r = g /\ ~(\E rec : Recorded(h, edit, rec, reply)) /\ edit.op # "delete"
                            \/ \E rec \in AnyRecord : r = PushRecord(g, edit, rec) /\ Recorded(h, edit, rec, reply)
<1> DEFINE applied == [h EXCEPT !.applied = @ + 1]
           counted == Bump(applied)
           set == InsertCorrection(counted, edit.slot, reply.val)
           setRec == [slot |-> edit.slot, old |-> edit.old, new |-> reply.val]
           newRec == [slot |-> <<reply.id, "object">>, old |-> "gone", new |-> "alive"]
           parent == InsertParent(counted, reply.id)
           cleared == [counted EXCEPT !.corr = NoCorrections, !.lost = counted.applied,
                                      !.undo = <<>>, !.redo = <<>>]
           r == RecordSuccess(h, edit, reply)
<1>1. h \in HistoryStates /\ h.applied + 1 \in Nat /\ h.rev \in Nat
  BY DEF HistoryFits, HistoryStates
<1>2. /\ applied \in HistoryStates /\ SameKind(h, applied) /\ applied.rev = h.rev
      /\ applied.undo = h.undo /\ applied.redo = h.redo
  BY <1>1 DEF HistoryStates, SameKind
<1>3. \/ r = cleared /\ edit.op = "delete"
      \/ r = set /\ edit.op = "set" /\ edit.old \in {None, reply.val}
      \/ r = PushRecord(set, edit, setRec) /\ edit.op = "set" /\ edit.old \notin {None, reply.val}
      \/ r = counted /\ (edit.op = "other" \/ (edit.op = "create" /\ reply.id = None))
      \/ r = PushRecord(parent, edit, newRec) /\ edit.op = "create" /\ reply.id # None
  <2> USE DEF EditRuns
  <2>1. edit.op \in {"set", "create", "delete", "other"}
    OBVIOUS
  <2> HIDE DEF EditRuns, applied, set, setRec, newRec, parent
  <2>2. CASE edit.op = "set"
    BY <2>2 DEF RecordSuccess, applied, set, setRec, newRec, parent
  <2>3. CASE edit.op = "create"
    <3>1. r = IF reply.id = None THEN counted ELSE PushRecord(parent, edit, newRec)
      BY <2>3 DEF RecordSuccess, applied, newRec, parent
    <3> QED
      BY <2>3, <3>1
  <2>4. CASE edit.op = "delete"
    <3>1. r = cleared
      BY <2>4 DEF RecordSuccess, applied
    <3> HIDE DEF counted, cleared, r
    <3> QED
      BY <2>4, <3>1
  <2>5. CASE edit.op = "other"
    <3>1. r = counted
      BY <2>5 DEF RecordSuccess, applied
    <3> HIDE DEF counted, cleared, r
    <3> QED
      BY <2>5, <3>1
  <2> HIDE DEF counted, cleared, r
  <2> QED
    BY <2>1, <2>2, <2>3, <2>4, <2>5
<1> HIDE DEF applied, r
<1>4. \A k : HistoryFits(h, k) => HistoryFits(applied, k)
  BY <1>2 DEF HistoryFits, GroupFits, SameKind
<1>5. /\ counted \in HistoryStates /\ SameKind(applied, counted) /\ \A k : HistoryFits(h, k) => HistoryFits(counted, k)
      /\ counted.undo = h.undo /\ counted.redo = h.redo
  <2>1. HistoryFits(applied, n) 
    BY <1>4
  <2>2. HistoryFits(counted, n) /\ SameKind(applied, counted)
        /\ counted.undo = applied.undo /\ counted.redo = applied.redo
    BY <2>1, BumpFits
  <2>3. \A k : HistoryFits(applied, k) => HistoryFits(counted, k)
    BY BumpFits
  <2> QED
    BY <1>2, <1>4, <2>2, <2>3 DEF HistoryFits
<1> HIDE DEF counted
<1>6. ASSUME NEW g, SameButCorrections(counted, g) PROVE Renewed(h, g)
  <2>1. g \in HistoryStates /\ SameStacks(h, g) /\ g.pending = h.pending /\ g.gen = h.gen
    BY <1>2, <1>5, <1>6 DEF SameButCorrections, SameKind, SameStacks
  <2>2. \A k : HistoryFits(counted, k) => HistoryFits(g, k)
    BY <1>6, CorrectionsFit
  <2> QED
    BY <1>5, <2>1, <2>2 DEF Renewed
<1>7. SameButCorrections(counted, counted)
  BY <1>5 DEF SameButCorrections
<1>8. edit.op = "set" => SameButCorrections(counted, set)
  BY <1>5, InsertCorrectionFits DEF Replies
<1>9. SameButCorrections(counted, parent)
  BY <1>5, InsertParentFits
<1>10. edit.op = "set" /\ edit.old # None => setRec \in AnyRecord
  BY DEF EditRuns, AnyValue, AnyRecord, Slots, AnyObject
<1>11. newRec \in AnyRecord
  BY DEF Replies, AnyRecord
<1>12. /\ cleared \in HistoryStates /\ cleared.undo = <<>> /\ cleared.redo = <<>>
       /\ cleared.group = h.group /\ cleared.pending = h.pending
  <2>1. NoCorrections \in [Slots -> [rev : Nat, val : AnyValue] \cup {None}]
    BY DEF NoCorrections
  <2> HIDE DEF NoCorrections
  <2> DEFINE k == [counted EXCEPT !.corr = NoCorrections, !.lost = counted.applied]
  <2>2. k \in HistoryStates /\ k.group = counted.group /\ k.pending = counted.pending
    BY <1>5, <2>1 DEF HistoryStates
  <2>3. cleared = [k EXCEPT !.undo = <<>>, !.redo = <<>>]
    BY <1>5 DEF HistoryStates
  <2> HIDE DEF k, cleared
  <2>4. <<>> \in Seq(AnyEntry)
    OBVIOUS
  <2> QED
    BY <1>2, <1>5, <2>2, <2>3, <2>4 DEF HistoryStates, SameKind
<1>13. edit.op = "set" /\ edit.old \notin {None, reply.val} => Recorded(h, edit, setRec, reply)
  BY DEF Recorded
<1>14. edit.op = "create" /\ reply.id # None => Recorded(h, edit, newRec, reply)
  BY DEF Recorded
<1> HIDE DEF set, setRec, newRec, parent, cleared
<1>15. Renewed(h, counted) /\ Renewed(h, parent) /\ (edit.op = "set" => Renewed(h, set))
  BY <1>6, <1>7, <1>8, <1>9
<1>16. CASE r = cleared /\ edit.op = "delete"
  BY <1>12, <1>16 DEF r
<1>17. CASE r = set /\ edit.op = "set" /\ edit.old \in {None, reply.val}
  <2>1. ~(\E rec : Recorded(h, edit, rec, reply)) /\ edit.op # "delete"
    BY <1>17 DEF Recorded
  <2> QED
    BY <1>15, <1>17, <2>1 DEF r
<1>18. CASE r = PushRecord(set, edit, setRec) /\ edit.op = "set" /\ edit.old \notin {None, reply.val}
  <2>1. setRec \in AnyRecord /\ Recorded(h, edit, setRec, reply) /\ Renewed(h, set)
    BY <1>10, <1>13, <1>15, <1>18
  <2> QED
    BY <1>18, <2>1 DEF r
<1>19. CASE r = counted /\ (edit.op = "other" \/ (edit.op = "create" /\ reply.id = None))
  <2>1. ~(\E rec : Recorded(h, edit, rec, reply)) /\ edit.op # "delete"
    BY <1>19 DEF Recorded
  <2> QED
    BY <1>15, <1>19, <2>1 DEF r
<1>20. CASE r = PushRecord(parent, edit, newRec) /\ edit.op = "create" /\ reply.id # None
  <2>1. newRec \in AnyRecord /\ Recorded(h, edit, newRec, reply) /\ Renewed(h, parent)
    BY <1>11, <1>14, <1>15, <1>20
  <2> QED
    BY <1>20, <2>1 DEF r
<1> QED
  BY <1>3, <1>16, <1>17, <1>18, <1>19, <1>20

LEMMA PushRecordTidy ==
    ASSUME NEW h, NEW n \in Nat, HistoryFits(h, n), NEW edit, EditFits(h, edit, n),
           HistoryFits(h, edit.seq), NEW rec \in AnyRecord, Tidy(h, None)
    PROVE  Tidy(PushRecord(h, edit, rec), None) /\ PushRecord(h, edit, rec).pending = h.pending
<1> DEFINE g == PushRecord(h, edit, rec)
<1>1. PICK e \in AnyEntry : Pushed(h, edit, rec, n, e)
  BY PushRecordForms
<1>2. g \in HistoryStates /\ h \in HistoryStates
  BY PushRecordFits DEF HistoryFits
<1>3. CASE h.group = None
  <2>1. e.key = edit.seq /\ e.count = 1 /\ g = [h EXCEPT !.undo = Append(h.undo, e), !.redo = <<>>]
    BY <1>1, <1>3 DEF Pushed
  <2>2. /\ g.undo = Append(h.undo, e) /\ g.redo = <<>> /\ g.group = None /\ g.pending = h.pending
    <3> DEFINE u == Append(h.undo, e)
    <3> HIDE DEF g, u
    <3>1. g = [h EXCEPT !.undo = u, !.redo = <<>>]
      BY <2>1 DEF u
    <3>2. g.undo = u /\ g.redo = <<>> /\ g.group = None /\ g.pending = h.pending
      BY <1>2, <1>3, <3>1 DEF HistoryStates
    <3> QED
      BY <3>2 DEF u
  <2>3. \A i \in 1..Span(h) : At(h, i).key # e.key
    <3>1. \A i \in 1..Span(h) : At(h, i).key < edit.seq /\ At(h, i).key \in 1..MaxSequence
      BY <1>2, KnownKeys, SpanType
    <3>2. edit.seq \in Nat
      BY DEF EditFits
    <3> QED
      BY <2>1, <3>1, <3>2
  <2> HIDE DEF g
  <2>4. WalkFits(g, None) /\ GroupSmall(g)
    BY <1>2, <1>3, <2>1, <2>2, <2>3, PushAloneFits DEF Tidy
  <2> QED
    BY <2>2, <2>4 DEF Tidy, g
<1>4. CASE h.group # None
  <2> DEFINE into == Into(h, e)
  <2>1. /\ HistoryFits(into, n)
        /\ e.key = h.group.token /\ e.named = TRUE /\ e.count = Len(h.group.entries) + 1
        /\ g = IF Len(h.group.entries) + 1 >= MaxGroupEdits THEN CloseActiveGroup(into) ELSE into
    BY <1>1, <1>4 DEF Pushed
  <2>2. /\ into.undo = h.undo /\ into.redo = IF h.group.entries = <<>> THEN <<>> ELSE h.redo
        /\ into.group = [token |-> h.group.token, entries |-> Append(h.group.entries, e)]
        /\ into.pending = h.pending /\ into \in HistoryStates
    <3>1. into \in HistoryStates
      BY <2>1 DEF HistoryFits
    <3> QED
      BY <1>2, <3>1 DEF Into, HistoryStates
  <2> HIDE DEF into, g
  <2>3. into.group # None
    <3> DEFINE entries == Append(h.group.entries, e)
    <3>1. h.group \in [token : 1..MaxSequence, entries : Seq(AnyEntry)]
      BY <1>2, <1>4 DEF HistoryStates
    <3>2. entries \in Seq(AnyEntry)
      BY <3>1
    <3> HIDE DEF entries
    <3>3. [token |-> h.group.token, entries |-> entries] \in [token : 1..MaxSequence, entries : Seq(AnyEntry)]
      BY <3>1, <3>2
    <3> QED
      BY <2>2, <3>3, NoneAssumption DEF entries
  <2>4. into.group.token = h.group.token /\ into.group.entries = Append(h.group.entries, e)
    BY <2>2
  <2>5. WalkFits(into, None) /\ Open(into) = Open(h) + 1 /\ Open(into) <= MaxGroupEdits
    BY <1>2, <1>4, <2>1, <2>2, <2>3, <2>4, PushGroupedFits DEF Tidy
  <2>6. Open(h) = Len(h.group.entries) /\ Open(h) \in Nat /\ MaxGroupEdits \in Nat
    BY <1>2, <1>4, SpanType, EditAssumption DEF Open, GroupEntries
  <2>7. CASE Len(h.group.entries) + 1 >= MaxGroupEdits
    <3>1. g = CloseActiveGroup(into)
      BY <2>1, <2>7
    <3>2. WalkFits(CloseActiveGroup(into), None) /\ GroupSmall(CloseActiveGroup(into))
      BY <2>1, <2>5, CloseFits
    <3>3. CloseActiveGroup(into).pending = into.pending
      BY <2>1, CloseFollows
    <3> QED
      BY <2>2, <3>1, <3>2, <3>3 DEF Tidy, g
  <2>8. CASE ~(Len(h.group.entries) + 1 >= MaxGroupEdits)
    <3>1. g = into
      BY <2>1, <2>8
    <3>2. Open(into) < MaxGroupEdits
      BY <2>5, <2>6, <2>8
    <3> QED
      BY <2>2, <2>5, <3>1, <3>2 DEF Tidy, GroupSmall, g
  <2> QED
    BY <2>7, <2>8
<1> QED
  BY <1>3, <1>4

LEMMA RecordSuccessTidy ==
    ASSUME NEW h, NEW n \in Nat, HistoryFits(h, n), NEW edit \in EditRuns, EditFits(h, edit, n),
           NEW reply \in Replies, edit.op = "set" => edit.slot \in Slots /\ reply.val \in Values,
           HistoryFits(h, edit.seq), Tidy(h, None)
    PROVE  Tidy(RecordSuccess(h, edit, reply), None) /\ RecordSuccess(h, edit, reply).pending = h.pending
<1> DEFINE r == RecordSuccess(h, edit, reply)
<1>1. \/ /\ edit.op = "delete" /\ r \in HistoryStates /\ r.undo = <<>> /\ r.redo = <<>>
         /\ r.group = h.group /\ r.pending = h.pending
      \/ \E g : Renewed(h, g) /\ (r = g \/ \E rec \in AnyRecord : r = PushRecord(g, edit, rec))
  <2> HIDE DEF r
  <2>1. \/ /\ edit.op = "delete" /\ r \in HistoryStates /\ r.undo = <<>> /\ r.redo = <<>>
           /\ r.group = h.group /\ r.pending = h.pending
        \/ \E g : /\ Renewed(h, g)
                  /\ \/ r = g /\ ~(\E rec : Recorded(h, edit, rec, reply)) /\ edit.op # "delete"
                     \/ \E rec \in AnyRecord : r = PushRecord(g, edit, rec) /\ Recorded(h, edit, rec, reply)
    BY RecordSuccessForms DEF r
  <2> QED
    BY <2>1
<1> HIDE DEF r
<1>2. h \in HistoryStates
  BY DEF HistoryFits
<1>3. CASE r \in HistoryStates /\ r.undo = <<>> /\ r.redo = <<>> /\ r.group = h.group /\ r.pending = h.pending
  BY <1>2, <1>3, DeleteTidy DEF r
<1>4. ASSUME NEW g, Renewed(h, g) PROVE Tidy(g, None) /\ g.pending = h.pending
  BY <1>4, SameTidy DEF Renewed
<1>5. ASSUME NEW g, Renewed(h, g), NEW rec \in AnyRecord
      PROVE  Tidy(PushRecord(g, edit, rec), None) /\ PushRecord(g, edit, rec).pending = h.pending
  <2>1. HistoryFits(g, n) /\ HistoryFits(g, edit.seq) /\ Tidy(g, None) /\ g.pending = h.pending
    BY <1>4, <1>5 DEF Renewed
  <2>2. EditFits(g, edit, n)
    BY <1>5 DEF EditFits, Renewed, SameStacks
  <2> QED
    BY <2>1, <2>2, PushRecordTidy
<1> QED
  BY <1>1, <1>3, <1>4, <1>5 DEF r


-----------------------------------------------------------------------------
(* Groups stay whole: the invariant.                                         *)

Working == run # None /\ run.kind = "history"

\* The group that may be cut: the one an undo or redo is at, or the pending one.
PendingKey(h) == IF h.pending # None THEN h.pending.key ELSE None
BusyKey == IF Working /\ run.grouped THEN run.plan.key ELSE PendingKey(history)

\* The item's own account of its group agrees with the stacks and, in a retry, with the pending
\* group; a single entry is nobody's group.
WorkAccounts ==
    Working =>
      /\ run.revoked => run.src = "mcp"
      /\ run.retry => run.src = "ui" /\ run.grouped
      /\ ~run.retry => history.pending = None
      /\ run.retry => IF run.completed = run.plan.count THEN history.pending = None
                      ELSE /\ history.pending # None
                           /\ history.pending.key = run.plan.key /\ history.pending.dir = run.plan.dir
                           /\ history.pending.completed = run.completed
                           /\ history.pending.count = run.plan.count
      /\ ~run.grouped => ~run.step.named
      /\ run.grouped =>
           /\ Accounts(history, run.plan.dir, run.plan.key, run.completed, run.plan.count)
           /\ Len(run.left) + (IF run.step = None THEN 0 ELSE 1) + run.completed = run.plan.count

GroupInv ==
    HistoryFits(history, NextId) /\ Tidy(history, BusyKey) /\ PendingFits(history) /\ WorkAccounts

LEMMA IdleHolds ==
    ASSUME run' = None \/ run'.kind = "edit", HistoryFits(history', NextId'),
           Tidy(history', PendingKey(history')), PendingFits(history')
    PROVE  GroupInv'
<1>1. ~Working' /\ BusyKey' = PendingKey(history')
  BY DEF Working, BusyKey
<1> QED
  BY <1>1 DEF GroupInv, WorkAccounts

\* The history an item starts from.
LEMMA CurrentHolds ==
    ASSUME EditInv, GroupInv, run = None \/ run.kind = "edit" \/ session # history.gen
    PROVE  /\ Tidy(Current, PendingKey(Current)) /\ PendingFits(Current)
           /\ HistoryFits(Current, NextId)
           /\ Current.pending = None => Tidy(Current, None)
           /\ Current.group # None => Current.pending = None
<1>1. session \in 1..MaxGeneration \cup {None} /\ HistoryFits(Current, seq) /\ seq \in Nat /\ NextId \in Nat
  <2>1. NextId \in Nat
    BY CurrentFits DEF NextId, EditInv, EditRunFits, EditRuns
  <2> QED
    BY <2>1, CurrentFits DEF EditInv, RunIsOfHistory
<1>2. HistoryFits(Current, NextId) /\ PendingFits(Current)
  BY <1>1, SynchronizeFollows, SynchronizeTidy DEF GroupInv, Current
<1>3. Tidy(Current, PendingKey(Current))
  <2>1. CASE history.gen = session
    <3>1. Current = history /\ BusyKey = PendingKey(history)
      BY <2>1 DEF Current, Synchronize, BusyKey, Working
    <3> QED
      BY <3>1 DEF GroupInv
  <2>2. CASE history.gen # session
    BY <1>1, <2>2, SynchronizeTidy DEF GroupInv, Current
  <2> QED
    BY <2>1, <2>2
<1>4. Current.pending = None => Tidy(Current, None)
  BY <1>3 DEF PendingKey
<1>5. Current.group # None => Current.pending = None
  BY <1>2 DEF HistoryFits
<1> QED
  BY <1>2, <1>3, <1>4, <1>5

LEMMA FinishedHolds ==
    ASSUME EditInv, NEW h, HistoryFits(h, seq), Tidy(h, PendingKey(h)), PendingFits(h),
           Finished(h), UNCHANGED <<session, seq>>
    PROVE  GroupInv'
<1>1. session \in 1..MaxGeneration \cup {None} /\ seq \in Nat
  BY CurrentFits DEF EditInv, RunIsOfHistory
<1>2. history' = Synchronize(h, session) /\ run' = None /\ NextId' = seq
  BY DEF Finished, NextId
<1>3. HistoryFits(history', NextId') /\ PendingFits(history')
  BY <1>1, <1>2, SynchronizeFollows, SynchronizeTidy
<1>4. Tidy(history', PendingKey(history'))
  <2>1. CASE h.gen = session
    BY <1>2, <2>1 DEF Synchronize
  <2>2. CASE h.gen # session
    BY <1>1, <1>2, <2>2, SynchronizeTidy
  <2> QED
    BY <2>1, <2>2
<1> QED
  BY <1>2, <1>3, <1>4, IdleHolds

\* An item of a connection that is gone leaves nothing.
LEMMA GoneHolds ==
    ASSUME EditInv, GroupInv, run # None, session # run.gen, Finished(Current), UNCHANGED <<session, seq>>
    PROVE  GroupInv'
<1>1. session # history.gen
  BY DEF EditInv, RunIsOfHistory
<1>2. HistoryFits(Current, seq) /\ Tidy(Current, PendingKey(Current)) /\ PendingFits(Current)
  BY <1>1, CurrentFits, CurrentHolds
<1> QED
  BY <1>2, FinishedHolds

LEMMA SameHolds ==
    ASSUME GroupInv, UNCHANGED <<history, run, seq>>
    PROVE  GroupInv'
BY DEF GroupInv, WorkAccounts, Working, BusyKey, NextId

-----------------------------------------------------------------------------
(* Groups stay whole: connections, controls and edits.                       *)

LEMMA InitWhole == Init => GroupInv
<1> SUFFICES ASSUME Init PROVE GroupInv
  OBVIOUS
<1>1. history = EmptyHistory(1, 0) /\ run = None /\ seq = 1
  BY DEF Init
<1>2. 1 \in 1..MaxGeneration \cup {None}
  BY EditAssumption
<1>3. HistoryFits(history, 1) /\ (\A key : Tidy(history, key)) /\ PendingFits(history)
  BY <1>1, <1>2, EmptyFits, EmptyTidy
<1> QED
  BY <1>1, <1>3 DEF GroupInv, NextId, WorkAccounts, Working

LEMMA SessionChangedWhole == EditInv /\ GroupInv /\ SessionChanged => GroupInv'
<1> SUFFICES ASSUME EditInv, GroupInv, SessionChanged PROVE GroupInv'
  OBVIOUS
<1>1. /\ session # history.gen /\ history' = Current /\ seq' = seq
      /\ run' = IF run # None /\ run.gen # session THEN None ELSE run
  BY DEF SessionChanged
<1>2. run' = None
  BY <1>1 DEF EditInv, RunIsOfHistory
<1>3. HistoryFits(Current, seq) /\ Tidy(Current, PendingKey(Current)) /\ PendingFits(Current)
  BY <1>1, CurrentFits, CurrentHolds
<1>4. NextId' = seq
  BY <1>1, <1>2 DEF NextId
<1> QED
  BY <1>1, <1>2, <1>3, <1>4, IdleHolds

LEMMA PreparedHolds ==
    ASSUME EditInv, GroupInv, run = None, NEW token
    PROVE  /\ HistoryFits(Prepared(token), seq) /\ HistoryFits(Current, seq)
           /\ Tidy(Prepared(token), PendingKey(Prepared(token))) /\ PendingFits(Prepared(token))
           /\ Tidy(Current, PendingKey(Current)) /\ PendingFits(Current)
<1>1. HistoryFits(Current, seq) /\ seq \in Nat
  BY CurrentFits
<1>2. Tidy(Current, PendingKey(Current)) /\ PendingFits(Current)
  BY CurrentHolds
<1>3. HistoryFits(Prepared(token), seq)
  BY <1>1, CloseGroupUnlessFollows DEF Prepared, Follows
<1>4. CASE Current.group = None
  <2>1. Prepared(token) = Current
    BY <1>4 DEF Prepared, CloseGroupUnless, HasGroup, CloseActiveGroup
  <2> QED
    BY <1>1, <1>2, <1>3, <2>1
<1>5. CASE Current.group # None
  <2>1. Current.pending = None
    BY <1>1, <1>5 DEF HistoryFits
  <2>2. Tidy(Prepared(token), None)
    BY <1>1, <1>2, <2>1, CloseUnlessTidy DEF Prepared, PendingKey
  <2>3. Prepared(token).pending = None
    BY <1>1, <2>1, CloseGroupUnlessFollows DEF Prepared
  <2> QED
    BY <1>1, <1>2, <1>3, <2>2, <2>3 DEF PendingKey, PendingFits
<1> QED
  BY <1>4, <1>5

LEMMA EditRefusedWhole == EditInv /\ GroupInv /\ EditRefused => GroupInv'
<1> SUFFICES ASSUME EditInv, GroupInv, EditRefused PROVE GroupInv'
  OBVIOUS
<1>1. run = None /\ run' = None /\ seq' = seq /\ NextId' = seq
  BY DEF EditRefused, Free, NextId
<1>2. history' = Current \/ \E token : history' = Prepared(token)
  BY DEF EditRefused
<1> QED
  BY <1>1, <1>2, PreparedHolds, IdleHolds

LEMMA StartEditWhole ==
    ASSUME EditInv, GroupInv, NEW src, NEW op, NEW slot, NEW val, NEW old, NEW token,
           Accepted(token), StartEdit(src, op, slot, val, old, token)
    PROVE  GroupInv'
<1>1. run = None /\ history' = Prepared(token) /\ seq' = seq + 1 /\ seq \in Nat
  BY NextIdFacts DEF Accepted, Free
<1>2. run'.kind = "edit" /\ run'.seq = seq
  BY DEF StartEdit
<1>3. HistoryFits(history', NextId')
  <2>1. HistoryFits(history', seq)
    BY <1>1, PreparedHolds
  <2>2. HistoryFits(history', seq + 1)
    BY <1>1, <2>1, FitsLater
  <2> QED
    BY <1>1, <1>2, <2>1, <2>2 DEF NextId
<1> QED
  BY <1>1, <1>2, <1>3, PreparedHolds, IdleHolds

LEMMA SetFromUiWhole ==
    ASSUME EditInv, GroupInv, NEW slot, NEW val, SetFromUi(slot, val)
    PROVE  GroupInv'
<1>1. \/ Free /\ history' = Prepared(None) /\ run' = run /\ seq' = seq
      \/ \E old : Accepted(None) /\ StartEdit("ui", "set", slot, val, old, None)
  BY DEF SetFromUi
<1>2. CASE Free /\ history' = Prepared(None) /\ run' = run /\ seq' = seq
  <2>1. run = None /\ run' = None /\ NextId' = seq
    BY <1>2 DEF Free, NextId
  <2> QED
    BY <1>2, <2>1, PreparedHolds, IdleHolds
<1> QED
  BY <1>1, <1>2, StartEditWhole

LEMMA EditsWhole ==
    ASSUME EditInv, GroupInv,
           \/ \E slot \in Slots, val \in Values, token \in {None} \cup 1..MaxSequence :
                SetFromMcp(slot, val, token)
           \/ \E src \in {"ui", "mcp"}, token \in {None} \cup 1..MaxSequence : Create(src, token)
           \/ \E src \in {"ui", "mcp"}, o \in Objects : Delete(src, o)
           \/ \E src \in {"ui", "mcp"} : OtherEdit(src)
    PROVE  GroupInv'
<1>1. \E src, op, slot, val, old, token :
         Accepted(token) /\ StartEdit(src, op, slot, val, old, token)
  BY DEF SetFromMcp, Create, Delete, OtherEdit
<1> QED
  BY <1>1, StartEditWhole

\* The engine's answer is no concern of the groups.
LEMMA ReplyWhole ==
    ASSUME EditInv, GroupInv, InFlight, NEW reply \in Replies, run' = [run EXCEPT !.reply = reply],
           UNCHANGED <<history, seq>>
    PROVE  GroupInv'
<1>1. run # None /\ run.kind \in {"edit", "history"}
  BY DEF InFlight, EditInv, RunIsOfHistory
<1>2. CASE run.kind = "edit"
  <2>1. run \in EditRuns
    BY <1>1, <1>2 DEF EditInv, EditRunFits
  <2>2. run' \in EditRuns /\ run'.kind = "edit" /\ run'.seq = run.seq
    BY <1>2, <2>1 DEF EditRuns
  <2>3. run' # None
    BY <2>2, NoneAssumption
  <2> QED
    BY <1>1, <1>2, <2>2, <2>3 DEF GroupInv, WorkAccounts, Working, BusyKey, NextId
<1>3. CASE run.kind = "history"
  <2>1. run \in HistoryRuns
    BY <1>1, <1>3 DEF EditInv, HistoryRunFits
  <2>2. /\ run' \in HistoryRuns /\ run'.kind = "history" /\ run'.src = run.src
        /\ run'.plan = run.plan /\ run'.step = run.step /\ run'.left = run.left
        /\ run'.grouped = run.grouped /\ run'.retry = run.retry /\ run'.completed = run.completed
        /\ run'.revoked = run.revoked
    BY <1>3, <2>1 DEF HistoryRuns
  <2>3. run' # None
    BY <2>2, NoneAssumption
  <2>4. NextId' = NextId /\ BusyKey' = BusyKey
    BY <1>1, <1>3, <2>2, <2>3 DEF NextId, BusyKey, Working
  <2>5. WorkAccounts'
    BY <1>1, <1>3, <2>2, <2>3 DEF GroupInv, WorkAccounts, Working
  <2> QED
    BY <2>4, <2>5 DEF GroupInv
<1> QED
  BY <1>1, <1>2, <1>3

LEMMA EngineWhole == EditInv /\ GroupInv /\ (EngineAccepts \/ EngineRefuses) => GroupInv'
<1> SUFFICES ASSUME EditInv, GroupInv, EngineAccepts \/ EngineRefuses PROVE GroupInv'
  OBVIOUS
<1>1. InFlight /\ UNCHANGED <<history, seq>>
  BY DEF EngineAccepts, EngineRefuses
<1>2. \E reply \in Replies : run' = [run EXCEPT !.reply = reply]
  <2>1. CASE EngineAccepts /\ Request(run).op = "set"
    <3>1. Clamp(Request(run).slot, Request(run).val) \in Values
      BY <1>1, <2>1, RequestType
    <3>2. [st |-> "accepted", id |-> None, val |-> Clamp(Request(run).slot, Request(run).val)] \in Replies
      BY <3>1 DEF Replies, AnyValue, AnyObject
    <3>3. run' = [run EXCEPT !.reply = [st |-> "accepted", id |-> None,
                                        val |-> Clamp(Request(run).slot, Request(run).val)]]
      BY <2>1 DEF EngineAccepts
    <3> QED
      BY <3>2, <3>3
  <2>3. CASE EngineAccepts /\ Request(run).op # "set"
    <3>1. PICK id \in AnyObject :
             run' = [run EXCEPT !.reply = [st |-> "accepted", id |-> id, val |-> None]]
      BY <2>3 DEF EngineAccepts, AnyObject
    <3>2. [st |-> "accepted", id |-> id, val |-> None] \in Replies
      BY DEF Replies, AnyValue
    <3> QED
      BY <3>1, <3>2
  <2>2. CASE EngineRefuses
    <3>1. PICK st \in {"refused", "error", "unsupported"} :
             run' = [run EXCEPT !.reply = [st |-> st, id |-> None, val |-> None]]
      BY <2>2 DEF EngineRefuses
    <3>2. [st |-> st, id |-> None, val |-> None] \in Replies
      BY DEF Replies, AnyValue, AnyObject
    <3> QED
      BY <3>1, <3>2
  <2> QED
    BY <2>1, <2>2, <2>3
<1> QED
  BY <1>1, <1>2, ReplyWhole


-----------------------------------------------------------------------------
(* Groups stay whole: the end of an edit, and controls.                      *)

\* While an edit is in work, or nothing, no undo or redo is half done but the pending one.
LEMMA EditHolds ==
    ASSUME EditInv, CacheInv, GroupInv, run # None, run.kind = "edit"
    PROVE  /\ history.pending = None /\ Tidy(history, None) /\ HistoryFits(history, run.seq)
           /\ CloseIfGrouped(history).pending = None /\ Tidy(CloseIfGrouped(history), None)
           /\ HistoryFits(CloseIfGrouped(history), run.seq) /\ CloseIfGrouped(history).group = None
           /\ run.seq \in 1..MaxSequence
<1>1. history.pending = None /\ run \in EditRuns /\ run.seq \in 1..MaxSequence
  BY DEF EditInv, EditRunFits, EditRuns
<1>2. BusyKey = None /\ NextId = run.seq
  BY <1>1 DEF BusyKey, PendingKey, Working, NextId
<1>3. Tidy(history, None) /\ HistoryFits(history, run.seq) /\ run.seq \in Nat
  BY <1>1, <1>2, NextIdFacts DEF GroupInv
<1>4. /\ HistoryFits(CloseActiveGroup(history), run.seq) /\ CloseActiveGroup(history).pending = None
      /\ Tidy(CloseActiveGroup(history), None)
  BY <1>1, <1>3, CloseFollows, CloseTidy DEF Follows
<1>5. CloseIfGrouped(history) = history \/ CloseIfGrouped(history) = CloseActiveGroup(history)
  BY DEF CloseIfGrouped
<1>6. CloseIfGrouped(history).group = None
  BY CloseIfGroupedFollows
<1> QED
  BY <1>1, <1>3, <1>4, <1>5, <1>6

LEMMA EditAnsweredWhole == EditInv /\ CacheInv /\ GroupInv /\ EditAnswered => GroupInv'
<1> SUFFICES ASSUME EditInv, CacheInv, GroupInv, EditAnswered PROVE GroupInv'
  OBVIOUS
<1>1. /\ run # None /\ run.kind = "edit" /\ run.reply # None /\ run' = None /\ NextId' = seq
      /\ history' = IF session # run.gen THEN Current
                    ELSE IF run.reply.st = "accepted" THEN RecordSuccess(Current, run, run.reply)
                    ELSE IF run.reply.st = "unsupported" /\ StructureEdit
                      THEN MarkEditUnsupported(CloseIfGrouped(Current))
                    ELSE CloseIfGrouped(Current)
  BY DEF EditAnswered, InFlight, NextId
<1>2. /\ run \in EditRuns /\ EditFits(history, run, seq) /\ run.gen = history.gen
      /\ HistoryFits(history, seq) /\ seq \in Nat /\ run.reply \in Replies
  BY <1>1, EditFacts DEF EditRuns
<1>3. HistoryFits(history', NextId')
  BY <1>1, EditAnsweredKeeps DEF EditInv, EditAnswered
<1>4. CASE session # run.gen
  BY <1>1, <1>2, <1>3, <1>4, CurrentHolds, IdleHolds
<1>5. CASE session = run.gen
  <2>1. Current = history
    BY <1>2, <1>5, CurrentFits
  <2>2. history.pending = None /\ Tidy(history, None) /\ HistoryFits(history, run.seq)
    BY <1>1, EditHolds
  <2>3. Tidy(history', None) /\ history'.pending = None
    <3>1. CASE run.reply.st = "accepted"
      <4>1. run.op = "set" => run.slot \in Slots /\ run.reply.val \in Values
        BY <1>1, <3>1 DEF EditInv, EditRunFits
      <4>2. history' = RecordSuccess(history, run, run.reply)
        BY <1>1, <1>5, <2>1, <3>1
      <4> QED
        BY <1>2, <2>2, <4>1, <4>2, RecordSuccessTidy
    <3>2. CASE run.reply.st # "accepted"
      <4> DEFINE c == CloseIfGrouped(history)
      <4>1. c.pending = None /\ Tidy(c, None) /\ c \in HistoryStates
        BY <1>1, EditHolds DEF HistoryFits
      <4>2. history' = c \/ history' = MarkEditUnsupported(c)
        BY <1>1, <1>5, <2>1, <3>2
      <4> HIDE DEF c
      <4>3. SameStacks(c, MarkEditUnsupported(c)) /\ MarkEditUnsupported(c).pending = c.pending
        BY <4>1 DEF MarkEditUnsupported, Bump, HistoryStates, SameStacks
      <4> QED
        BY <4>1, <4>2, <4>3, SameTidy
    <3> QED
      BY <3>1, <3>2
  <2> QED
    BY <1>1, <1>3, <2>3, IdleHolds DEF PendingKey, PendingFits
<1> QED
  BY <1>4, <1>5

LEMMA EditUnansweredWhole == EditInv /\ CacheInv /\ GroupInv /\ EditUnanswered => GroupInv'
<1> SUFFICES ASSUME EditInv, CacheInv, GroupInv, EditUnanswered PROVE GroupInv'
  OBVIOUS
<1> DEFINE c == CloseIfGrouped(history)
           m == MarkMcpOutcomeUnknown(c, run.seq)
<1>1. /\ run # None /\ run.kind = "edit" /\ run' = None /\ NextId' = seq
      /\ history' = IF session # run.gen THEN Current
                    ELSE IF run.src = "mcp" THEN MarkMcpOutcomeUnknown(CloseIfGrouped(Current), run.seq)
                    ELSE CloseIfGrouped(Current)
  BY DEF EditUnanswered, InFlight, NextId
<1>2. run.gen = history.gen
  BY <1>1, EditFacts
<1>3. HistoryFits(history', NextId')
  BY <1>1, EditUnansweredKeeps DEF EditInv, EditUnanswered
<1>4. CASE session # run.gen
  BY <1>1, <1>2, <1>3, <1>4, CurrentHolds, IdleHolds
<1>5. CASE session = run.gen
  <2>1. history' = c \/ history' = m
    BY <1>1, <1>2, <1>5, CurrentFits
  <2>2. /\ c.pending = None /\ Tidy(c, None) /\ HistoryFits(c, run.seq) /\ c \in HistoryStates
        /\ run.seq \in 1..MaxSequence
    BY <1>1, EditHolds DEF HistoryFits
  <2> HIDE DEF c
  <2>3. CASE history' = c
    BY <1>1, <1>3, <2>2, <2>3, IdleHolds DEF PendingKey, PendingFits
  <2>4. CASE history' = m
    <3>1. /\ m.pending = [dir |-> "undo", key |-> run.seq, count |-> 1, completed |-> 0,
                          unknown |-> TRUE, retry |-> FALSE]
          /\ SameStacks(c, m)
      BY <2>2 DEF MarkMcpOutcomeUnknown, Bump, HistoryStates, SameStacks
    <3>2. Tidy(c, run.seq)
      BY <2>2, CutAny DEF Tidy, WalkFits
    <3>3. ~Occurs(c, run.seq)
      <4>1. \A i \in 1..Span(c) : At(c, i).key < run.seq
        BY <2>2, KnownKeys
      <4> QED
        BY <2>2, <4>1, EditAssumption DEF Occurs
    <3> HIDE DEF m
    <3>4. Tidy(m, run.seq) /\ ~Occurs(m, run.seq)
      BY <3>1, <3>2, <3>3, SameTidy
    <3>5. m.pending # None
      <4>1. m.pending \in [dir : Directions, key : 1..MaxSequence, count : Nat, completed : Nat,
                           unknown : BOOLEAN, retry : BOOLEAN]
        BY <2>2, <3>1 DEF Directions
      <4> QED
        BY <4>1, NoneAssumption
    <3>6. PendingKey(m) = run.seq
      BY <3>1, <3>5 DEF PendingKey
    <3>7. PendingFits(m)
      <4>1. 0 \in 0..1
        OBVIOUS
      <4> QED
        BY <3>1, <3>4, <4>1 DEF PendingFits
    <3> QED
      BY <1>1, <1>3, <2>4, <3>4, <3>6, <3>7, IdleHolds
  <2> QED
    BY <2>1, <2>3, <2>4
<1> QED
  BY <1>4, <1>5

LEMMA BeginWhole == EditInv /\ CacheInv /\ GroupInv /\ Begin => GroupInv'
<1> SUFFICES ASSUME EditInv, GroupInv, CacheInv, Begin PROVE GroupInv'
  OBVIOUS
<1>1. /\ run = None /\ run' = None /\ seq <= MaxSequence /\ NextId' = seq'
      /\ history' = IF Current.pending # None THEN Current ELSE BeginGroup(Current, seq)
  BY DEF Begin, Free, NextId
<1>2. HistoryFits(history', NextId')
  BY <1>1, BeginKeeps DEF EditInv, Begin
<1>3. /\ Tidy(Current, PendingKey(Current)) /\ PendingFits(Current) /\ HistoryFits(Current, seq)
      /\ Current.pending = None => Tidy(Current, None)
  BY <1>1, CurrentHolds, CurrentFits
<1>4. CASE Current.pending # None
  BY <1>1, <1>2, <1>3, <1>4, IdleHolds
<1>5. CASE Current.pending = None
  <2>1. history' = BeginGroup(Current, seq) /\ seq \in 1..MaxSequence
    BY <1>1, <1>5, EditAssumption DEF EditInv
  <2>2. Tidy(history', None)
    BY <1>3, <1>5, <2>1, BeginTidy
  <2>3. history'.pending = None
    <3>1. CloseActiveGroup(Current).pending = None /\ CloseActiveGroup(Current) \in HistoryStates
      BY <1>3, <1>5, CloseFollows, CurrentFits DEF Follows, HistoryFits
    <3> QED
      BY <2>1, <3>1 DEF BeginGroup, Bump, HistoryStates
  <2> QED
    BY <1>1, <1>2, <2>2, <2>3, IdleHolds DEF PendingKey, PendingFits
<1> QED
  BY <1>4, <1>5

\* Closing the active group.
LEMMA CloseHolds ==
    ASSUME EditInv, GroupInv, run = None \/ run.kind = "edit",
           history' = CloseActiveGroup(history), UNCHANGED <<run, seq>>
    PROVE  GroupInv'
<1>1. HistoryFits(history, NextId) /\ NextId \in Nat /\ NextId' = NextId /\ PendingFits(history)
  BY NextIdFacts DEF GroupInv, NextId
<1>2. HistoryFits(history', NextId')
  BY <1>1, CloseFollows DEF Follows
<1>3. Tidy(history, PendingKey(history))
  BY DEF GroupInv, BusyKey, Working
<1>4. CASE history.group = None
  <2>1. history' = history
    BY <1>4 DEF CloseActiveGroup
  <2> QED
    BY <1>1, <1>2, <1>3, <2>1, IdleHolds
<1>5. CASE history.group # None
  <2>1. history.pending = None /\ Tidy(history, None)
    BY <1>1, <1>3, <1>5 DEF HistoryFits, PendingKey
  <2>2. history'.pending = None /\ Tidy(history', None)
    BY <1>1, <2>1, CloseFollows, CloseTidy
  <2> QED
    BY <1>2, <2>2, IdleHolds DEF PendingKey, PendingFits
<1> QED
  BY <1>4, <1>5

LEMMA AuthRevokedWhole == EditInv /\ GroupInv /\ AuthRevoked => GroupInv'
<1> SUFFICES ASSUME EditInv, GroupInv, AuthRevoked PROVE GroupInv'
  OBVIOUS
<1>1. /\ history' = CloseActiveGroup(history) /\ seq' = seq
      /\ run' = IF run # None /\ run.kind = "history" /\ run.src = "mcp"
                THEN [run EXCEPT !.revoked = TRUE] ELSE run
      /\ run # None => run.kind \in {"edit", "history"}
  BY DEF AuthRevoked, EditInv, RunIsOfHistory
<1>2. CASE run # None /\ run.kind = "history"
  <2>1. history' = history /\ run \in HistoryRuns
    BY <1>1, <1>2, WorkFacts DEF CloseActiveGroup
  <2>2. CASE run' = run
    BY <1>1, <2>1, <2>2, SameHolds
  <2>3. CASE run.src = "mcp" /\ run' = [run EXCEPT !.revoked = TRUE]
    <3>1. /\ run' \in HistoryRuns /\ run'.kind = "history" /\ run'.src = "mcp"
          /\ run'.plan = run.plan /\ run'.step = run.step /\ run'.left = run.left
          /\ run'.grouped = run.grouped /\ run'.retry = run.retry /\ run'.completed = run.completed
      BY <1>2, <2>1, <2>3 DEF HistoryRuns
    <3>2. run' # None
      BY <3>1, NoneAssumption
    <3>3. NextId' = NextId /\ BusyKey' = BusyKey
      BY <1>1, <1>2, <2>1, <3>1, <3>2 DEF NextId, BusyKey, Working
    <3>4. WorkAccounts'
      BY <1>2, <2>1, <2>3, <3>1, <3>2 DEF GroupInv, WorkAccounts, Working
    <3> QED
      BY <2>1, <3>3, <3>4 DEF GroupInv
  <2> QED
    BY <1>1, <1>2, <2>2, <2>3
<1>3. CASE run = None \/ run.kind = "edit"
  <2>1. run' = run
    BY <1>1, <1>3
  <2> QED
    BY <1>1, <1>3, <2>1, CloseHolds
<1> QED
  BY <1>1, <1>2, <1>3

\* The entries of a group that is half done lie around the place the history is at.
LEMMA GroupAround ==
    ASSUME NEW h \in HistoryStates, NEW key, NEW dir, NEW done, NEW count,
           Occurs(h, key) => Accounts(h, dir, key, done, count)
    PROVE  \E a \in 1..(Here(h) + 1), b \in Here(h)..Span(h) :
             \A i \in 1..Span(h) : At(h, i).key = key <=> a <= i /\ i <= b
<1>1. Here(h) \in Nat /\ Span(h) \in Nat /\ Here(h) <= Span(h)
  BY SpanType
<1>2. CASE Occurs(h, key)
  <2>1. count \in Nat /\ done \in 0..count
    BY <1>2 DEF Accounts
  <2>2. PICK a \in 1..Span(h) :
          /\ Block(h, key, a, count)
          /\ Here(h) = IF dir = "undo" THEN a + count - 1 - done ELSE a - 1 + done
    BY <1>2 DEF Accounts
  <2>3. /\ a + count - 1 <= Span(h)
        /\ \A i \in 1..Span(h) : At(h, i).key = key <=> a <= i /\ i <= a + count - 1
    BY <2>2 DEF Block
  <2>4. a \in 1..(Here(h) + 1) /\ a + count - 1 \in Here(h)..Span(h)
    BY <1>1, <2>1, <2>2, <2>3
  <2> QED
    BY <2>3, <2>4
<1>3. CASE ~Occurs(h, key)
  <2>1. Here(h) + 1 \in 1..(Here(h) + 1) /\ Here(h) \in Here(h)..Span(h)
    BY <1>1
  <2>2. \A i \in 1..Span(h) : At(h, i).key = key <=> Here(h) + 1 <= i /\ i <= Here(h)
    BY <1>1, <1>3 DEF Occurs
  <2> QED
    BY <2>1, <2>2
<1> QED
  BY <1>2, <1>3

\* Dropping a group leaves the others whole.
LEMMA DropTidy ==
    ASSUME NEW h \in HistoryStates, h.group = None, NEW g \in HistoryStates, g.group = None, NEW key,
           WalkFits(h, key), g.undo = Without(h.undo, key), g.redo = Without(h.redo, key),
           NEW dir, NEW done, NEW count, Occurs(h, key) => Accounts(h, dir, key, done, count)
    PROVE  Tidy(g, None)
<1>1. PICK a \in 1..(Here(h) + 1), b \in Here(h)..Span(h) :
        \A i \in 1..Span(h) : At(h, i).key = key <=> a <= i /\ i <= b
  BY GroupAround
<1>2. Removes(h, g, a, b)
  BY <1>1, WithoutWalks
<1>3. \A i, j \in 1..Span(h) : a <= i /\ i <= b /\ At(h, i).key = At(h, j).key => a <= j /\ j <= b
  BY <1>1
<1>4. \A i, j \in 1..Span(h) :
        i <= Here(h) /\ Here(h) < j /\ At(h, i).key = At(h, j).key => a <= i /\ i <= b
  BY <1>1 DEF WalkFits, Cut
<1> QED
  BY <1>2, <1>3, <1>4, RemoveFits DEF Tidy

LEMMA DiscardWhole == EditInv /\ CacheInv /\ GroupInv /\ Discard => GroupInv'
<1> SUFFICES ASSUME EditInv, CacheInv, GroupInv, Discard PROVE GroupInv'
  OBVIOUS
<1>1. /\ run = None /\ run' = None /\ NextId' = seq' /\ Current.pending # None
      /\ history' = DiscardPendingGroup(Current)
  BY DEF Discard, Free, NextId
<1>2. HistoryFits(history', NextId')
  BY <1>1, DiscardKeeps DEF EditInv, Discard
<1>3. /\ Tidy(Current, Current.pending.key) /\ PendingFits(Current) /\ HistoryFits(Current, seq)
      /\ Current.group = None /\ Current \in HistoryStates
  BY <1>1, CurrentHolds, CurrentFits DEF PendingKey, HistoryFits
<1>4. /\ history' \in HistoryStates /\ history'.pending = None /\ history'.group = None
      /\ history'.undo = Without(Current.undo, Current.pending.key)
      /\ history'.redo = Without(Current.redo, Current.pending.key)
  BY <1>1, <1>2, <1>3 DEF DiscardPendingGroup, Bump, HistoryStates, HistoryFits
<1>5. Occurs(Current, Current.pending.key) =>
        Accounts(Current, Current.pending.dir, Current.pending.key, Current.pending.completed,
                 Current.pending.count)
  BY <1>1, <1>3 DEF PendingFits
<1>6. Tidy(history', None)
  BY <1>3, <1>4, <1>5, DropTidy DEF Tidy
<1> QED
  BY <1>1, <1>2, <1>4, <1>6, IdleHolds DEF PendingKey, PendingFits


-----------------------------------------------------------------------------
(* Groups stay whole: undo and redo.                                         *)

\* An undo or redo that starts has its whole group before it.
LEMMA PlanAccounts ==
    ASSUME NEW h, NEW n, HistoryFits(h, n), h.group = None, Tidy(h, None), NEW dir \in Directions,
           NEW at, PrepareAction(h, dir, at) # None
    PROVE  LET plan == PrepareAction(h, dir, at)
           IN  /\ plan.dir = dir /\ Accounts(h, dir, plan.key, 0, plan.count)
               /\ Len(plan.steps) = plan.count /\ plan.count \in Nat
               /\ plan.steps[1].named = plan.named
<1> DEFINE plan == PrepareAction(h, dir, at)
           s == Stack(h, dir)
<1>1. VisibleStack(h, dir) = s /\ h \in HistoryStates /\ s \in Seq(AnyEntry)
  BY StackFits DEF VisibleStack, HistoryFits
<1>2. /\ s # <<>> /\ plan.dir = dir /\ plan.key = Top(s).key /\ plan.named = Top(s).named
      /\ plan.count = Top(s).count /\ plan.steps = TopRun(s, plan.key)
  BY <1>1 DEF PrepareAction
<1>3. plan.steps # <<>>
  BY PrepareActionPlan
<1> HIDE DEF plan
<1>4. Accounts(h, dir, plan.key, 0, plan.count)
  BY <1>1, <1>2, StartAccounts DEF Tidy
<1>5. plan.count \in Nat /\ Len(plan.steps) = plan.count - 0
  BY <1>1, <1>2, <1>4, TopRunCounts DEF Accounts
<1>6. plan.steps[1] = Top(s)
  BY <1>1, <1>2, <1>3, TopRunFits
<1>7. Len(plan.steps) = plan.count
  BY <1>5
<1> QED
  BY <1>2, <1>4, <1>5, <1>6, <1>7 DEF plan

LEMMA StartHistoryWhole ==
    ASSUME NEW src \in {"ui", "mcp"}, NEW dir \in Directions, NEW at, NEW shown,
           EditInv, GroupInv, StartHistory(src, dir, at, shown)
    PROVE  GroupInv'
<1> DEFINE closed == CloseActiveGroup(Current)
           now == IF at = HistoryCursor(Current, dir) THEN HistoryCursor(closed, dir) ELSE at
           plan == PrepareAction(closed, dir, now)
<1>1. /\ run = None /\ seq' = seq
      /\ IF Current.pending # None
           THEN history' = Current /\ run' = run
           ELSE /\ history' = closed
                /\ run' = IF plan = None THEN run ELSE Work(src, plan, 0, FALSE, shown)
  BY DEF StartHistory, Free
<1>2. /\ HistoryFits(Current, seq) /\ seq \in Nat /\ Tidy(Current, PendingKey(Current))
      /\ PendingFits(Current)
      /\ Current.pending = None => Tidy(Current, None)
  BY <1>1, CurrentFits, CurrentHolds
<1>3. CASE Current.pending # None
  <2>1. history' = Current /\ run' = None /\ NextId' = seq
    BY <1>1, <1>3 DEF NextId
  <2> QED
    BY <1>2, <2>1, IdleHolds
<1>4. CASE Current.pending = None
  <2>1. /\ HistoryFits(closed, seq) /\ closed.group = None /\ closed.pending = None
        /\ Tidy(closed, None) /\ history' = closed /\ closed \in HistoryStates
        /\ run' = IF plan = None THEN run ELSE Work(src, plan, 0, FALSE, shown)
    BY <1>1, <1>2, <1>4, CloseFollows, CloseTidy DEF Follows, HistoryFits
  <2> HIDE DEF closed, now
  <2>2. PendingFits(closed) /\ \A key : Tidy(closed, key)
    BY <2>1, CutAny DEF PendingFits, Tidy, WalkFits
  <2>3. CASE plan = None
    <3>1. run' = None /\ NextId' = seq
      BY <1>1, <2>1, <2>3 DEF NextId
    <3> QED
      BY <2>1, <2>2, <3>1, IdleHolds
  <2>4. CASE plan # None
    <3>1. /\ plan.dir = dir /\ Accounts(closed, dir, plan.key, 0, plan.count)
          /\ Len(plan.steps) = plan.count /\ plan.count \in Nat /\ plan.steps[1].named = plan.named
      BY <2>1, <2>4, PlanAccounts
    <3>2. plan \in Plans
      BY <2>1, <2>4, PrepareActionPlan
    <3> HIDE DEF plan
    <3>3. /\ run'.kind = "history" /\ run'.src = src /\ run'.plan = plan /\ run'.revoked = FALSE
          /\ run'.retry = FALSE /\ run'.completed = 0
          /\ run'.grouped = (plan.named \/ FALSE \/ src = "mcp")
          /\ run'.left = (IF plan.named \/ FALSE \/ src = "mcp" THEN plan.steps ELSE <<>>)
          /\ run'.step = (IF plan.named \/ FALSE \/ src = "mcp" THEN None ELSE plan.steps[1])
      BY <2>1, <2>4 DEF Work
    <3>4. NextId' = seq
      BY <1>1, <3>3 DEF NextId
    <3>5. WorkAccounts'
      <4>1. CASE plan.named \/ src = "mcp"
        <5>1. run'.grouped = TRUE /\ run'.left = plan.steps /\ run'.step = None
          BY <3>3, <4>1
        <5>2. Len(run'.left) + 0 + run'.completed = plan.count
          BY <3>1, <3>3, <5>1
        <5> QED
          BY <2>1, <3>1, <3>3, <5>1, <5>2 DEF WorkAccounts
      <4>2. CASE ~(plan.named \/ src = "mcp")
        <5>1. run'.grouped = FALSE /\ run'.step = plan.steps[1] /\ ~run'.step.named
          BY <3>1, <3>3, <4>2
        <5> QED
          BY <2>1, <3>3, <5>1 DEF WorkAccounts
      <4> QED
        BY <4>1, <4>2
    <3> QED
      BY <2>1, <2>2, <3>4, <3>5 DEF GroupInv
  <2> QED
    BY <2>3, <2>4
<1> QED
  BY <1>3, <1>4

LEMMA StartRetryWhole == EditInv /\ GroupInv /\ StartRetry => GroupInv'
<1> SUFFICES ASSUME EditInv, GroupInv, StartRetry PROVE GroupInv'
  OBVIOUS
<1> DEFINE plan == PrepareRetry(Current)
           p == Current.pending
<1>1. /\ run = None /\ plan # None /\ history' = Current /\ seq' = seq
      /\ run' = Work("ui", plan, p.completed, TRUE, Shown(plan.steps))
  BY DEF StartRetry, Free
<1>2. /\ HistoryFits(Current, seq) /\ Tidy(Current, PendingKey(Current)) /\ PendingFits(Current)
      /\ Current \in HistoryStates
  BY <1>1, CurrentFits, CurrentHolds DEF HistoryFits
<1>3. /\ p # None /\ p.retry /\ plan.dir = p.dir /\ plan.key = p.key /\ plan.count = p.count
      /\ plan.named = TRUE /\ plan.steps = TopRun(Stack(Current, p.dir), p.key)
  BY <1>1 DEF PrepareRetry
<1>4. plan \in Plans /\ p.completed \in Nat /\ p.count \in Nat /\ p.dir \in Directions
        /\ Current.group = None
  BY <1>1, <1>2, <1>3, PrepareRetryPlan DEF Plans, HistoryFits
<1>5. Accounts(Current, p.dir, p.key, p.completed, p.count) /\ p.completed < p.count
  BY <1>2, <1>3 DEF PendingFits
<1> HIDE DEF plan
<1>6. Len(plan.steps) = p.count - p.completed
  BY <1>2, <1>3, <1>4, <1>5, TopRunCounts
<1> HIDE DEF p
<1>7. /\ run'.kind = "history" /\ run'.src = "ui" /\ run'.plan = plan /\ run'.revoked = FALSE
      /\ run'.retry = TRUE /\ run'.completed = p.completed
      /\ run'.grouped = TRUE /\ run'.left = plan.steps /\ run'.step = None
  BY <1>1, <1>3 DEF Work
<1>8. NextId' = seq
  BY <1>1, <1>7 DEF NextId
<1>9. Len(run'.left) + 0 + run'.completed = run'.plan.count
  BY <1>3, <1>4, <1>6, <1>7
<1>10. WorkAccounts'
  <2>1. run'.completed # run'.plan.count
    BY <1>3, <1>4, <1>5, <1>7
  <2>2. history'.pending = p
    BY <1>1 DEF p
  <2> QED
    BY ZenonT(40), <1>1, <1>3, <1>5, <1>7, <1>9, <2>1, <2>2 DEF WorkAccounts
<1>11. BusyKey' = PendingKey(Current)
  BY <1>1, <1>3, <1>7 DEF BusyKey, PendingKey, Working, p
<1> QED
  BY <1>1, <1>2, <1>8, <1>10, <1>11 DEF GroupInv

\* What is known of the group an undo or redo is at.
LEMMA GroupedFacts ==
    ASSUME EditInv, CacheInv, GroupInv, run # None, run.kind = "history", run.grouped
    PROVE  /\ Accounts(history, run.plan.dir, run.plan.key, run.completed, run.plan.count)
           /\ Tidy(history, run.plan.key) /\ PendingFits(history) /\ HistoryFits(history, seq)
           /\ run.plan.count \in Nat /\ run.completed \in Nat /\ Len(run.left) \in Nat
           /\ Len(run.left) + (IF run.step = None THEN 0 ELSE 1) + run.completed = run.plan.count
           /\ run.step # None \/ run.left # <<>> => run.completed < run.plan.count
<1>1. BusyKey = run.plan.key
  BY DEF BusyKey, Working
<1>2. /\ Accounts(history, run.plan.dir, run.plan.key, run.completed, run.plan.count)
      /\ Tidy(history, run.plan.key) /\ PendingFits(history)
      /\ Len(run.left) + (IF run.step = None THEN 0 ELSE 1) + run.completed = run.plan.count
  BY <1>1 DEF GroupInv, WorkAccounts, Working
<1>3. /\ run.plan.count \in Nat /\ run.completed \in Nat /\ run.left \in Seq(AnyEntry)
      /\ HistoryFits(history, seq)
  BY WorkFacts DEF HistoryRuns, Plans
<1>4. Len(run.left) \in Nat /\ (run.left # <<>> => Len(run.left) > 0)
  BY <1>3
<1>5. run.step # None \/ run.left # <<>> => run.completed < run.plan.count
  <2>1. CASE run.step # None
    BY <1>2, <1>3, <1>4, <2>1
  <2>2. CASE run.step = None /\ run.left # <<>>
    BY <1>2, <1>3, <1>4, <2>2
  <2> QED
    BY <2>1, <2>2
<1> QED
  BY <1>2, <1>3, <1>4, <1>5

\* An undo or redo of a group that stops half-way leaves the group pending.
LEMMA HaltHolds ==
    ASSUME EditInv, CacheInv, GroupInv, run # None, run.kind = "history", run.grouped,
           run.step # None \/ run.left # <<>>, NEW unknown \in BOOLEAN, NEW retry \in BOOLEAN,
           Finished(StartPendingGroup(history, run.plan, run.completed, unknown, retry)),
           UNCHANGED <<session, seq>>
    PROVE  GroupInv'
<1> DEFINE g == StartPendingGroup(history, run.plan, run.completed, unknown, retry)
<1>1. /\ Accounts(history, run.plan.dir, run.plan.key, run.completed, run.plan.count)
      /\ Tidy(history, run.plan.key) /\ HistoryFits(history, seq)
      /\ run.completed < run.plan.count
  BY GroupedFacts
<1>2. run.plan \in Plans /\ history.group = None /\ run.completed \in Nat /\ history \in HistoryStates
  BY WorkFacts DEF HistoryFits
<1>3. HistoryFits(g, seq)
  BY <1>1, <1>2, StartPendingGroupFollows DEF Follows
<1>4. /\ SameStacks(history, g)
      /\ g.pending = [dir |-> run.plan.dir, key |-> run.plan.key, count |-> run.plan.count,
                      completed |-> run.completed, unknown |-> unknown, retry |-> retry]
  BY <1>2 DEF StartPendingGroup, Bump, HistoryStates, SameStacks
<1>5. g.pending # None
  <2>1. g.pending \in [dir : Directions, key : 1..MaxSequence, count : Nat, completed : Nat,
                       unknown : BOOLEAN, retry : BOOLEAN]
    BY <1>2, <1>4 DEF Plans
  <2> QED
    BY <2>1, NoneAssumption
<1>6. Finished(g)
  OBVIOUS
<1> HIDE DEF g
<1>7. /\ Tidy(g, run.plan.key)
      /\ Accounts(g, run.plan.dir, run.plan.key, run.completed, run.plan.count)
  BY <1>1, <1>4, SameTidy
<1>8. PendingKey(g) = run.plan.key
  BY <1>4, <1>5 DEF PendingKey
<1>9. run.completed \in 0..run.plan.count
  BY <1>1 DEF Accounts
<1>10. PendingFits(g)
  BY <1>1, <1>4, <1>7, <1>9 DEF PendingFits
<1> QED
  BY <1>3, <1>6, <1>7, <1>8, <1>10, FinishedHolds

LEMMA SendStepWhole == EditInv /\ CacheInv /\ GroupInv /\ SendStep => GroupInv'
<1> SUFFICES ASSUME EditInv, CacheInv, GroupInv, SendStep PROVE GroupInv'
  OBVIOUS
<1> DEFINE stack == Stack(history, run.plan.dir)
           found == {i \in 1..Len(stack) :
                       stack[i].id = Head(run.left).id /\ stack[i].key = run.plan.key}
<1>1. /\ run # None /\ run.kind = "history" /\ run.left # <<>> /\ run.step = None
      /\ UNCHANGED <<session, seq>>
  BY DEF SendStep
<1>2. \/ run.revoked /\ run.completed = 0 /\ Finished(history)
      \/ run.revoked /\ Finished(StartPendingGroup(history, run.plan, run.completed, FALSE, FALSE))
      \/ (session # run.gen \/ found = {}) /\ Finished(history)
      \/ /\ found # {} /\ UNCHANGED history
         /\ run' = [run EXCEPT !.step = stack[CHOOSE i \in found : TRUE], !.left = Tail(@)]
  BY DEF SendStep
<1>3. /\ run \in HistoryRuns /\ run.plan.dir \in Directions /\ history \in HistoryStates
      /\ HistoryFits(history, seq) /\ history.group = None /\ run.gen = history.gen
  BY <1>1, WorkFacts DEF HistoryFits
<1>4. run.grouped
  BY <1>1 DEF CacheInv, StepInv, StepsFit
<1>5. /\ Accounts(history, run.plan.dir, run.plan.key, run.completed, run.plan.count)
      /\ Tidy(history, run.plan.key) /\ PendingFits(history)
      /\ run.completed < run.plan.count /\ run.plan.count \in Nat /\ run.completed \in Nat
  BY <1>1, <1>4, GroupedFacts
<1>6. CASE run.revoked /\ run.completed = 0 /\ Finished(history)
  <2>1. history.pending = None
    BY <1>1, <1>6 DEF GroupInv, WorkAccounts, Working
  <2>2. Tidy(history, None)
    BY <1>3, <1>5, <1>6, NothingDone DEF Tidy, WalkFits
  <2> QED
    BY <1>1, <1>3, <1>5, <1>6, <2>1, <2>2, FinishedHolds DEF PendingKey
<1>7. CASE Finished(StartPendingGroup(history, run.plan, run.completed, FALSE, FALSE))
  BY <1>1, <1>4, <1>7, HaltHolds
<1>8. CASE (session # run.gen \/ found = {}) /\ Finished(history)
  <2>1. CASE session # run.gen
    <3>1. history' = Current /\ Current.gen = session /\ run' = None
      BY <1>3, <1>8, <2>1, CurrentFits DEF Finished, Current
    <3>2. Finished(Current)
      BY <3>1 DEF Finished, Synchronize
    <3> QED
      BY <1>1, <2>1, <3>2, GoneHolds
  <2>2. CASE found = {}
    <3>1. stack # <<>> /\ Top(stack).key = run.plan.key
      BY <1>3, <1>5, NextOfGroup
    <3>2. stack \in Seq(AnyEntry) /\ run.left \in Seq(AnyEntry)
      BY <1>3, StackFits DEF HistoryRuns
    <3>3. 1 \in 1..Len(run.left) /\ Head(run.left) = run.left[1] /\ Len(stack) \in 1..Len(stack)
            /\ Len(stack) + 1 - 0 - 1 = Len(stack)
      BY <1>1, <3>1, <3>2
    <3>4. run.left[1].id = stack[Len(stack) + 1 - 0 - 1].id
      BY <1>1, <3>3 DEF CacheInv, StepInv, StepsFit
    <3>5. Len(stack) \in found
      BY <3>1, <3>3, <3>4 DEF Top
    <3> QED
      BY <2>2, <3>5
  <2> QED
    BY <1>8, <2>1, <2>2
<1>9. CASE /\ found # {} /\ UNCHANGED history
           /\ run' = [run EXCEPT !.step = stack[CHOOSE i \in found : TRUE], !.left = Tail(@)]
  <2> DEFINE step == stack[CHOOSE i \in found : TRUE]
             left == Tail(run.left)
  <2>1. stack \in Seq(AnyEntry) /\ run.left \in Seq(AnyEntry)
    BY <1>3, StackFits DEF HistoryRuns
  <2>2. step \in AnyEntry /\ step # None
    <3>1. step \in AnyEntry
      BY <1>9, <2>1
    <3> QED
      BY <3>1, NoneAssumption
  <2>3. left \in Seq(AnyEntry) /\ Len(left) = Len(run.left) - 1 /\ Len(run.left) \in Nat
    BY <1>1, <2>1
  <2>4. run' = [run EXCEPT !.step = step, !.left = left]
    BY <1>3, <1>9 DEF HistoryRuns
  <2> HIDE DEF step, left
  <2>5. /\ run' \in HistoryRuns /\ run'.kind = "history" /\ run'.plan = run.plan
        /\ run'.step = step /\ run'.left = left /\ run'.grouped = run.grouped /\ run'.src = run.src
        /\ run'.retry = run.retry /\ run'.completed = run.completed /\ run'.revoked = run.revoked
    BY <1>1, <1>3, <2>2, <2>3, <2>4 DEF HistoryRuns
  <2>6. run' # None
    BY <2>5, NoneAssumption
  <2>7. NextId' = NextId /\ BusyKey' = BusyKey
    BY <1>1, <1>9, <2>5, <2>6 DEF NextId, BusyKey, Working
  <2>8. Len(run.left) + 0 + run.completed = run.plan.count
    BY <1>1, <1>4, GroupedFacts
  <2>9. Len(left) + 1 + run.completed = run.plan.count
    BY <1>5, <2>3, <2>8
  <2>10. WorkAccounts'
    BY <1>1, <1>4, <1>9, <2>2, <2>5, <2>9 DEF GroupInv, WorkAccounts, Working
  <2> QED
    BY <1>9, <2>7, <2>10 DEF GroupInv
<1> QED
  BY <1>2, <1>6, <1>7, <1>8, <1>9


-----------------------------------------------------------------------------
(* Groups stay whole: the steps of an undo or redo.                          *)

\* What is known of a single entry's undo or redo.
LEMMA SingleHolds ==
    ASSUME EditInv, CacheInv, GroupInv, run # None, run.kind = "history", ~run.grouped
    PROVE  /\ history.pending = None /\ Tidy(history, None)
           /\ Accounts(history, run.plan.dir, run.step.key, 0, 1)
<1>1. /\ run.plan.dir \in Directions /\ history.group = None /\ history \in HistoryStates
  BY WorkFacts DEF HistoryFits
<1>2. /\ run.step # None /\ Stack(history, run.plan.dir) # <<>>
      /\ run.step = Top(Stack(history, run.plan.dir))
  BY StepFacts
<1>3. history.pending = None /\ ~run.step.named
  BY DEF GroupInv, WorkAccounts, Working
<1>4. Tidy(history, None)
  BY <1>3 DEF GroupInv, BusyKey, PendingKey
<1>5. run.step.count = 1 /\ Accounts(history, run.plan.dir, run.step.key, 0, run.step.count)
  BY <1>1, <1>2, <1>3, <1>4, StartAccounts DEF Tidy
<1> QED
  BY <1>3, <1>4, <1>5

\* A single entry that is thrown away.
LEMMA DropHolds ==
    ASSUME EditInv, CacheInv, GroupInv, run # None, run.kind = "history", ~run.grouped,
           Finished(DiscardAction(history, run.plan)), UNCHANGED <<session, seq>>
    PROVE  GroupInv'
<1> DEFINE g == DiscardAction(history, run.plan)
           h == history
           dir == run.plan.dir
<1>1. /\ dir \in Directions /\ h.group = None /\ h \in HistoryStates /\ HistoryFits(h, seq)
  BY WorkFacts DEF HistoryFits
<1>2. /\ Stack(h, dir) # <<>> /\ run.step = Top(Stack(h, dir)) /\ run.step = run.plan.steps[1]
      /\ OnTop(h, dir, run.step.id, run.plan.key)
  BY StepFacts
<1>3. /\ h.pending = None /\ Tidy(h, None) /\ Accounts(h, dir, run.step.key, 0, 1)
  BY SingleHolds
<1>4. HistoryFits(g, seq) /\ g \in HistoryStates
  BY <1>1, DiscardActionFollows DEF Follows, HistoryFits
<1>5. /\ Stack(g, dir) = Pop(Stack(h, dir)) /\ Stack(g, Opposite(dir)) = Stack(h, Opposite(dir))
      /\ g.group = None /\ g.pending = None
  <2>1. g = Bump(SetStack(h, dir, Pop(Stack(h, dir))))
    BY <1>2 DEF DiscardAction
  <2> DEFINE p == Pop(Stack(h, dir))
  <2>2. g = Bump(SetStack(h, dir, p))
    BY <2>1
  <2> HIDE DEF p, g
  <2> QED
    BY <1>1, <1>3, <2>2 DEF Bump, SetStack, Stack, Opposite, Directions, HistoryStates, p
<1>6. Finished(g)
  OBVIOUS
<1> HIDE DEF g
<1>7. /\ Removes(h, g, Next1(h, dir), Next1(h, dir)) /\ Next1(h, dir) \in 1..Span(h)
      /\ At(h, Next1(h, dir)) = run.step
  BY <1>1, <1>2, <1>4, <1>5, DropWalks
<1>8. \A i \in 1..Span(h) : At(h, i).key = run.step.key => i = Next1(h, dir)
  <2>1. PICK a \in 1..Span(h) : Block(h, run.step.key, a, 1)
    BY <1>3 DEF Accounts
  <2>2. \A i \in 1..Span(h) : At(h, i).key = run.step.key <=> a <= i /\ i <= a + 1 - 1
    BY <2>1 DEF Block
  <2>3. \A i \in 1..Span(h) : At(h, i).key = run.step.key => i = a
    BY <2>2
  <2> QED
    BY <1>7, <2>3
<1>9. Cut(h, run.step.key)
  BY <1>1, <1>3, CutAny DEF Tidy, WalkFits
<1>10. /\ \A i, j \in 1..Span(h) : Next1(h, dir) <= i /\ i <= Next1(h, dir) /\ At(h, i).key = At(h, j).key
                => Next1(h, dir) <= j /\ j <= Next1(h, dir)
       /\ \A i, j \in 1..Span(h) : i <= Here(h) /\ Here(h) < j /\ At(h, i).key = At(h, j).key
                => Next1(h, dir) <= i /\ i <= Next1(h, dir)
  <2>1. Next1(h, dir) \in Nat
    BY <1>7
  <2>2. \A i \in 1..Span(h) : Next1(h, dir) <= i /\ i <= Next1(h, dir) => i = Next1(h, dir)
    BY <2>1
  <2>3. Next1(h, dir) <= Next1(h, dir)
    BY <2>1
  <2>4. ASSUME NEW i \in 1..Span(h), NEW j \in 1..Span(h),
               i <= Here(h), Here(h) < j, At(h, i).key = At(h, j).key
        PROVE  i = Next1(h, dir)
    BY <1>8, <1>9, <2>4 DEF Cut
  <2>5. ASSUME NEW i \in 1..Span(h), NEW j \in 1..Span(h),
               Next1(h, dir) <= i, i <= Next1(h, dir), At(h, i).key = At(h, j).key
        PROVE  j = Next1(h, dir)
    BY <1>7, <1>8, <2>2, <2>5
  <2> QED
    BY <2>3, <2>4, <2>5
<1>11. WalkFits(g, None) /\ GroupSmall(g)
  BY <1>1, <1>3, <1>4, <1>5, <1>7, <1>10, RemoveFits DEF Tidy
<1> QED
  BY <1>4, <1>5, <1>6, <1>11, FinishedHolds DEF PendingKey, PendingFits, Tidy

LEMMA SingleAppliedWhole == EditInv /\ CacheInv /\ GroupInv /\ SingleApplied => GroupInv'
<1> SUFFICES ASSUME EditInv, CacheInv, GroupInv, SingleApplied PROVE GroupInv'
  OBVIOUS
<1> DEFINE h == history
           dir == run.plan.dir
           g == MoveEntry(h, dir, run.reply)
<1>1. /\ run # None /\ run.kind = "history" /\ ~run.grouped /\ run.reply # None
      /\ UNCHANGED <<session, seq>>
      /\ Finished(IF session # run.gen THEN Current
                  ELSE FinishActionSuccess(Current, run.plan, run.reply))
  BY DEF SingleApplied, InFlight
<1>2. /\ run \in HistoryRuns /\ dir \in Directions /\ h.group = None /\ h \in HistoryStates
      /\ HistoryFits(h, seq)
      /\ session = run.gen => Current = history
  BY <1>1, WorkFacts DEF HistoryFits
<1>3. run.reply \in Replies
  BY <1>1, <1>2 DEF HistoryRuns
<1>4. CASE session # run.gen
  BY <1>1, <1>4, GoneHolds
<1>5. CASE session = run.gen
  <2>1. Finished(FinishActionSuccess(h, run.plan, run.reply))
    BY <1>1, <1>2, <1>5
  <2>2. /\ Stack(h, dir) # <<>> /\ run.step = Top(Stack(h, dir)) /\ run.step = run.plan.steps[1]
        /\ OnTop(h, dir, run.step.id, run.plan.key) /\ Past(h) /\ Unique(h, seq)
    BY <1>1, StepFacts
  <2>3. CASE Malformed(run.step.rec, dir, run.reply)
    <3>1. Finished(DiscardAction(h, run.plan))
      BY <2>1, <2>2, <2>3 DEF FinishActionSuccess
    <3> QED
      BY <1>1, <3>1, DropHolds
  <2>4. CASE ~Malformed(run.step.rec, dir, run.reply)
    <3>1. FinishActionSuccess(h, run.plan, run.reply) = g
      BY <2>2, <2>4 DEF FinishActionSuccess
    <3>2. HistoryFits(g, seq)
      BY <1>2, <1>3, <3>1, FinishActionSuccessFollows DEF Follows
    <3>3. /\ h.pending = None /\ Tidy(h, None) /\ Accounts(h, dir, run.step.key, 0, 1)
      BY <1>1, SingleHolds
    <3>4. /\ g \in HistoryStates /\ g.group = None /\ g.pending = None
          /\ Alike(h, g) /\ Here(g) = Beyond(h, dir)
      BY <1>2, <1>3, <2>2, <3>3, MoveEntryWalks
    <3>5. Finished(g)
      BY <2>1, <3>1
    <3> HIDE DEF g
    <3>6. /\ Next1(h, dir) \in 1..Span(h) /\ At(h, Next1(h, dir)).key = run.step.key
          /\ Accounts(g, dir, run.step.key, 0 + 1, 1)
      BY <1>2, <3>3, <3>4, NextStep
    <3>7. WalkFits(h, run.step.key)
      BY <1>2, <3>3, CutAny DEF Tidy, WalkFits
    <3>8. WalkFits(g, run.step.key) /\ GroupSmall(g)
      BY <1>2, <3>4, <3>6, <3>7, MoveFits
    <3>9. Accounts(g, dir, run.step.key, 1, 1)
      BY <3>6
    <3>10. Tidy(g, None)
      BY <3>4, <3>8, <3>9, NothingDone DEF Tidy, WalkFits
    <3> QED
      BY <1>1, <3>2, <3>4, <3>5, <3>10, FinishedHolds DEF PendingKey, PendingFits
  <2> QED
    BY <2>3, <2>4
<1> QED
  BY <1>4, <1>5

LEMMA SingleFailsWhole == EditInv /\ CacheInv /\ GroupInv /\ SingleFails => GroupInv'
<1> SUFFICES ASSUME EditInv, CacheInv, GroupInv, SingleFails PROVE GroupInv'
  OBVIOUS
<1>1. /\ run # None /\ run.kind = "history" /\ ~run.grouped /\ UNCHANGED <<session, seq>>
      /\ Finished(IF session # run.gen THEN Current ELSE DiscardAction(Current, run.plan))
  BY DEF SingleFails, InFlight
<1>2. session = run.gen => Current = history
  BY <1>1, WorkFacts
<1> QED
  BY <1>1, <1>2, GoneHolds, DropHolds

LEMMA StepFailsWhole == EditInv /\ CacheInv /\ GroupInv /\ StepFails => GroupInv'
<1> SUFFICES ASSUME EditInv, CacheInv, GroupInv, StepFails PROVE GroupInv'
  OBVIOUS
<1>1. /\ run # None /\ run.kind = "history" /\ run.grouped /\ run.step # None
      /\ UNCHANGED <<session, seq>>
  BY DEF StepFails, InFlight
<1>2. PICK answered \in BOOLEAN :
        Finished(IF session # run.gen THEN Current
                 ELSE StartPendingGroup(Current, run.plan, run.completed, ~answered, answered))
  BY DEF StepFails
<1>3. session = run.gen => Current = history
  BY <1>1, WorkFacts
<1>4. (~answered) \in BOOLEAN
  OBVIOUS
<1>5. CASE session # run.gen
  BY <1>1, <1>2, <1>5, GoneHolds
<1>6. CASE session = run.gen
  BY <1>1, <1>2, <1>3, <1>4, <1>6, HaltHolds
<1> QED
  BY <1>5, <1>6

LEMMA GroupDoneWhole == EditInv /\ CacheInv /\ GroupInv /\ GroupDone => GroupInv'
<1> SUFFICES ASSUME EditInv, CacheInv, GroupInv, GroupDone PROVE GroupInv'
  OBVIOUS
<1>1. /\ run # None /\ run.kind = "history" /\ run.step = None /\ run.left = <<>>
      /\ UNCHANGED <<session, seq>>
      /\ Finished(IF run.retry THEN ClearCompletedPendingGroup(history, run.plan.key) ELSE history)
  BY DEF GroupDone
<1>2. run.grouped /\ history \in HistoryStates /\ HistoryFits(history, seq)
  BY <1>1, StepFacts, WorkFacts
<1>3. /\ Accounts(history, run.plan.dir, run.plan.key, run.completed, run.plan.count)
      /\ Tidy(history, run.plan.key) /\ run.completed \in Nat /\ run.plan.count \in Nat
      /\ Len(<<>>) + 0 + run.completed = run.plan.count
  BY <1>1, <1>2, GroupedFacts
<1>4. run.completed = run.plan.count
  BY <1>3
<1>5. history.pending = None
  BY <1>1, <1>4 DEF GroupInv, WorkAccounts, Working
<1>6. Finished(history)
  BY <1>1, <1>5 DEF ClearCompletedPendingGroup
<1>7. Tidy(history, None)
  BY <1>2, <1>3, <1>4, NothingDone DEF Tidy, WalkFits
<1> QED
  BY <1>1, <1>2, <1>5, <1>6, <1>7, FinishedHolds DEF PendingKey, PendingFits


-----------------------------------------------------------------------------
(* Groups stay whole: a step of a group, and the theorem.                    *)

\* Turned the other way, what was done is what is left.
LEMMA AccountsTurned ==
    ASSUME NEW h \in HistoryStates, NEW dir \in Directions, NEW key, NEW done, NEW count,
           Accounts(h, dir, key, done, count)
    PROVE  Accounts(h, Opposite(dir), key, count - done, count)
<1>1. count \in Nat /\ done \in 0..count /\ count - done \in 0..count
  BY DEF Accounts
<1>2. PICK a \in 1..Span(h) :
        /\ Block(h, key, a, count)
        /\ Here(h) = IF dir = "undo" THEN a + count - 1 - done ELSE a - 1 + done
  BY DEF Accounts
<1>3. Here(h) = IF Opposite(dir) = "undo" THEN a + count - 1 - (count - done) ELSE a - 1 + (count - done)
  <2>1. CASE dir = "undo"
    BY <1>1, <1>2, <2>1 DEF Opposite
  <2>2. CASE dir = "redo"
    BY <1>1, <1>2, <2>2 DEF Opposite
  <2> QED
    BY <2>1, <2>2 DEF Directions
<1> QED
  BY <1>1, <1>2, <1>3 DEF Accounts

\* Which entries of a stack are of a group that lies in the walk from a to b, when the stack is
\* the walk from first to last.
LEMMA GroupOnStack ==
    ASSUME NEW h \in HistoryStates, h.group = None, NEW dir \in Directions, NEW key,
           NEW done, NEW count, Accounts(h, dir, key, done, count)
    PROVE  LET s == Stack(h, dir)
           IN  /\ Len(s) \in Nat /\ count \in Nat /\ done \in 0..count /\ count - done <= Len(s)
               /\ OfGroup(s, key) = (Len(s) + 1 - (count - done))..Len(s)
<1> DEFINE s == Stack(h, dir)
           n == Len(s)
<1>1. /\ Here(h) \in Nat /\ Span(h) \in Nat /\ Undone(h) \in Nat /\ Here(h) = Closed(h)
      /\ Span(h) = Here(h) + Undone(h)
  BY SpanType
<1>2. n = IF dir = "undo" THEN Here(h) ELSE Undone(h)
  BY <1>1 DEF Stack, Directions, Closed, Undone
<1>3. \A i \in 1..n : /\ StackIndex(h, dir, i) \in 1..Span(h)
                      /\ At(h, StackIndex(h, dir, i)) = s[i]
  BY StackInWalk
<1>4. count \in Nat /\ done \in 0..count
  BY DEF Accounts
<1>5. PICK a \in 1..Span(h) :
        /\ Block(h, key, a, count)
        /\ Here(h) = IF dir = "undo" THEN a + count - 1 - done ELSE a - 1 + done
  BY DEF Accounts
<1>6. /\ a + count - 1 <= Span(h)
      /\ \A i \in 1..Span(h) : At(h, i).key = key <=> a <= i /\ i <= a + count - 1
  BY <1>5 DEF Block
<1> HIDE DEF n, s
<1>7. n \in Nat
  BY <1>1, <1>2
<1>8. count - done <= n
  <2>1. CASE dir = "undo"
    BY <1>1, <1>2, <1>4, <1>5, <2>1
  <2>2. CASE dir # "undo"
    BY <1>1, <1>2, <1>4, <1>5, <1>6, <2>2
  <2> QED
    BY <2>1, <2>2
<1>9. ASSUME NEW i \in 1..n
      PROVE  s[i].key = key <=> n + 1 - (count - done) <= i
  <2>1. s[i].key = key <=> a <= StackIndex(h, dir, i) /\ StackIndex(h, dir, i) <= a + count - 1
    BY <1>3, <1>6
  <2>2. CASE dir = "undo"
    <3>1. StackIndex(h, dir, i) = i /\ n = a + count - 1 - done
      BY <1>2, <1>5, <2>2 DEF StackIndex
    <3>2. s[i].key = key <=> a <= i /\ i <= a + count - 1
      BY <2>1, <3>1
    <3> QED
      BY <1>4, <1>7, <3>1, <3>2
  <2>3. CASE dir # "undo"
    <3>1. StackIndex(h, dir, i) = Span(h) + 1 - i /\ n = Span(h) - (a - 1 + done)
      BY <1>1, <1>2, <1>5, <2>3 DEF StackIndex
    <3>2. s[i].key = key <=> a <= Span(h) + 1 - i /\ Span(h) + 1 - i <= a + count - 1
      BY <2>1, <3>1
    <3> QED
      BY <1>1, <1>4, <1>7, <3>1, <3>2
  <2> QED
    BY <2>2, <2>3
<1>10. OfGroup(s, key) = {i \in 1..n : s[i].key = key}
  BY DEF OfGroup, n
<1>11. OfGroup(s, key) = (n + 1 - (count - done))..n
  BY <1>4, <1>7, <1>8, <1>9, <1>10
<1> QED
  BY <1>4, <1>7, <1>8, <1>11 DEF n, s

\* A group has entries left to undo or redo exactly when it is not done.
LEMMA GroupLeft ==
    ASSUME NEW h \in HistoryStates, h.group = None, NEW dir \in Directions, NEW key,
           NEW done, NEW count, Accounts(h, dir, key, done, count)
    PROVE  HasGroupOnStack(h, dir, key) <=> done < count
<1> DEFINE s == Stack(h, dir)
           n == Len(s)
<1>1. /\ n \in Nat /\ count \in Nat /\ done \in 0..count /\ count - done <= n
      /\ OfGroup(s, key) = (n + 1 - (count - done))..n
  BY GroupOnStack
<1>2. OfGroup(s, key) = {i \in 1..n : s[i].key = key}
  BY DEF OfGroup
<1>3. HasGroupOnStack(h, dir, key) <=> OfGroup(s, key) # {}
  BY <1>2 DEF HasGroupOnStack
<1> HIDE DEF n, s
<1>4. (n + 1 - (count - done))..n # {} <=> done < count
  <2>1. CASE done < count
    <3>1. n \in (n + 1 - (count - done))..n
      BY <1>1, <2>1
    <3> QED
      BY <2>1, <3>1
  <2>2. CASE ~(done < count)
    <3>1. n + 1 - (count - done) > n
      BY <1>1, <2>2
    <3> QED
      BY <1>1, <2>2, <3>1
  <2> QED
    BY <2>1, <2>2
<1> QED
  BY <1>1, <1>3, <1>4

LEMMA StepAppliedWhole == EditInv /\ CacheInv /\ GroupInv /\ StepApplied => GroupInv'
<1> SUFFICES ASSUME EditInv, CacheInv, GroupInv, StepApplied PROVE GroupInv'
  OBVIOUS
<1> DEFINE h == history
           plan == run.plan
           g == FinishGroupStep(h, plan, run.reply)
<1>1. /\ run # None /\ run.kind = "history" /\ run.step # None /\ run.grouped /\ run.reply # None
      /\ UNCHANGED <<session, seq>>
  BY DEF StepApplied, InFlight
<1>2. /\ run \in HistoryRuns /\ plan \in Plans /\ plan.dir \in Directions
      /\ h.group = None /\ h \in HistoryStates /\ HistoryFits(h, seq) /\ run.completed \in Nat
      /\ session = run.gen => Current = history
  BY <1>1, WorkFacts DEF HistoryFits
<1>3. /\ Unique(h, seq) /\ Past(h) /\ Stack(h, plan.dir) # <<>> /\ run.step = Top(Stack(h, plan.dir))
      /\ run.step.key = plan.key /\ OnTop(h, plan.dir, run.step.id, plan.key) /\ NextId = seq
  BY <1>1, StepFacts
<1>4. run.reply \in Replies
  BY <1>1, <1>2 DEF HistoryRuns
<1>5. /\ Accounts(h, plan.dir, plan.key, run.completed, plan.count)
      /\ Tidy(h, plan.key) /\ PendingFits(h) /\ plan.count \in Nat /\ Len(run.left) \in Nat
      /\ Len(run.left) + 1 + run.completed = plan.count /\ run.completed < plan.count
  BY <1>1, GroupedFacts
<1>6. \/ session # run.gen /\ Finished(Current)
      \/ session = run.gen /\ Finished(StartPendingGroup(h, plan, run.completed, TRUE, FALSE))
      \/ /\ history' = g
         /\ run' = [run EXCEPT !.completed = @ + 1, !.step = None, !.reply = None]
  BY <1>2, <1>3 DEF StepApplied
<1>7. CASE session # run.gen /\ Finished(Current)
  BY <1>1, <1>7, GoneHolds
<1>8. CASE session = run.gen /\ Finished(StartPendingGroup(h, plan, run.completed, TRUE, FALSE))
  BY <1>1, <1>8, HaltHolds
<1>9. CASE /\ history' = g
           /\ run' = [run EXCEPT !.completed = @ + 1, !.step = None, !.reply = None]
  <2>1. /\ g \in HistoryStates /\ g.group = None /\ Alike(h, g) /\ Here(g) = Beyond(h, plan.dir)
        /\ IF h.pending = None \/ h.pending.key # plan.key THEN g.pending = h.pending
           ELSE IF HasGroupOnStack(g, h.pending.dir, plan.key)
             THEN g.pending = [h.pending EXCEPT !.completed = @ + 1]
             ELSE g.pending = None
    BY <1>2, <1>3, <1>4, FinishGroupStepWalks
  <2>2. HistoryFits(g, seq)
    BY <1>2, <1>3, <1>4, FinishGroupStepFollows DEF Follows
  <2> HIDE DEF g
  <2>3. /\ Next1(h, plan.dir) \in 1..Span(h) /\ At(h, Next1(h, plan.dir)).key = plan.key
        /\ Accounts(g, plan.dir, plan.key, run.completed + 1, plan.count)
    BY <1>2, <1>5, <2>1, NextStep
  <2>4. Tidy(g, plan.key)
    BY <1>2, <1>5, <2>1, <2>3, MoveFits DEF Tidy
  <2>5. HasGroupOnStack(g, plan.dir, plan.key) <=> run.completed + 1 < plan.count
    BY <1>2, <2>1, <2>3, GroupLeft
  <2>6. /\ run' \in HistoryRuns /\ run'.kind = "history" /\ run'.src = run.src /\ run'.plan = plan
        /\ run'.completed = run.completed + 1 /\ run'.step = None /\ run'.left = run.left
        /\ run'.grouped = run.grouped /\ run'.retry = run.retry /\ run'.revoked = run.revoked
    <3>1. run \in HistoryRuns /\ run.completed + 1 \in Nat
      BY <1>2
    <3>2. run' = [run EXCEPT !.completed = run.completed + 1, !.step = None, !.reply = None]
      BY <1>9
    <3> QED
      BY <3>1, <3>2 DEF HistoryRuns
  <2>7. run' # None
    BY <2>6, NoneAssumption
  <2>8. NextId' = seq /\ BusyKey' = plan.key
    BY <1>1, <2>6, <2>7 DEF NextId, BusyKey, Working
  <2>9. Len(run.left) + 0 + (run.completed + 1) = plan.count
    BY <1>2, <1>5
  <2>10. CASE ~run.retry
    <3>1. h.pending = None /\ g.pending = None
      BY <1>1, <2>1, <2>10 DEF GroupInv, WorkAccounts, Working
    <3>2. WorkAccounts'
      BY <1>1, <1>9, <2>3, <2>6, <2>9, <2>10, <3>1 DEF GroupInv, WorkAccounts, Working
    <3> QED
      BY <1>9, <2>2, <2>4, <2>8, <3>1, <3>2 DEF GroupInv, PendingFits
  <2>11. CASE run.retry
    <3>1. /\ h.pending # None /\ h.pending.key = plan.key /\ h.pending.dir = plan.dir
          /\ h.pending.completed = run.completed /\ h.pending.count = plan.count
      BY <1>1, <1>2, <1>5, <2>11 DEF GroupInv, WorkAccounts, Working
    <3>2. CASE run.completed + 1 < plan.count
      <4>1. g.pending = [h.pending EXCEPT !.completed = @ + 1]
        BY <2>1, <2>5, <3>1, <3>2
      <4>2. /\ g.pending # None /\ g.pending.key = plan.key /\ g.pending.dir = plan.dir
            /\ g.pending.completed = run.completed + 1 /\ g.pending.count = plan.count
        <5>1. h.pending \in [dir : Directions, key : 1..MaxSequence, count : Nat, completed : Nat,
                             unknown : BOOLEAN, retry : BOOLEAN]
          BY <1>2, <3>1 DEF HistoryStates
        <5>2. g.pending \in [dir : Directions, key : 1..MaxSequence, count : Nat, completed : Nat,
                             unknown : BOOLEAN, retry : BOOLEAN]
          BY <4>1, <5>1
        <5> QED
          BY <3>1, <4>1, <5>1, <5>2, NoneAssumption
      <4>3. run.completed + 1 \in 0..plan.count /\ run.completed + 1 # plan.count
        BY <1>2, <1>5, <3>2
      <4>4. PendingFits(g)
        BY <2>3, <3>2, <4>2, <4>3 DEF PendingFits
      <4>5. WorkAccounts'
        BY <1>1, <1>9, <2>3, <2>6, <2>9, <2>11, <4>2, <4>3 DEF GroupInv, WorkAccounts, Working
      <4> QED
        BY <1>9, <2>2, <2>4, <2>8, <4>4, <4>5 DEF GroupInv
    <3>3. CASE ~(run.completed + 1 < plan.count)
      <4>1. g.pending = None
        BY <2>1, <2>5, <3>1, <3>3
      <4>2. run.completed + 1 = plan.count
        BY <1>2, <1>5, <3>3
      <4>3. WorkAccounts'
        BY <1>1, <1>9, <2>3, <2>6, <2>9, <2>11, <4>1, <4>2 DEF GroupInv, WorkAccounts, Working
      <4> QED
        BY <1>9, <2>2, <2>4, <2>8, <4>1, <4>3 DEF GroupInv, PendingFits
    <3> QED
      BY <3>2, <3>3
  <2> QED
    BY <2>10, <2>11
<1> QED
  BY <1>6, <1>7, <1>8, <1>9


\* Every step of the actor, the screen, MCP and the engine keeps the account of the groups.
THEOREM GroupInvariance == Spec => [](EditInv /\ CacheInv /\ GroupInv)
<1>1. EditInv /\ CacheInv /\ GroupInv /\ [Next]_vars => GroupInv'
  <2> SUFFICES ASSUME EditInv, CacheInv, GroupInv, [Next]_vars PROVE GroupInv'
    OBVIOUS
  <2>1. CASE \/ Disconnect \/ Connect
             \/ (\E slot \in UiSlots : CaptureValue(slot))
             \/ (\E dir \in UiDirections : CaptureCursor(dir))
             \/ UNCHANGED vars
    <3>1. UNCHANGED <<history, run, seq>>
      BY <2>1 DEF Disconnect, Connect, CaptureValue, CaptureCursor, vars
    <3> QED
      BY <3>1, SameHolds
  <2>2. CASE \/ SessionChanged \/ EditRefused
             \/ \E slot \in UiSlots, val \in Values : SetFromUi(slot, val)
    BY <2>2, SessionChangedWhole, EditRefusedWhole, SetFromUiWhole
  <2>3. CASE \/ \E slot \in Slots, val \in Values, token \in {None} \cup 1..MaxSequence :
                  SetFromMcp(slot, val, token)
             \/ \E src \in {"ui", "mcp"}, token \in {None} \cup 1..MaxSequence : Create(src, token)
             \/ \E src \in {"ui", "mcp"}, o \in Objects : Delete(src, o)
             \/ \E src \in {"ui", "mcp"} : OtherEdit(src)
    BY <2>3, EditsWhole
  <2>4. CASE EngineAccepts \/ EngineRefuses \/ EditAnswered \/ EditUnanswered
    BY <2>4, EngineWhole, EditAnsweredWhole, EditUnansweredWhole
  <2>5. CASE HistoryFromUi
    <3>1. cursor.dir \in Directions /\ StartHistory("ui", cursor.dir, cursor.at, cursor.shown)
      BY <2>5 DEF HistoryFromUi, EditInv, CursorFits
    <3> QED
      BY <3>1, StartHistoryWhole
  <2>6. CASE \E dir \in Directions : HistoryFromMcp(dir)
    BY <2>6, StartHistoryWhole DEF HistoryFromMcp
  <2>7. CASE StartRetry \/ SendStep
    BY <2>7, StartRetryWhole, SendStepWhole
  <2>8. CASE SingleApplied \/ SingleFails \/ StepApplied \/ StepFails \/ GroupDone
    BY <2>8, SingleAppliedWhole, SingleFailsWhole, StepAppliedWhole, StepFailsWhole, GroupDoneWhole
  <2>9. CASE Begin \/ Discard \/ AuthRevoked
    BY <2>9, BeginWhole, DiscardWhole, AuthRevokedWhole
  <2>10. CASE CloseGroup
    <3>1. run = None /\ history' = CloseActiveGroup(history) /\ UNCHANGED <<run, seq>>
      BY <2>10 DEF CloseGroup
    <3> QED
      BY <3>1, CloseHolds
  <2> QED
    BY <2>1, <2>2, <2>3, <2>4, <2>5, <2>6, <2>7, <2>8, <2>9, <2>10 DEF Next
<1> QED
  BY <1>1, InitWhole, CacheInvariance, PTL DEF Spec

LEMMA IntervalSize ==
    ASSUME NEW n \in Nat, NEW m \in Nat
    PROVE  Cardinality((n + 1)..(n + m)) = m
<1>1. n + 1 \in Int /\ n + m \in Int
  OBVIOUS
<1>2. Cardinality((n + 1)..(n + m)) = IF n + 1 > n + m THEN 0 ELSE n + m - (n + 1) + 1
  BY <1>1, FS_Interval
<1> QED
  BY <1>2

\* A group that is not pending lies on one stack, in one piece.
LEMMA WholeOnStack ==
    ASSUME NEW h \in HistoryStates, Tidy(h, None), NEW dir \in Directions,
           NEW i \in 1..Len(Stack(h, dir))
    PROVE  LET e == Stack(h, dir)[i]
           IN  /\ e.count \in Nat
               /\ \E b \in Nat : OfGroup(Stack(h, dir), e.key) = (b + 1)..(b + e.count)
               /\ OfGroup(Stack(h, Opposite(dir)), e.key) = {}
<1> DEFINE s == Stack(h, dir)
           o == Stack(h, Opposite(dir))
           n == Len(s)
           w == StackIndex(h, dir, i)
           key == s[i].key
           count == s[i].count
<1>1. /\ Here(h) \in Nat /\ Span(h) \in Nat /\ Undone(h) \in Nat /\ Closed(h) \in Nat
      /\ Closed(h) <= Here(h) /\ Span(h) = Here(h) + Undone(h)
  BY SpanType
<1>2. /\ n = IF dir = "undo" THEN Closed(h) ELSE Undone(h)
      /\ Len(o) = IF dir = "undo" THEN Undone(h) ELSE Closed(h)
  BY <1>1 DEF Stack, Opposite, Directions, Closed, Undone
<1>3. \A j \in 1..n : /\ StackIndex(h, dir, j) \in 1..Span(h)
                      /\ At(h, StackIndex(h, dir, j)) = s[j]
                      /\ ~InGroup(h, StackIndex(h, dir, j))
                      /\ dir = "undo" <=> StackIndex(h, dir, j) <= Here(h)
  BY StackInWalk
<1>4. Opposite(dir) \in Directions
  BY DEF Opposite, Directions
<1>5. \A j \in 1..Len(o) : /\ StackIndex(h, Opposite(dir), j) \in 1..Span(h)
                           /\ At(h, StackIndex(h, Opposite(dir), j)) = o[j]
                           /\ Opposite(dir) = "undo" <=> StackIndex(h, Opposite(dir), j) <= Here(h)
  BY <1>4, StackInWalk
<1>6. i \in 1..n
  OBVIOUS
<1> HIDE DEF n, s, o
<1>7. n \in Nat
  BY <1>1, <1>2
<1>8. w \in 1..Span(h) /\ At(h, w) = s[i] /\ ~InGroup(h, w)
  BY <1>3, <1>6
<1>9. Whole(h, w)
  BY <1>8 DEF Tidy, WalkFits, Blocks
<1>10. PICK a \in 1..Span(h) : Block(h, key, a, count)
  BY <1>8, <1>9 DEF Whole
<1>11. /\ count \in Nat /\ count > 0 /\ a + count - 1 <= Span(h)
       /\ \A j \in 1..Span(h) : At(h, j).key = key <=> a <= j /\ j <= a + count - 1
  BY <1>10 DEF Block
<1> HIDE DEF key, count, w
<1>12. a <= w /\ w <= a + count - 1
  BY <1>8, <1>11 DEF key
<1>13. dir = "undo" <=> w <= Here(h)
  BY <1>3, <1>6 DEF w
<1>14. \A k, j \in 1..Span(h) : ~(k <= Here(h) /\ Here(h) < j /\ At(h, k).key = At(h, j).key)
  <2>1. \A k \in 1..Span(h) : At(h, k).key \in 1..MaxSequence
    BY SpanType
  <2>2. None \notin 1..MaxSequence
    BY EditAssumption
  <2> QED
    BY <2>1, <2>2 DEF Tidy, WalkFits, Cut
<1>15. \A j \in a..(a + count - 1) : j \in 1..Span(h) /\ At(h, j).key = key /\ ~InGroup(h, j)
  <2> TAKE j \in a..(a + count - 1)
  <2>1. j \in 1..Span(h) /\ At(h, j).key = key
    BY <1>1, <1>11
  <2>2. ~InGroup(h, j)
    <3>1. SUFFICES ASSUME InGroup(h, j) PROVE FALSE
      OBVIOUS
    <3>2. h.group # None
      BY <2>1, <3>1, SpanType
    <3>3. At(h, w).key = key
      BY <1>8 DEF key
    <3> QED
      BY <1>8, <2>1, <3>1, <3>2, <3>3 DEF Tidy, WalkFits, GroupKeys
  <2> QED
    BY <2>1, <2>2
<1>16. \A j \in a..(a + count - 1) : dir = "undo" <=> j <= Here(h)
  <2> TAKE j \in a..(a + count - 1)
  <2>1. At(h, w).key = At(h, j).key /\ j \in 1..Span(h)
    BY <1>8, <1>15 DEF key
  <2>2. ~(w <= Here(h) /\ Here(h) < j) /\ ~(j <= Here(h) /\ Here(h) < w)
    BY <1>8, <1>14, <2>1
  <2>3. w \in Nat /\ j \in Nat
    BY <1>8, <2>1
  <2> QED
    BY <1>1, <1>13, <2>2, <2>3
<1>17. \A j \in 1..n : s[j].key = key <=> a <= StackIndex(h, dir, j) /\ StackIndex(h, dir, j) <= a + count - 1
  BY <1>3, <1>11
<1>18. OfGroup(s, key) = {j \in 1..n : s[j].key = key}
  BY DEF OfGroup, n
<1>19. \E b \in Nat : OfGroup(s, key) = (b + 1)..(b + count)
  <2>1. CASE dir = "undo"
    <3>1. a + count - 1 <= Closed(h)
      <4>1. a + count - 1 \in a..(a + count - 1)
        BY <1>11
      <4>2. a + count - 1 <= Here(h) /\ ~InGroup(h, a + count - 1)
        BY <1>15, <1>16, <2>1, <4>1
      <4> QED
        BY <1>1, <1>11, <4>2 DEF InGroup
    <3>2. n = Closed(h)
      BY <1>2, <2>1
    <3>3. \A j \in 1..n : s[j].key = key <=> a <= j /\ j <= a + count - 1
      BY <1>17, <2>1 DEF StackIndex
    <3>4. a - 1 \in Nat /\ (a - 1) + 1 = a /\ (a - 1) + count = a + count - 1
      BY <1>11
    <3>5. OfGroup(s, key) = a..(a + count - 1)
      BY <1>7, <1>11, <1>18, <3>1, <3>2, <3>3
    <3> QED
      BY <3>4, <3>5
  <2>2. CASE dir # "undo"
    <3>1. Here(h) < a
      <4>1. a \in a..(a + count - 1)
        BY <1>11
      <4>2. ~(a <= Here(h))
        BY <1>16, <2>2, <4>1
      <4> QED
        BY <1>1, <4>2
    <3>2. n = Undone(h)
      BY <1>2, <2>2
    <3>3. \A j \in 1..n : s[j].key = key <=> a <= Span(h) + 1 - j /\ Span(h) + 1 - j <= a + count - 1
      BY <1>17, <2>2 DEF StackIndex
    <3> DEFINE b == Span(h) + 1 - (a + count)
    <3>4. b \in Nat /\ b + count <= n /\ b + 1 = Span(h) + 2 - (a + count) /\ b + count = Span(h) + 1 - a
      BY SMTT(30), <1>1, <1>11, <3>1, <3>2
    <3>5. \A j \in 1..n : s[j].key = key <=> b + 1 <= j /\ j <= b + count
      <4> TAKE j \in 1..n
      <4>1. j \in Nat /\ Span(h) \in Nat /\ a \in Nat /\ count \in Nat
        BY <1>1, <1>7, <1>11
      <4>2. a <= Span(h) + 1 - j <=> j <= Span(h) + 1 - a
        BY <4>1
      <4>3. Span(h) + 1 - j <= a + count - 1 <=> Span(h) + 2 - (a + count) <= j
        BY <4>1
      <4> QED
        BY <3>3, <3>4, <4>2, <4>3
    <3> HIDE DEF b
    <3>6. OfGroup(s, key) = (b + 1)..(b + count)
      BY <1>7, <1>11, <1>18, <3>4, <3>5
    <3> QED
      BY <3>4, <3>6
  <2> QED
    BY <2>1, <2>2
<1>20. OfGroup(o, key) = {}
  <2>1. SUFFICES ASSUME NEW j \in 1..Len(o), o[j].key = key PROVE FALSE
    BY DEF OfGroup
  <2> DEFINE v == StackIndex(h, Opposite(dir), j)
  <2>2. v \in 1..Span(h) /\ At(h, v).key = key /\ (Opposite(dir) = "undo" <=> v <= Here(h))
    BY <1>5, <2>1
  <2> HIDE DEF v
  <2>3. v \in a..(a + count - 1)
    BY <1>11, <2>2
  <2>4. dir = "undo" <=> v <= Here(h)
    BY <1>16, <2>3
  <2> QED
    BY <2>2, <2>4 DEF Opposite, Directions
<1> QED
  BY <1>11, <1>19, <1>20 DEF s, o, key, count

\* A group is undone and redone as one: without a pending group every group's entries lie side by
\* side on one stack, all of them, and a pending group's completed entries have moved to the other
\* stack while the rest lie on top of theirs, whatever step of it failed (finish_group_step,
\* start_pending_group, discard_pending_group).
THEOREM GroupsKeepWhole == Spec => []GroupsStayWhole
<1>1. EditInv /\ CacheInv /\ GroupInv => GroupsStayWhole
  <2> SUFFICES ASSUME EditInv, CacheInv, GroupInv, run = None PROVE PendingAccounts /\ GroupWhole
    BY DEF GroupsStayWhole, PendingAccounts, GroupWhole, Quiet
  <2> DEFINE h == history
  <2>1. h \in HistoryStates /\ PendingFits(h) /\ Tidy(h, PendingKey(h))
    BY DEF GroupInv, BusyKey, Working, EditInv, HistoryFits
  <2>2. PendingAccounts
    <3> SUFFICES ASSUME h.pending # None,
                        h.pending.retry \/ OfGroup(Stack(h, h.pending.dir), h.pending.key) # {}
                 PROVE  LET p == h.pending
                            here == OfGroup(Stack(h, p.dir), p.key)
                        IN  /\ here = (Len(Stack(h, p.dir)) + 1 - Cardinality(here))..Len(Stack(h, p.dir))
                            /\ here # {}
                            /\ Cardinality(here) + p.completed = p.count
                            /\ Cardinality(OfGroup(Stack(h, Opposite(p.dir)), p.key)) = p.completed
      BY DEF PendingAccounts
    <3> DEFINE p == h.pending
               s == Stack(h, p.dir)
               o == Stack(h, Opposite(p.dir))
    <3>1. h.group = None /\ p.dir \in Directions /\ Opposite(p.dir) \in Directions
      BY <2>1 DEF EditInv, HistoryFits, HistoryStates, Opposite, Directions
    <3>2. p.retry \/ Occurs(h, p.key)
      <4>1. CASE OfGroup(s, p.key) # {}
        <5>1. PICK i \in 1..Len(s) : s[i].key = p.key
          BY <4>1 DEF OfGroup
        <5>2. StackIndex(h, p.dir, i) \in 1..Span(h) /\ At(h, StackIndex(h, p.dir, i)) = s[i]
          BY <2>1, <3>1, StackInWalk
        <5> QED
          BY <5>1, <5>2 DEF Occurs
      <4> QED
        BY <4>1
    <3>3. Accounts(h, p.dir, p.key, p.completed, p.count) /\ p.completed < p.count
      BY <2>1, <3>2 DEF PendingFits
    <3>4. /\ Len(s) \in Nat /\ p.count \in Nat /\ p.completed \in 0..p.count
          /\ p.count - p.completed <= Len(s)
          /\ OfGroup(s, p.key) = (Len(s) + 1 - (p.count - p.completed))..Len(s)
      BY <2>1, <3>1, <3>3, GroupOnStack
    <3>5. Accounts(h, Opposite(p.dir), p.key, p.count - p.completed, p.count)
      BY <2>1, <3>1, <3>3, AccountsTurned
    <3>6. /\ Len(o) \in Nat /\ p.count - (p.count - p.completed) <= Len(o)
          /\ OfGroup(o, p.key) = (Len(o) + 1 - (p.count - (p.count - p.completed)))..Len(o)
      BY <2>1, <3>1, <3>5, GroupOnStack
    <3> DEFINE left == p.count - p.completed
               x == Len(s) - left
               y == Len(o) - p.completed
    <3> HIDE DEF s, o, h
    <3>7. /\ left \in Nat /\ left > 0 /\ x \in Nat /\ y \in Nat /\ p.completed \in Nat
          /\ Len(s) + 1 - left = x + 1 /\ Len(s) = x + left
          /\ Len(o) + 1 - (p.count - left) = y + 1 /\ Len(o) = y + p.completed
          /\ left + p.completed = p.count
      <4>1. p.count \in Nat /\ p.completed \in 0..p.count /\ p.completed < p.count
        BY <3>3, <3>4
      <4>2. Len(s) \in Nat /\ Len(o) \in Nat /\ left <= Len(s) /\ p.count - left <= Len(o)
        BY <3>4, <3>6
      <4> DEFINE c == p.count
                 d == p.completed
                 m == Len(s)
                 n == Len(o)
      <4>3. c \in Nat /\ d \in 0..c /\ d < c /\ m \in Nat /\ n \in Nat /\ c - d <= m /\ c - (c - d) <= n
        BY <4>1, <4>2
      <4> HIDE DEF c, d, m, n
      <4>4. /\ c - d \in Nat /\ c - d > 0 /\ m - (c - d) \in Nat /\ n - d \in Nat /\ d \in Nat
            /\ m + 1 - (c - d) = m - (c - d) + 1 /\ m = m - (c - d) + (c - d)
            /\ n + 1 - (c - (c - d)) = n - d + 1 /\ n = n - d + d /\ (c - d) + d = c
        BY <4>3
      <4> QED
        BY <4>4 DEF c, d, m, n
    <3> HIDE DEF left, x, y
    <3>8. OfGroup(s, p.key) = (x + 1)..(x + left) /\ OfGroup(o, p.key) = (y + 1)..(y + p.completed)
      BY <3>4, <3>6, <3>7 DEF left
    <3>9. Cardinality(OfGroup(s, p.key)) = left /\ Cardinality(OfGroup(o, p.key)) = p.completed
      BY <3>7, <3>8, IntervalSize
    <3>10. OfGroup(s, p.key) # {}
      <4>1. x + left \in (x + 1)..(x + left)
        BY <3>7
      <4> QED
        BY <3>8, <4>1
    <3>11. OfGroup(s, p.key) = (Len(s) + 1 - left)..Len(s)
      BY <3>7, <3>8
    <3> QED
      BY <3>7, <3>9, <3>10, <3>11 DEF s, o
  <2>3. GroupWhole
    <3> SUFFICES ASSUME h.pending = None, NEW dir \in Directions, NEW i \in 1..Len(Stack(h, dir))
                 PROVE  LET e == Stack(h, dir)[i]
                            mates == OfGroup(Stack(h, dir), e.key)
                        IN  /\ Cardinality(mates) = e.count
                            /\ \A j, k \in mates : \A m \in j..k : m \in mates
                            /\ OfGroup(Stack(h, Opposite(dir)), e.key) = {}
      BY DEF GroupWhole
    <3>1. Tidy(h, None)
      BY <2>1 DEF PendingKey
    <3> DEFINE e == Stack(h, dir)[i]
               mates == OfGroup(Stack(h, dir), e.key)
    <3>2. /\ e.count \in Nat /\ \E b \in Nat : mates = (b + 1)..(b + e.count)
          /\ OfGroup(Stack(h, Opposite(dir)), e.key) = {}
      BY <2>1, <3>1, WholeOnStack
    <3>3. PICK b \in Nat : mates = (b + 1)..(b + e.count)
      BY <3>2
    <3> HIDE DEF mates, e, h
    <3>4. Cardinality(mates) = e.count
      BY <3>2, <3>3, IntervalSize
    <3>5. \A j, k \in mates : \A m \in j..k : m \in mates
      BY <3>2, <3>3
    <3> QED
      BY <3>2, <3>4, <3>5 DEF mates, e
  <2> QED
    BY <2>2, <2>3
<1> QED
  BY <1>1, GroupInvariance, PTL


-----------------------------------------------------------------------------
(* Every entry of the walk has an object to act on.                          *)

Obj(h, i) == At(h, i).rec.slot[1]

\* Place j of the walk creates object o.
CreatesAt(h, j, o) == IsCreate(At(h, j).rec) /\ Obj(h, j) = o

\* Records name their objects, and nothing acts on an object before it is created.
RecordsFit(h) == \A i \in 1..Span(h) : At(h, i).rec \in Record
CreatesFirst(h) ==
    \A i, j \in 1..Span(h) : i < j /\ IsCreate(At(h, j).rec) => Obj(h, i) # Obj(h, j)
Objective(h) == RecordsFit(h) /\ CreatesFirst(h)

\* The object of place i has been in the scene, and it is lost, it is there now, or redoing
\* a place before i brings it back.
Reaches(h, i, scene, lost) ==
    /\ scene[<<Obj(h, i), "object">>] # "unborn"
    /\ \/ Obj(h, i) \in lost
       \/ scene[<<Obj(h, i), "object">>] = "alive"
       \/ \E j \in 1..i : Here(h) < j /\ CreatesAt(h, j, Obj(h, i))
AllReach(h, scene, lost) == \A i \in 1..Span(h) : Reaches(h, i, scene, lost)

\* The same records at the same places.
SameRecs(h, g) ==
    /\ Span(g) = Span(h) /\ Here(g) = Here(h)
    /\ \A i \in 1..Span(h) : At(g, i).rec = At(h, i).rec

LEMMA NothingReaches ==
    ASSUME NEW h, Span(h) = 0
    PROVE  Objective(h) /\ \A scene, lost : AllReach(h, scene, lost)
BY DEF Objective, RecordsFit, CreatesFirst, AllReach

LEMMA LostReaches ==
    ASSUME NEW h, NEW scene, NEW lost, NEW more, lost \subseteq more, AllReach(h, scene, lost)
    PROVE  AllReach(h, scene, more)
BY DEF AllReach, Reaches

LEMMA SameReaches ==
    ASSUME NEW h \in HistoryStates, NEW g, SameRecs(h, g)
    PROVE  /\ Objective(h) => Objective(g)
           /\ \A i \in 1..Span(h) : Obj(g, i) = Obj(h, i)
           /\ \A scene, lost : AllReach(h, scene, lost) => AllReach(g, scene, lost)
<1>1. \A i \in 1..Span(h) : Obj(g, i) = Obj(h, i) /\ At(g, i).rec = At(h, i).rec
  BY DEF SameRecs, Obj
<1>2. Objective(h) => Objective(g)
  BY <1>1 DEF SameRecs, Objective, RecordsFit, CreatesFirst
<1>3. Span(h) \in Nat
  BY SpanType
<1>4. ASSUME NEW scene, NEW lost, AllReach(h, scene, lost), NEW i \in 1..Span(h)
      PROVE  Reaches(g, i, scene, lost)
  <2>1. \A j \in 1..i : j \in 1..Span(h)
    BY <1>3
  <2>2. \A j \in 1..i : CreatesAt(h, j, Obj(h, i)) => CreatesAt(g, j, Obj(g, i))
    BY <1>1, <2>1 DEF CreatesAt
  <2>3. Reaches(h, i, scene, lost)
    BY <1>4 DEF AllReach
  <2> QED
    BY <1>1, <2>2, <2>3 DEF Reaches, SameRecs
<1> QED
  BY <1>1, <1>2, <1>4 DEF AllReach, SameRecs

\* Taking places out that the history is at: what they create is lost.
LEMMA RemovesReaches ==
    ASSUME NEW h \in HistoryStates, NEW g \in HistoryStates, NEW a, NEW b, Removes(h, g, a, b),
           Objective(h), NEW scene, NEW lost
    PROVE  /\ Objective(g)
           /\ AllReach(h, scene, lost)
                /\ (\A i \in a..b : IsCreate(At(h, i).rec) => Obj(h, i) \in lost)
              => AllReach(g, scene, lost)
<1>1. /\ Here(h) \in Nat /\ Span(h) \in Nat /\ Here(h) <= Span(h)
      /\ a \in 1..(Here(h) + 1) /\ b \in Here(h)..Span(h)
      /\ Here(g) = a - 1 /\ Span(g) = Span(h) - (b + 1 - a)
  BY SpanType DEF Removes
<1> DEFINE was(i) == IF i < a THEN i ELSE i + (b + 1 - a)
<1>2. \A i \in 1..Span(g) : was(i) \in 1..Span(h) /\ (was(i) < a \/ was(i) > b)
  BY <1>1
<1>3. \A i, j \in 1..Span(g) : i < j => was(i) < was(j)
  BY <1>1
<1>4. \A i \in 1..Span(g) : At(g, i) = At(h, was(i)) /\ Obj(g, i) = Obj(h, was(i))
  BY DEF Removes, Obj
<1>5. \A k \in 1..Span(h) : k > b => \E j \in 1..Span(g) : was(j) = k /\ j >= a
  <2> SUFFICES ASSUME NEW k \in 1..Span(h), k > b PROVE \E j \in 1..Span(g) : was(j) = k /\ j >= a
    OBVIOUS
  <2>1. k - (b + 1 - a) \in 1..Span(g) /\ was(k - (b + 1 - a)) = k /\ k - (b + 1 - a) >= a
    BY <1>1
  <2> QED
    BY <2>1
<1>6. \A i, j \in 1..Span(g) : was(j) <= was(i) => j <= i
  BY <1>1
<1> HIDE DEF was
<1>7. Objective(g)
  <2>1. RecordsFit(g)
    BY <1>2, <1>4 DEF Objective, RecordsFit
  <2>2. CreatesFirst(g)
    BY <1>2, <1>3, <1>4 DEF Objective, CreatesFirst
  <2> QED
    BY <2>1, <2>2 DEF Objective
<1>8. ASSUME AllReach(h, scene, lost), \A i \in a..b : IsCreate(At(h, i).rec) => Obj(h, i) \in lost,
             NEW i \in 1..Span(g)
      PROVE  Reaches(g, i, scene, lost)
  <2>1. Reaches(h, was(i), scene, lost)
    BY <1>2, <1>8 DEF AllReach
  <2>2. CASE \E j \in 1..was(i) : Here(h) < j /\ CreatesAt(h, j, Obj(h, was(i)))
    <3>1. PICK k \in 1..was(i) : Here(h) < k /\ CreatesAt(h, k, Obj(h, was(i)))
      BY <2>2
    <3>2. k \in 1..Span(h) /\ a <= k /\ was(i) \in 1..Span(h)
      BY <1>1, <1>2, <3>1
    <3>3. CASE k <= b
      <4>1. k \in a..b
        BY <1>1, <3>2, <3>3
      <4>2. Obj(h, was(i)) \in lost
        BY <1>8, <3>1, <4>1 DEF CreatesAt
      <4> QED
        BY <1>4, <2>1, <4>2 DEF Reaches
    <3>4. CASE k > b
      <4>1. PICK j \in 1..Span(g) : was(j) = k /\ j >= a
        BY <1>5, <3>2, <3>4
      <4>2. was(j) <= was(i)
        BY <3>1, <3>2, <4>1
      <4>3. j \in 1..i /\ Here(g) < j
        BY <1>1, <1>6, <4>1, <4>2
      <4>4. CreatesAt(g, j, Obj(g, i))
        BY <1>4, <3>1, <4>1 DEF CreatesAt
      <4> QED
        BY <1>4, <2>1, <4>3, <4>4 DEF Reaches
    <3> QED
      BY <1>1, <3>2, <3>3, <3>4
  <2>3. CASE ~(\E j \in 1..was(i) : Here(h) < j /\ CreatesAt(h, j, Obj(h, was(i))))
    BY <1>4, <2>1, <2>3 DEF Reaches
  <2> QED
    BY <2>2, <2>3
<1> QED
  BY <1>7, <1>8 DEF AllReach

\* A new place at the end, of an object that is there; what it creates is new.
LEMMA PushReaches ==
    ASSUME NEW h \in HistoryStates, NEW g \in HistoryStates, NEW e, PushesAt(h, g, e), Objective(h),
           e.rec \in Record, NEW scene, NEW lost, AllReach(h, scene, lost),
           scene[<<e.rec.slot[1], "object">>] = "alive",
           IsCreate(e.rec) => \A i \in 1..Span(h) : Obj(h, i) # e.rec.slot[1]
    PROVE  Objective(g) /\ AllReach(g, scene, lost)
<1>1. /\ Here(h) \in Nat /\ Span(h) \in Nat /\ Here(h) <= Span(h)
      /\ Span(g) = Here(h) + 1 /\ Here(g) = Span(g)
      /\ At(g, Here(h) + 1) = e
      /\ \A i \in 1..Here(h) : At(g, i) = At(h, i)
  BY SpanType DEF PushesAt
<1>2. \A i \in 1..Span(g) : i = Here(h) + 1 \/ (i \in 1..Here(h) /\ i \in 1..Span(h))
  BY <1>1
<1>3. /\ Obj(g, Here(h) + 1) = e.rec.slot[1]
      /\ \A i \in 1..Here(h) : Obj(g, i) = Obj(h, i)
  BY <1>1 DEF Obj
<1>4. RecordsFit(g)
  BY <1>1, <1>2 DEF Objective, RecordsFit
<1>5. CreatesFirst(g)
  <2> SUFFICES ASSUME NEW i \in 1..Span(g), NEW j \in 1..Span(g), i < j, IsCreate(At(g, j).rec)
               PROVE  Obj(g, i) # Obj(g, j)
    BY DEF CreatesFirst
  <2>1. i \in 1..Here(h) /\ i \in 1..Span(h)
    BY <1>1
  <2>2. CASE j = Here(h) + 1
    BY <1>1, <1>3, <2>1, <2>2
  <2>3. CASE j \in 1..Here(h) /\ j \in 1..Span(h)
    BY <1>1, <1>3, <2>1, <2>3 DEF Objective, CreatesFirst
  <2> QED
    BY <1>2, <2>2, <2>3
<1>6. ASSUME NEW i \in 1..Span(g) PROVE Reaches(g, i, scene, lost)
  <2>1. CASE i = Here(h) + 1
    BY <1>3, <2>1 DEF Reaches
  <2>2. CASE i \in 1..Here(h) /\ i \in 1..Span(h)
    <3>1. Reaches(h, i, scene, lost)
      BY <2>2 DEF AllReach
    <3>2. ~(\E j \in 1..i : Here(h) < j /\ CreatesAt(h, j, Obj(h, i)))
      BY <1>1, <2>2
    <3> QED
      BY <1>3, <2>2, <3>1, <3>2 DEF Reaches
  <2> QED
    BY <1>2, <2>1, <2>2
<1> QED
  BY <1>4, <1>5, <1>6 DEF Objective, AllReach


\* An undo takes the last place that is done; what it deletes, redoing that place brings back.
LEMMA UndoReaches ==
    ASSUME NEW h \in HistoryStates, NEW g \in HistoryStates, Objective(h), Here(h) \in 1..Span(h),
           Span(g) = Span(h), Here(g) = Here(h) - 1,
           \A i \in 1..Span(h) : At(g, i).rec = At(h, i).rec,
           NEW scene, NEW lost, NEW leaving, AllReach(h, scene, lost \cup leaving),
           \A o \in leaving : CreatesAt(h, Here(h), o)
    PROVE  Objective(g) /\ AllReach(g, scene, lost)
<1>1. Here(h) \in Nat /\ Span(h) \in Nat
  BY SpanType
<1>2. \A i \in 1..Span(h) : Obj(g, i) = Obj(h, i)
  BY DEF Obj
<1>3. Objective(g)
  BY <1>2 DEF Objective, RecordsFit, CreatesFirst
<1>4. ASSUME NEW i \in 1..Span(h) PROVE Reaches(g, i, scene, lost)
  <2>1. Reaches(h, i, scene, lost \cup leaving)
    BY <1>4 DEF AllReach
  <2>2. \A j \in 1..i : j \in 1..Span(h)
    BY <1>1
  <2>3. ASSUME Obj(h, i) \in leaving PROVE Reaches(g, i, scene, lost)
    <3>1. CreatesAt(h, Here(h), Obj(h, i))
      BY <2>3
    <3>2. ~(i < Here(h))
      BY <1>4, <3>1 DEF Objective, CreatesFirst, CreatesAt
    <3>3. Here(h) \in 1..i /\ Here(g) < Here(h)
      BY <1>1, <3>2
    <3>4. CreatesAt(g, Here(h), Obj(g, i))
      BY <1>2, <3>1 DEF CreatesAt
    <3> QED
      BY <1>2, <2>1, <3>3, <3>4 DEF Reaches
  <2>4. ASSUME NEW j \in 1..i, Here(h) < j, CreatesAt(h, j, Obj(h, i))
        PROVE  Reaches(g, i, scene, lost)
    <3>1. Here(g) < j
      BY <1>1, <2>4
    <3>2. CreatesAt(g, j, Obj(g, i))
      BY <1>2, <2>2, <2>4 DEF CreatesAt
    <3> QED
      BY <1>2, <2>1, <3>1, <3>2 DEF Reaches
  <2> QED
    BY <1>2, <2>1, <2>3, <2>4 DEF Reaches
<1> QED
  BY <1>3, <1>4 DEF AllReach

\* A redo takes the next place; one that creates nothing brings nothing back.
LEMMA RedoReaches ==
    ASSUME NEW h \in HistoryStates, NEW g \in HistoryStates, Objective(h), Here(h) + 1 \in 1..Span(h),
           Span(g) = Span(h), Here(g) = Here(h) + 1,
           \A i \in 1..Span(h) : At(g, i).rec = At(h, i).rec, ~IsCreate(At(h, Here(h) + 1).rec),
           NEW scene, NEW lost, AllReach(h, scene, lost)
    PROVE  Objective(g) /\ AllReach(g, scene, lost)
<1>1. Here(h) \in Nat /\ Span(h) \in Nat
  BY SpanType
<1>2. \A i \in 1..Span(h) : Obj(g, i) = Obj(h, i)
  BY DEF Obj
<1>3. Objective(g)
  BY <1>2 DEF Objective, RecordsFit, CreatesFirst
<1>4. ASSUME NEW i \in 1..Span(h) PROVE Reaches(g, i, scene, lost)
  <2>1. Reaches(h, i, scene, lost)
    BY <1>4 DEF AllReach
  <2>2. ASSUME NEW j \in 1..i, Here(h) < j, CreatesAt(h, j, Obj(h, i))
        PROVE  Reaches(g, i, scene, lost)
    <3>1. j # Here(h) + 1
      BY <2>2 DEF CreatesAt
    <3>2. Here(g) < j /\ j \in 1..Span(h)
      BY <1>1, <2>2, <3>1
    <3>3. CreatesAt(g, j, Obj(g, i))
      BY <1>2, <2>2, <3>2 DEF CreatesAt
    <3> QED
      BY <1>2, <2>1, <3>2, <3>3 DEF Reaches
  <2> QED
    BY <1>2, <2>1, <2>2 DEF Reaches
<1> QED
  BY <1>3, <1>4 DEF AllReach

\* Redoing a creation gives object old the id new: the places that acted on old follow, or
\* old is lost to them.
Recreates(h, g, old, new, lost) ==
    \A i \in 1..Span(h) :
      /\ At(g, i).rec \in Record
      /\ IsCreate(At(g, i).rec) <=> IsCreate(At(h, i).rec)
      /\ Obj(h, i) # old => Obj(g, i) = Obj(h, i)
      /\ Obj(h, i) = old => Obj(g, i) = new \/ (Obj(g, i) = old /\ old \in lost)

LEMMA RecreateReaches ==
    ASSUME NEW h \in HistoryStates, NEW g \in HistoryStates, Objective(h), Here(h) + 1 \in 1..Span(h),
           Span(g) = Span(h), Here(g) = Here(h) + 1, NEW old, NEW new, NEW lost, NEW scene,
           CreatesAt(h, Here(h) + 1, old), Recreates(h, g, old, new, lost),
           \A i \in 1..Span(h) : Obj(h, i) # new, scene[<<new, "object">>] = "alive",
           AllReach(h, scene, lost)
    PROVE  Objective(g) /\ AllReach(g, scene, lost)
<1>1. Here(h) \in Nat /\ Span(h) \in Nat
  BY SpanType
<1>2. RecordsFit(g)
  BY DEF RecordsFit, Recreates
<1>3. CreatesFirst(g)
  <2> SUFFICES ASSUME NEW i \in 1..Span(h), NEW j \in 1..Span(h), i < j, IsCreate(At(g, j).rec),
                      Obj(g, i) = Obj(g, j)
               PROVE  FALSE
    BY DEF CreatesFirst
  <2>1. IsCreate(At(h, j).rec)
    BY DEF Recreates
  <2>2. Obj(h, i) # Obj(h, j)
    BY <2>1 DEF Objective, CreatesFirst
  <2>3. CASE Obj(g, j) = new
    <3>1. Obj(h, j) = old /\ Obj(h, i) = old
      BY <2>3 DEF Recreates
    <3> QED
      BY <2>2, <3>1
  <2>4. CASE Obj(g, j) # new
    <3>1. Obj(g, j) = Obj(h, j) /\ Obj(g, i) = Obj(h, i)
      BY <2>4 DEF Recreates
    <3> QED
      BY <2>2, <3>1
  <2> QED
    BY <2>3, <2>4
<1>4. ASSUME NEW i \in 1..Span(h) PROVE Reaches(g, i, scene, lost)
  <2>1. Reaches(h, i, scene, lost)
    BY <1>4 DEF AllReach
  <2>2. CASE Obj(g, i) = new
    BY <2>2 DEF Reaches
  <2>3. CASE Obj(h, i) = old /\ Obj(g, i) = old /\ old \in lost
    BY <2>1, <2>3 DEF Reaches
  <2>4. CASE Obj(h, i) # old /\ Obj(g, i) = Obj(h, i)
    <3>1. ASSUME NEW j \in 1..i, Here(h) < j, CreatesAt(h, j, Obj(h, i))
          PROVE  Reaches(g, i, scene, lost)
      <4>1. j # Here(h) + 1
        BY <2>4, <3>1 DEF CreatesAt
      <4>2. Here(g) < j /\ j \in 1..Span(h)
        BY <1>1, <3>1, <4>1
      <4>3. CreatesAt(g, j, Obj(g, i))
        BY <2>4, <3>1, <4>2 DEF CreatesAt, Recreates
      <4> QED
        BY <2>1, <2>4, <4>2, <4>3 DEF Reaches
    <3> QED
      BY <2>1, <2>4, <3>1 DEF Reaches
  <2> QED
    BY <1>4, <2>2, <2>3, <2>4 DEF Recreates
<1> QED
  BY <1>2, <1>3, <1>4 DEF Objective, AllReach

-----------------------------------------------------------------------------
(* The invariant.                                                            *)

Live == session # None /\ history.gen = session

\* The engine has accepted the request of the item in work.
Answered == InFlight /\ run.reply # None /\ run.reply.st = "accepted"

\* The object that a request the engine has accepted deletes.
Leavers == {o \in Objects : Answered /\ Request(run).op = "delete" /\ Request(run).slot[1] = o}

\* A created object is new to the history; a changed one is there.
AnswerReaches ==
    /\ Request(run).op = "create" /\ run.reply.id # None =>
         /\ engine[<<run.reply.id, "object">>] = "alive"
         /\ \A i \in 1..Span(history) : Obj(history, i) # run.reply.id
    /\ Request(run).op = "set" => engine[<<Request(run).slot[1], "object">>] = "alive"

TargetInv ==
    /\ Objective(history)
    /\ Live => AllReach(history, engine, orphans \cup Leavers)
    /\ Live /\ Answered => AnswerReaches
    /\ run # None /\ run.kind = "edit" /\ run.op = "delete" => run.token = None

\* What a step that leaves nothing in flight, or something unanswered, has to show.
LEMMA TargetsRest ==
    ASSUME run' = None \/ run'.reply = None, Objective(history'),
           (session # None /\ history.gen = session)' => AllReach(history', engine', orphans'),
           (run # None /\ run.kind = "edit" /\ run.op = "delete" => run.token = None)'
    PROVE  TargetInv'
<1>1. ~Answered'
  BY DEF Answered, InFlight
<1>2. Leavers' = {}
  BY <1>1 DEF Leavers
<1>3. (orphans \cup Leavers)' = orphans'
  BY <1>2
<1> QED
  BY <1>1, <1>3 DEF TargetInv, Live

\* Without an accepted deletion every entry's object is there or lost.
LEMMA NothingLeaves ==
    ASSUME TargetInv, Live, ~(Answered /\ Request(run).op = "delete")
    PROVE  AllReach(history, engine, orphans)
<1>1. Leavers = {}
  BY DEF Leavers
<1>2. orphans \cup Leavers = orphans
  BY <1>1
<1> QED
  BY <1>2 DEF TargetInv

\* The end of an item: the history it leaves, or an empty one.
LEMMA FinishedTargets ==
    ASSUME NEW h, Finished(h), Objective(h),
           session # None /\ h.gen = session => AllReach(h, engine', orphans'), UNCHANGED session
    PROVE  TargetInv'
<1>1. run' = None /\ history' = IF h.gen = session THEN h ELSE EmptyHistory(session, h.rev + 1)
  BY DEF Finished, Synchronize
<1>2. Span(EmptyHistory(session, h.rev + 1)) = 0
  BY DEF EmptyHistory, Span, Here, Closed, Open, Undone, GroupEntries
<1>3. Objective(history') /\ ((session # None /\ history.gen = session)' => AllReach(history', engine', orphans'))
  <2>1. CASE h.gen = session
    BY <1>1, <2>1
  <2>2. CASE h.gen # session
    BY <1>1, <1>2, <2>2, NothingReaches
  <2> QED
    BY <2>1, <2>2
<1> QED
  BY <1>1, <1>3, TargetsRest


-----------------------------------------------------------------------------
(* Steps that leave the records where they are.                              *)

LEMMA SameStacksRecs ==
    ASSUME NEW h, NEW g, SameStacks(h, g)
    PROVE  SameRecs(h, g)
BY SameWalk DEF SameRecs

LEMMA SameRecsTrans ==
    ASSUME NEW h, NEW g, NEW k, SameRecs(h, g), SameRecs(g, k)
    PROVE  SameRecs(h, k)
BY DEF SameRecs

LEMMA CloseRecs ==
    ASSUME NEW h, NEW n, HistoryFits(h, n)
    PROVE  SameRecs(h, CloseActiveGroup(h)) /\ CloseActiveGroup(h) \in HistoryStates
<1>1. CASE h.group = None
  BY <1>1 DEF CloseActiveGroup, SameRecs, HistoryFits
<1>2. CASE h.group # None
  BY <1>2, CloseWalks DEF SameRecs
<1> QED
  BY <1>1, <1>2

LEMMA CloseUnlessRecs ==
    ASSUME NEW h, NEW n, HistoryFits(h, n), NEW token
    PROVE  SameRecs(h, CloseGroupUnless(h, token)) /\ CloseGroupUnless(h, token) \in HistoryStates
<1>1. SameRecs(h, h) /\ h \in HistoryStates
  BY DEF SameRecs, HistoryFits
<1> QED
  BY <1>1, CloseRecs DEF CloseGroupUnless

\* The history an item starts from.
LEMMA CurrentReaches ==
    ASSUME EditInv, TargetInv
    PROVE  /\ Objective(Current) /\ Current \in HistoryStates /\ HistoryFits(Current, seq)
           /\ session # None => AllReach(Current, engine, orphans \cup Leavers)
           /\ session # None /\ ~(Answered /\ Request(run).op = "delete")
                => AllReach(Current, engine, orphans)
<1>1. Current \in HistoryStates /\ HistoryFits(Current, seq)
  BY CurrentFits DEF HistoryFits
<1>2. CASE history.gen = session
  <2>1. Current = history
    BY <1>2, CurrentFits
  <2> QED
    BY <1>1, <1>2, <2>1, NothingLeaves DEF TargetInv, Live
<1>3. CASE history.gen # session
  <2>1. Current = EmptyHistory(session, history.rev + 1)
    BY <1>3 DEF Current, Synchronize
  <2>2. Span(Current) = 0
    BY <2>1 DEF EmptyHistory, Span, Here, Closed, Open, Undone, GroupEntries
  <2> QED
    BY <1>1, <2>2, NothingReaches
<1> QED
  BY <1>2, <1>3

\* An item begins or ends and the records stay; what it may have deleted is lost.
LEMMA ResumeTargets ==
    ASSUME EditInv, TargetInv, run' = None \/ run'.reply = None, SameRecs(Current, history'),
           orphans \subseteq orphans', Answered /\ Request(run).op = "delete" => Leavers \subseteq orphans',
           UNCHANGED <<session, engine>>,
           (run # None /\ run.kind = "edit" /\ run.op = "delete" => run.token = None)'
    PROVE  TargetInv'
<1>1. /\ Objective(Current) /\ Current \in HistoryStates
      /\ session # None => AllReach(Current, engine, orphans')
  <2>1. Leavers \subseteq orphans'
    BY DEF Leavers
  <2>2. (orphans \cup Leavers) \subseteq orphans'
    BY <2>1
  <2> QED
    BY <2>2, CurrentReaches, LostReaches
<1>2. Objective(history') /\ (session # None => AllReach(history', engine', orphans'))
  BY <1>1, SameReaches
<1> QED
  BY <1>2, TargetsRest

LEMMA FreeNothing ==
    ASSUME run = None
    PROVE  ~Answered
BY DEF Answered, InFlight

LEMMA InitTargets == Init => TargetInv
<1> SUFFICES ASSUME Init PROVE TargetInv
  OBVIOUS
<1>1. history = EmptyHistory(1, 0) /\ run = None
  BY DEF Init
<1>2. Span(history) = 0
  BY <1>1 DEF EmptyHistory, Span, Here, Closed, Open, Undone, GroupEntries
<1> QED
  BY <1>1, <1>2, NothingReaches, FreeNothing DEF TargetInv

LEMMA DisconnectTargets == TargetInv /\ Disconnect => TargetInv'
<1> SUFFICES ASSUME TargetInv, Disconnect PROVE TargetInv'
  OBVIOUS
<1>1. session' = None /\ history' = history /\ run' = run
  BY DEF Disconnect
<1> QED
  BY <1>1 DEF TargetInv, Live

LEMMA ConnectTargets == EditInv /\ CacheInv /\ TargetInv /\ Connect => TargetInv'
<1> SUFFICES ASSUME EditInv, CacheInv, TargetInv, Connect PROVE TargetInv'
  OBVIOUS
<1>1. session' = lastGen + 1 /\ UNCHANGED <<history, run>> /\ lastGen \in Nat
  BY EditAssumption DEF Connect, EditInv, RunIsOfHistory
<1>2. history.gen # None => history.gen \in Nat /\ history.gen <= lastGen
  BY EditAssumption DEF EditInv, HistoryFits, HistoryStates, CacheInv, CaptureInv, CaptureFits
<1>3. history.gen # session'
  BY <1>1, <1>2, EditAssumption
<1> QED
  BY <1>1, <1>3 DEF TargetInv, Live

LEMMA SessionChangedTargets == EditInv /\ TargetInv /\ SessionChanged => TargetInv'
<1> SUFFICES ASSUME EditInv, TargetInv, SessionChanged PROVE TargetInv'
  OBVIOUS
<1>1. /\ history.gen # session /\ history' = Current
      /\ run' = IF run # None /\ run.gen # session THEN None ELSE run
  BY DEF SessionChanged
<1>2. run' = None
  BY <1>1 DEF EditInv, RunIsOfHistory
<1>3. Current = EmptyHistory(session, history.rev + 1)
  BY <1>1 DEF Current, Synchronize
<1>4. Span(history') = 0
  BY <1>1, <1>3 DEF EmptyHistory, Span, Here, Closed, Open, Undone, GroupEntries
<1> QED
  BY <1>2, <1>4, NothingReaches, TargetsRest

LEMMA SameTargets ==
    ASSUME TargetInv, UNCHANGED <<session, engine, history, run, orphans>>
    PROVE  TargetInv'
BY DEF TargetInv, Live, Leavers, Answered, AnswerReaches, InFlight, Request

LEMMA EditRefusedTargets == EditInv /\ TargetInv /\ EditRefused => TargetInv'
<1> SUFFICES ASSUME EditInv, TargetInv, EditRefused PROVE TargetInv'
  OBVIOUS
<1>1. run = None /\ run' = None /\ UNCHANGED <<session, engine, orphans>>
  BY DEF EditRefused, Free, aux
<1>2. history' = Current \/ \E token : history' = Prepared(token)
  BY DEF EditRefused
<1>3. SameRecs(Current, Current) /\ \A token : SameRecs(Current, Prepared(token))
  BY CurrentFits, CloseUnlessRecs DEF Prepared, SameRecs
<1> QED
  BY <1>1, <1>2, <1>3, FreeNothing, ResumeTargets

LEMMA StartEditTargets ==
    ASSUME EditInv, TargetInv, NEW src, NEW op, NEW slot, NEW val, NEW old, NEW token,
           Accepted(token), StartEdit(src, op, slot, val, old, token), op = "delete" => token = None
    PROVE  TargetInv'
<1>1. run = None /\ history' = Prepared(token) /\ UNCHANGED <<session, engine, orphans>>
  BY DEF Accepted, Free, aux
<1>2. run'.reply = None /\ run'.op = op /\ run'.token = token
  BY DEF StartEdit
<1>3. SameRecs(Current, Prepared(token))
  BY CurrentFits, CloseUnlessRecs DEF Prepared
<1>4. (run # None /\ run.kind = "edit" /\ run.op = "delete" => run.token = None)'
  BY <1>2
<1> QED
  BY <1>1, <1>2, <1>3, <1>4, FreeNothing, ResumeTargets

LEMMA SetFromUiTargets ==
    ASSUME EditInv, TargetInv, NEW slot, NEW val, SetFromUi(slot, val)
    PROVE  TargetInv'
<1>1. \/ Free /\ history' = Prepared(None) /\ UNCHANGED <<session, engine, run, orphans>>
      \/ \E old : Accepted(None) /\ StartEdit("ui", "set", slot, val, old, None)
  BY DEF SetFromUi, aux
<1>2. CASE Free /\ history' = Prepared(None) /\ UNCHANGED <<session, engine, run, orphans>>
  <2>1. run = None /\ run' = None
    BY <1>2 DEF Free
  <2>2. SameRecs(Current, Prepared(None))
    BY CurrentFits, CloseUnlessRecs DEF Prepared
  <2> QED
    BY <1>2, <2>1, <2>2, FreeNothing, ResumeTargets
<1> QED
  BY <1>1, <1>2, StartEditTargets

LEMMA EditsTargets ==
    ASSUME EditInv, TargetInv,
           \/ \E slot \in Slots, val \in Values, token \in {None} \cup 1..MaxSequence :
                SetFromMcp(slot, val, token)
           \/ \E src \in {"ui", "mcp"}, token \in {None} \cup 1..MaxSequence : Create(src, token)
           \/ \E src \in {"ui", "mcp"}, o \in Objects : Delete(src, o)
           \/ \E src \in {"ui", "mcp"} : OtherEdit(src)
    PROVE  TargetInv'
<1>1. ASSUME NEW slot \in Slots, NEW val \in Values, NEW token, SetFromMcp(slot, val, token)
      PROVE  TargetInv'
  BY <1>1, StartEditTargets DEF SetFromMcp
<1>2. ASSUME NEW src, NEW token, Create(src, token) PROVE TargetInv'
  BY <1>2, StartEditTargets DEF Create
<1>3. ASSUME NEW src, NEW o, Delete(src, o) PROVE TargetInv'
  BY <1>3, StartEditTargets DEF Delete
<1>4. ASSUME NEW src, OtherEdit(src) PROVE TargetInv'
  BY <1>4, StartEditTargets DEF OtherEdit
<1> QED
  BY <1>1, <1>2, <1>3, <1>4

-----------------------------------------------------------------------------
(* The engine accepts or refuses a request.                                  *)

\* An engine that changed attributes alone, or created objects nobody mentions, or deleted.
LEMMA SceneReaches ==
    ASSUME NEW h, NEW scene, NEW next, NEW lost, NEW more, lost \subseteq more, AllReach(h, scene, lost),
           \A i \in 1..Span(h) : LET s == <<Obj(h, i), "object">>
                                 IN  \/ next[s] = scene[s]
                                     \/ scene[s] = "unborn"
                                     \/ next[s] = "gone" /\ Obj(h, i) \in more
    PROVE  AllReach(h, next, more)
<1> SUFFICES ASSUME NEW i \in 1..Span(h) PROVE Reaches(h, i, next, more)
  BY DEF AllReach
<1> DEFINE s == <<Obj(h, i), "object">>
<1>1. Reaches(h, i, scene, lost) /\ (next[s] = scene[s] \/ scene[s] = "unborn" \/ (next[s] = "gone" /\ Obj(h, i) \in more))
  BY DEF AllReach
<1> QED
  BY <1>1 DEF Reaches

LEMMA EngineAcceptsTargets == EditInv /\ CacheInv /\ TargetInv /\ EngineAccepts => TargetInv'
<1> SUFFICES ASSUME EditInv, CacheInv, TargetInv, EngineAccepts PROVE TargetInv'
  OBVIOUS
<1> DEFINE rq == Request(run)
<1>1. /\ InFlight /\ run.reply = None /\ run # None
      /\ UNCHANGED <<session, history, seq, orphans>>
  BY DEF EngineAccepts, InFlight, aux
<1>2. PICK reply \in Replies : run' = [run EXCEPT !.reply = reply] /\ reply.st = "accepted"
        /\ (rq.op = "create" /\ reply.id # None => engine[<<reply.id, "object">>] = "unborn"
              /\ engine' = [engine EXCEPT ![<<reply.id, "object">>] = "alive"])
  <2>1. CASE rq.op = "set"
    <3> DEFINE v == Clamp(rq.slot, rq.val)
               reply == [st |-> "accepted", id |-> None, val |-> v]
    <3>1. v \in Values
      BY <1>1, <2>1, RequestType
    <3>2. run' = [run EXCEPT !.reply = reply]
      BY <2>1 DEF EngineAccepts
    <3> HIDE DEF v
    <3>3. reply \in Replies /\ reply.st = "accepted"
      BY <3>1 DEF Replies, AnyValue, AnyObject
    <3> QED
      BY <2>1, <3>2, <3>3
  <2>2. CASE rq.op \in {"delete", "other"}
    <3> DEFINE reply == [st |-> "accepted", id |-> None, val |-> None]
    <3>1. run' = [run EXCEPT !.reply = reply]
      BY <2>2 DEF EngineAccepts
    <3>2. reply \in Replies /\ reply.st = "accepted"
      BY DEF Replies, AnyValue, AnyObject
    <3> QED
      BY <2>2, <3>1, <3>2
  <2>3. CASE rq.op = "create"
    <3>1. PICK o \in Objects, named \in BOOLEAN :
            /\ engine[<<o, "object">>] = "unborn"
            /\ engine' = [engine EXCEPT ![<<o, "object">>] = "alive"]
            /\ run' = [run EXCEPT !.reply = [st |-> "accepted", val |-> None,
                                             id |-> IF named THEN o ELSE None]]
      BY <2>3 DEF EngineAccepts
    <3> DEFINE id == IF named THEN o ELSE None
               reply == [st |-> "accepted", val |-> None, id |-> id]
    <3>2. id \in AnyObject /\ (id # None => id = o)
      BY DEF AnyObject
    <3>3. run' = [run EXCEPT !.reply = reply]
      BY <3>1
    <3> HIDE DEF id
    <3>4. reply \in Replies /\ reply.st = "accepted" /\ reply.id = id
      BY <3>2 DEF Replies, AnyValue
    <3> QED
      BY <3>1, <3>2, <3>3, <3>4
  <2> QED
    BY <2>1, <2>2, <2>3 DEF EngineAccepts
<1>3. /\ run'.reply = reply /\ InFlight' /\ run' # None /\ Request(run)' = rq /\ run'.kind = run.kind
      /\ reply # None /\ Answered'
  BY <1>1, <1>2, ReplyLeaves DEF CacheInv, Answered
<1>4. run'.kind = "edit" => run'.op = run.op /\ run'.token = run.token
  <2> SUFFICES ASSUME run.kind = "edit" PROVE run'.op = run.op /\ run'.token = run.token
    BY <1>3
  <2>1. run \in EditRuns
    BY <1>1 DEF EditInv, EditRunFits
  <2> QED
    BY <1>2, <2>1 DEF EditRuns
<1>5. DOMAIN engine = AllSlots /\ engine \in [AllSlots -> Values \cup {"unborn", "alive", "gone"}]
  BY DEF EditInv, SceneFits
<1>6. CASE ~Live
  BY <1>1, <1>3, <1>4, <1>6 DEF TargetInv, Live
<1>7. CASE Live
  <2>0. AllReach(history, engine, orphans)
    <3>1. ~Answered
      BY <1>1 DEF Answered
    <3> QED
      BY <1>7, <3>1, NothingLeaves
  <2>1. \A i \in 1..Span(history) : Obj(history, i) \in Objects
    BY DEF TargetInv, Objective, RecordsFit, Record, Obj, Slots
  <2>2. \A i \in 1..Span(history) : engine[<<Obj(history, i), "object">>] # "unborn"
    BY <2>0 DEF AllReach, Reaches
  <2> DEFINE more == (orphans \cup Leavers)'
  <2>3. orphans \subseteq more
    BY <1>1
  <2>4. AllReach(history, engine', more) /\ AnswerReaches'
    <3>1. CASE rq.op = "set"
      <4> DEFINE v == Clamp(rq.slot, rq.val)
      <4>1. engine' = [engine EXCEPT ![rq.slot] = v] /\ engine[<<rq.slot[1], "object">>] = "alive"
        BY <3>1 DEF EngineAccepts, Alive
      <4> HIDE DEF v, more
      <4>2. \A o : engine'[<<o, "object">>] = engine[<<o, "object">>] \/ <<o, "object">> \notin AllSlots
        <5> TAKE o
        <5>1. rq.slot # <<o, "object">>
          BY <1>1, <3>1, SetIsOfSlot
        <5> DEFINE s == <<o, "object">>
        <5>2. s # rq.slot
          BY <5>1
        <5> HIDE DEF s
        <5>3. engine'[s] = engine[s] \/ s \notin AllSlots
          BY <1>5, <4>1, <5>2
        <5> QED
          BY <5>3 DEF s
      <4>3. \A o \in Objects : engine'[<<o, "object">>] = engine[<<o, "object">>]
        BY <4>2 DEF AllSlots
      <4>4. AllReach(history, engine', more)
        BY <2>0, <2>1, <2>3, <4>3, SceneReaches
      <4>5. <<rq.slot[1], "object">> \in AllSlots
        <5>1. rq.slot[1] \in Objects
          <6>1. CASE run.kind = "edit"
            <7>1. run.op = "set" /\ rq.slot = run.slot
              BY <3>1, <6>1 DEF Request
            <7> QED
              BY <1>1, <6>1, <7>1 DEF EditInv, EditRunFits, Slots
          <6>2. CASE run.kind = "history"
            <7>1. rq.slot = run.step.rec.slot
              BY <6>2 DEF Request
            <7>2. /\ Stack(history, run.plan.dir) # <<>> /\ run.step = Top(Stack(history, run.plan.dir))
                  /\ run.plan.dir \in Directions /\ history \in HistoryStates /\ history.group = None
              BY <1>1, <6>2, StepFacts, WorkFacts DEF InFlight
            <7>3. PICK i \in 1..Span(history) : At(history, i) = run.step
              BY <7>2, TopWalks
            <7> QED
              BY <2>1, <7>1, <7>3 DEF Obj
          <6> QED
            BY <1>1, <6>1, <6>2 DEF EditInv, RunIsOfHistory
        <5> QED
          BY <5>1 DEF AllSlots
      <4>6. engine'[<<rq.slot[1], "object">>] = "alive"
        BY <4>1, <4>2, <4>5
      <4> QED
        BY <1>3, <3>1, <4>4, <4>6 DEF AnswerReaches
    <3>2. CASE rq.op = "delete"
      <4> DEFINE o == rq.slot[1]
                 s == <<o, "object">>
      <4>1. engine' = [engine EXCEPT ![s] = "gone"]
        BY <3>2 DEF EngineAccepts
      <4>2. \A q \in Objects : q = o => q \in more
        BY <1>3, <3>2 DEF Leavers
      <4> HIDE DEF more
      <4>3. ASSUME NEW i \in 1..Span(history)
            PROVE  LET t == <<Obj(history, i), "object">>
                   IN  \/ engine'[t] = engine[t] \/ engine[t] = "unborn"
                       \/ engine'[t] = "gone" /\ Obj(history, i) \in more
        <5> DEFINE t == <<Obj(history, i), "object">>
        <5>1. t \in AllSlots
          BY <2>1 DEF AllSlots
        <5>2. t = s => Obj(history, i) \in more
          BY <2>1, <4>2
        <5> HIDE DEF t, s
        <5>3. engine'[t] = engine[t] \/ (t = s /\ engine'[t] = "gone")
          BY <1>5, <4>1, <5>1
        <5> QED
          BY <5>2, <5>3 DEF t
      <4>4. AllReach(history, engine', more)
        BY <2>0, <2>3, <4>3, SceneReaches
      <4> QED
        BY <1>3, <3>2, <4>4 DEF AnswerReaches
    <3>3. CASE rq.op = "create"
      <4>1. PICK o \in Objects : /\ engine[<<o, "object">>] = "unborn"
                                 /\ engine' = [engine EXCEPT ![<<o, "object">>] = "alive"]
        BY <3>3 DEF EngineAccepts
      <4> DEFINE s == <<o, "object">>
      <4>2. \A q \in Objects : engine'[<<q, "object">>] = engine[<<q, "object">>]
                                 \/ engine[<<q, "object">>] = "unborn"
        <5> TAKE q \in Objects
        <5> DEFINE t == <<q, "object">>
        <5>1. t \in AllSlots /\ engine[s] = "unborn" /\ engine' = [engine EXCEPT ![s] = "alive"]
          BY <4>1 DEF AllSlots
        <5> HIDE DEF t, s
        <5>2. engine'[t] = engine[t] \/ engine[t] = "unborn"
          BY <1>5, <5>1
        <5> QED
          BY <5>2 DEF t
      <4> HIDE DEF more
      <4>3. AllReach(history, engine', more)
        BY <2>0, <2>1, <2>3, <4>2, SceneReaches
      <4>4. ASSUME reply.id # None
            PROVE  /\ engine'[<<reply.id, "object">>] = "alive"
                   /\ \A i \in 1..Span(history) : Obj(history, i) # reply.id
        <5> DEFINE t == <<reply.id, "object">>
        <5>1. engine[t] = "unborn" /\ engine' = [engine EXCEPT ![t] = "alive"]
          BY <1>2, <3>3, <4>4
        <5>2. t \in AllSlots
          BY <4>4 DEF Replies, AnyObject, AllSlots
        <5>3. engine'[t] = "alive"
          <6> HIDE DEF t
          <6> QED
            BY <1>5, <5>1, <5>2
        <5> QED
          BY <2>2, <5>1, <5>3
      <4> QED
        BY <1>1, <1>3, <3>3, <4>3, <4>4 DEF AnswerReaches
    <3>4. CASE rq.op = "other"
      <4>1. engine' = engine
        BY <3>4 DEF EngineAccepts
      <4> HIDE DEF more
      <4>2. AllReach(history, engine', more)
        BY <2>0, <2>3, <4>1, LostReaches
      <4> QED
        BY <1>3, <3>4, <4>2 DEF AnswerReaches
    <3> QED
      BY <3>1, <3>2, <3>3, <3>4 DEF EngineAccepts
  <2> HIDE DEF more
  <2>5. AllReach(history', engine', (orphans \cup Leavers)')
    BY <1>1, <2>4 DEF more
  <2> QED
    BY <1>1, <1>3, <1>4, <2>4, <2>5 DEF TargetInv
<1> QED
  BY <1>6, <1>7

LEMMA EngineRefusesTargets == EditInv /\ CacheInv /\ TargetInv /\ EngineRefuses => TargetInv'
<1> SUFFICES ASSUME EditInv, CacheInv, TargetInv, EngineRefuses PROVE TargetInv'
  OBVIOUS
<1>1. InFlight /\ run.reply = None /\ run # None /\ UNCHANGED <<session, engine, history, seq, orphans>>
  BY DEF EngineRefuses, InFlight, aux
<1>2. PICK reply \in Replies : run' = [run EXCEPT !.reply = reply] /\ reply.st # "accepted"
  <2>1. PICK st \in {"refused", "error", "unsupported"} :
          run' = [run EXCEPT !.reply = [st |-> st, id |-> None, val |-> None]]
    BY DEF EngineRefuses
  <2> DEFINE reply == [st |-> st, id |-> None, val |-> None]
  <2>2. reply \in Replies /\ reply.st # "accepted"
    BY DEF Replies, AnyObject, AnyValue
  <2> QED
    BY <2>1, <2>2
<1>3. run'.reply = reply /\ run' # None /\ run'.kind = run.kind
  BY <1>1, <1>2, ReplyLeaves DEF CacheInv
<1>4. run'.kind = "edit" => run'.op = run.op /\ run'.token = run.token
  <2> SUFFICES ASSUME run.kind = "edit" PROVE run'.op = run.op /\ run'.token = run.token
    BY <1>3
  <2>1. run \in EditRuns
    BY <1>1 DEF EditInv, EditRunFits
  <2> QED
    BY <1>2, <2>1 DEF EditRuns
<1>5. ~Answered' /\ ~Answered
  BY <1>1, <1>2, <1>3 DEF Answered
<1>6. Leavers' = {} /\ Leavers = {}
  BY <1>5 DEF Leavers
<1>7. (orphans \cup Leavers)' = orphans \cup Leavers
  BY <1>1, <1>6
<1> QED
  BY <1>1, <1>3, <1>4, <1>5, <1>7 DEF TargetInv, Live


-----------------------------------------------------------------------------
(* The end of an edit.                                                       *)

\* A record of an object that is there.
LEMMA PushRecordReaches ==
    ASSUME NEW h, NEW n \in Nat, HistoryFits(h, n), NEW edit, EditFits(h, edit, n), GroupKeys(h),
           NEW rec \in AnyRecord, rec \in Record, Objective(h), NEW scene, NEW lost,
           AllReach(h, scene, lost), scene[<<rec.slot[1], "object">>] = "alive",
           IsCreate(rec) => \A i \in 1..Span(h) : Obj(h, i) # rec.slot[1]
    PROVE  Objective(PushRecord(h, edit, rec)) /\ AllReach(PushRecord(h, edit, rec), scene, lost)
<1> DEFINE g == PushRecord(h, edit, rec)
<1>1. PICK e \in AnyEntry : Pushed(h, edit, rec, n, e)
  BY PushRecordForms
<1>2. g \in HistoryStates /\ h \in HistoryStates /\ e.rec = rec
  BY <1>1, PushRecordFits DEF HistoryFits, Pushed
<1>3. CASE h.group = None
  <2>1. g = [h EXCEPT !.undo = Append(h.undo, e), !.redo = <<>>]
    BY <1>1, <1>3 DEF Pushed
  <2>2. g.undo = Append(h.undo, e) /\ g.redo = <<>> /\ g.group = None
    <3> DEFINE u == Append(h.undo, e)
    <3> HIDE DEF g, u
    <3>1. g = [h EXCEPT !.undo = u, !.redo = <<>>]
      BY <2>1 DEF u
    <3>2. g.undo = u /\ g.redo = <<>> /\ g.group = None
      BY <1>2, <1>3, <3>1 DEF HistoryStates
    <3> QED
      BY <3>2 DEF u
  <2> HIDE DEF g
  <2>3. PushesAt(h, g, e)
    BY <1>2, <1>3, <2>2, PushAloneWalks
  <2>4. Objective(g) /\ AllReach(g, scene, lost)
    BY <1>2, <2>3, PushReaches
  <2> QED
    BY <2>4 DEF g
<1>4. CASE h.group # None
  <2> DEFINE into == Into(h, e)
  <2>1. /\ HistoryFits(into, n)
        /\ g = IF Len(h.group.entries) + 1 >= MaxGroupEdits THEN CloseActiveGroup(into) ELSE into
    BY <1>1, <1>4 DEF Pushed
  <2>2. /\ into.undo = h.undo /\ into.redo = IF h.group.entries = <<>> THEN <<>> ELSE h.redo
        /\ into.group = [token |-> h.group.token, entries |-> Append(h.group.entries, e)]
        /\ into \in HistoryStates
    <3>1. into \in HistoryStates
      BY <2>1 DEF HistoryFits
    <3> QED
      BY <1>2, <3>1 DEF Into, HistoryStates
  <2> HIDE DEF into, g
  <2>3. into.redo = <<>>
    <3>1. CASE h.group.entries = <<>>
      BY <2>2, <3>1
    <3>2. CASE h.group.entries # <<>>
      <4>1. h.group.entries \in Seq(AnyEntry) /\ h.redo \in Seq(AnyEntry)
        BY <1>2, <1>4 DEF HistoryStates
      <4>2. Open(h) # 0
        <5>1. Len(h.group.entries) # 0
          BY <3>2, <4>1
        <5> QED
          BY <1>4, <5>1 DEF Open, GroupEntries
      <4>3. Len(h.redo) = 0
        BY <1>4, <4>2 DEF GroupKeys, Undone
      <4>4. h.redo = <<>>
        BY <4>1, <4>3
      <4> QED
        BY <2>2, <4>4
    <3> QED
      BY <3>1, <3>2
  <2>4. into.group # None
    <3> DEFINE entries == Append(h.group.entries, e)
    <3>1. h.group \in [token : 1..MaxSequence, entries : Seq(AnyEntry)]
      BY <1>2, <1>4 DEF HistoryStates
    <3>2. entries \in Seq(AnyEntry)
      BY <3>1
    <3> HIDE DEF entries
    <3>3. [token |-> h.group.token, entries |-> entries] \in [token : 1..MaxSequence, entries : Seq(AnyEntry)]
      BY <3>1, <3>2
    <3> QED
      BY <2>2, <3>3, NoneAssumption DEF entries
  <2>5. into.group.entries = Append(h.group.entries, e)
    BY <2>2
  <2>6. PushesAt(h, into, e)
    BY <1>2, <1>4, <2>2, <2>3, <2>4, <2>5, PushGroupedWalks
  <2>7. Objective(into) /\ AllReach(into, scene, lost)
    BY <1>2, <2>2, <2>6, PushReaches
  <2>8. g = into \/ g = CloseActiveGroup(into)
    BY <2>1
  <2>9. Objective(g) /\ AllReach(g, scene, lost)
    BY <2>1, <2>2, <2>7, <2>8, CloseRecs, SameReaches
  <2> QED
    BY <2>9 DEF g
<1> QED
  BY <1>3, <1>4

LEMMA EditAnsweredTargets == EditInv /\ CacheInv /\ GroupInv /\ TargetInv /\ EditAnswered => TargetInv'
<1> SUFFICES ASSUME EditInv, CacheInv, GroupInv, TargetInv, EditAnswered PROVE TargetInv'
  OBVIOUS
<1>1. /\ run # None /\ run.kind = "edit" /\ run.reply # None /\ run' = None /\ InFlight
      /\ history' = IF session # run.gen THEN Current
                    ELSE IF run.reply.st = "accepted" THEN RecordSuccess(Current, run, run.reply)
                    ELSE IF run.reply.st = "unsupported" /\ StructureEdit
                      THEN MarkEditUnsupported(CloseIfGrouped(Current))
                    ELSE CloseIfGrouped(Current)
      /\ UNCHANGED <<session, engine, orphans>>
  BY DEF EditAnswered, InFlight
<1>2. /\ run \in EditRuns /\ EditFits(history, run, seq) /\ run.gen = history.gen
      /\ HistoryFits(history, seq) /\ seq \in Nat /\ run.reply \in Replies /\ history \in HistoryStates
  BY <1>1, EditFacts DEF EditRuns, HistoryFits
<1>3. CASE session # run.gen
  <2>1. Span(history') = 0
    <3>1. history' = EmptyHistory(session, history.rev + 1)
      BY <1>1, <1>2, <1>3 DEF Current, Synchronize
    <3> QED
      BY <3>1 DEF EmptyHistory, Span, Here, Closed, Open, Undone, GroupEntries
  <2> QED
    BY <1>1, <2>1, NothingReaches, TargetsRest
<1>4. CASE session = run.gen /\ run.reply.st # "accepted"
  <2> DEFINE c == CloseIfGrouped(history)
  <2>1. Current = history /\ ~Answered
    BY <1>1, <1>2, <1>4, CurrentFits DEF Answered
  <2>2. SameRecs(history, c) /\ c \in HistoryStates
    BY <1>2, CloseRecs DEF CloseIfGrouped, SameRecs
  <2>3. history' = c \/ history' = MarkEditUnsupported(c)
    BY <1>1, <1>4, <2>1
  <2> HIDE DEF c
  <2>4. SameStacks(c, MarkEditUnsupported(c))
    BY <2>2 DEF MarkEditUnsupported, Bump, HistoryStates, SameStacks
  <2>5. SameRecs(Current, history')
    BY <2>1, <2>2, <2>3, <2>4, SameStacksRecs, SameRecsTrans
  <2> QED
    BY <1>1, <2>1, <2>5, ResumeTargets
<1>5. CASE session = run.gen /\ run.reply.st = "accepted"
  <2>1. Current = history /\ Answered /\ Live
    <3>1. session # None
      BY <1>2, <1>5, NoneAssumption, EditAssumption DEF EditRuns
    <3> QED
      BY <1>1, <1>2, <1>5, <3>1, CurrentFits DEF Answered, Live
  <2>2. run.op = "set" => run.slot \in Slots /\ run.reply.val \in Values
    BY <1>1, <1>5 DEF EditInv, EditRunFits
  <2>3. Request(run).op = run.op /\ Request(run).slot = run.slot
    BY <1>1 DEF Request
  <2>4. Objective(history) /\ AnswerReaches
    BY <2>1 DEF TargetInv
  <2> DEFINE r == RecordSuccess(history, run, run.reply)
  <2>5. history' = r
    BY <1>1, <1>5, <2>1
  <2>6. \/ /\ run.op = "delete" /\ r \in HistoryStates /\ r.undo = <<>> /\ r.redo = <<>>
           /\ r.group = history.group /\ r.pending = history.pending
        \/ \E g : /\ Renewed(history, g)
                  /\ \/ r = g /\ ~(\E rec : Recorded(history, run, rec, run.reply)) /\ run.op # "delete"
                     \/ \E rec \in AnyRecord : r = PushRecord(g, run, rec) /\ Recorded(history, run, rec, run.reply)
    <3> HIDE DEF r
    <3> QED
      BY <1>2, <2>2, RecordSuccessForms DEF r
  <2> HIDE DEF r
  <2>7. Objective(r) /\ AllReach(r, engine, orphans)
    <3>1. CASE /\ run.op = "delete" /\ r \in HistoryStates /\ r.undo = <<>> /\ r.redo = <<>>
               /\ r.group = history.group
      <4>1. run.token = None
        BY <1>1, <3>1 DEF TargetInv
      <4>2. history.group = None
        <5> SUFFICES ASSUME history.group # None PROVE FALSE
          OBVIOUS
        <5>1. history.group \in [token : 1..MaxSequence, entries : Seq(AnyEntry)] /\ None = history.group.token
          BY <1>2, <4>1 DEF HistoryStates, EditFits
        <5>2. None \in Nat
          BY <5>1
        <5> QED
          BY <5>2, EditAssumption
      <4>3. Span(r) = 0
        BY <3>1, <4>2 DEF Span, Here, Closed, Open, Undone, GroupEntries
      <4> QED
        BY <4>3, NothingReaches
    <3>2. ASSUME NEW g, Renewed(history, g), run.op # "delete"
          PROVE  /\ Objective(g) /\ AllReach(g, engine, orphans)
                 /\ \A i \in 1..Span(history) : Obj(g, i) = Obj(history, i)
                 /\ Span(g) = Span(history)
      <4>1. AllReach(history, engine, orphans)
        BY <2>1, <2>3, <3>2, NothingLeaves
      <4>2. SameRecs(history, g)
        BY <3>2, SameStacksRecs DEF Renewed
      <4> QED
        BY <1>2, <2>4, <4>1, <4>2, SameReaches DEF SameRecs
    <3>3. ASSUME NEW g, Renewed(history, g), r = g, run.op # "delete"
          PROVE  Objective(r) /\ AllReach(r, engine, orphans)
      BY <3>2, <3>3
    <3>4. ASSUME NEW g, Renewed(history, g), NEW rec \in AnyRecord, r = PushRecord(g, run, rec),
                 Recorded(history, run, rec, run.reply)
          PROVE  Objective(r) /\ AllReach(r, engine, orphans)
      <4>1. run.op # "delete"
        BY <3>4 DEF Recorded
      <4>2. /\ Objective(g) /\ AllReach(g, engine, orphans)
            /\ \A i \in 1..Span(g) : Obj(g, i) = Obj(history, i)
            /\ Span(g) = Span(history)
        BY <3>2, <3>4, <4>1
      <4>3. HistoryFits(g, seq) /\ EditFits(g, run, seq) /\ GroupKeys(g)
        <5>1. HistoryFits(g, seq) /\ EditFits(g, run, seq)
          BY <1>2, <3>4 DEF Renewed, EditFits, SameStacks
        <5>2. Tidy(history, None) /\ SameStacks(history, g)
          BY <1>1, <3>4, EditHolds DEF Renewed
        <5>3. Tidy(g, None)
          BY <5>2, SameTidy
        <5> QED
          BY <5>1, <5>3 DEF Tidy, WalkFits
      <4>4. /\ rec \in Record /\ engine[<<rec.slot[1], "object">>] = "alive"
            /\ IsCreate(rec) => \A i \in 1..Span(g) : Obj(g, i) # rec.slot[1]
        <5>1. CASE /\ run.op = "set" /\ run.old \notin {None, run.reply.val}
                   /\ rec = [slot |-> run.slot, old |-> run.old, new |-> run.reply.val]
          <6>1. run.old \in Values /\ run.slot \in Slots /\ run.reply.val \in Values
            BY <1>2, <2>2, <5>1 DEF EditRuns, AnyValue
          <6>2. rec \in Record /\ rec.slot = run.slot
            BY <5>1, <6>1 DEF Record
          <6>3. ~IsCreate(rec)
            BY <6>1, <6>2, EditAssumption DEF IsCreate, Slots
          <6>4. engine[<<run.slot[1], "object">>] = "alive"
            BY <2>3, <2>4, <5>1 DEF AnswerReaches
          <6> QED
            BY <6>2, <6>3, <6>4
        <5>2. CASE /\ run.op = "create" /\ run.reply.id # None
                   /\ rec = [slot |-> <<run.reply.id, "object">>, old |-> "gone", new |-> "alive"]
          <6>1. run.reply.id \in Objects
            BY <1>2, <5>2 DEF Replies, AnyObject
          <6>2. rec \in Record /\ rec.slot[1] = run.reply.id
            BY <5>2, <6>1 DEF Record
          <6>3. /\ engine[<<run.reply.id, "object">>] = "alive"
                /\ \A i \in 1..Span(history) : Obj(history, i) # run.reply.id
            BY <2>3, <2>4, <5>2 DEF AnswerReaches
          <6> QED
            BY <4>2, <6>2, <6>3
        <5> QED
          BY <3>4, <5>1, <5>2 DEF Recorded
      <4>5. Objective(PushRecord(g, run, rec)) /\ AllReach(PushRecord(g, run, rec), engine, orphans)
        BY <1>2, <4>2, <4>3, <4>4, PushRecordReaches
      <4> QED
        BY <3>4, <4>5
    <3> QED
      BY <2>6, <3>1, <3>3, <3>4
  <2>8. Objective(history') /\ ((session # None /\ history.gen = session)' => AllReach(history', engine', orphans'))
    BY <1>1, <2>5, <2>7
  <2> QED
    BY <1>1, <2>8, TargetsRest
<1> QED
  BY <1>3, <1>4, <1>5

LEMMA EditUnansweredTargets == EditInv /\ TargetInv /\ EditUnanswered => TargetInv'
<1> SUFFICES ASSUME EditInv, TargetInv, EditUnanswered PROVE TargetInv'
  OBVIOUS
<1> DEFINE c == CloseIfGrouped(Current)
           m == MarkMcpOutcomeUnknown(c, run.seq)
<1>1. /\ run # None /\ run.kind = "edit" /\ run' = None
      /\ history' = Current \/ history' = c \/ history' = m
      /\ orphans' = IF run.op = "delete" THEN orphans \cup {run.slot[1]} ELSE orphans
      /\ UNCHANGED <<session, engine>>
  BY DEF EditUnanswered, InFlight
<1>2. SameRecs(Current, Current) /\ SameRecs(Current, c) /\ c \in HistoryStates
  BY CurrentFits, CloseRecs DEF CloseIfGrouped, SameRecs, HistoryFits
<1>3. SameRecs(Current, m)
  <2> HIDE DEF c
  <2>1. SameStacks(c, m)
    BY <1>2 DEF MarkMcpOutcomeUnknown, Bump, HistoryStates, SameStacks
  <2> QED
    BY <1>2, <2>1, SameStacksRecs, SameRecsTrans
<1>4. Request(run).op = run.op /\ Request(run).slot = run.slot
  BY <1>1 DEF Request
<1>5. Answered /\ Request(run).op = "delete" => Leavers \subseteq orphans'
  BY <1>1, <1>4 DEF Leavers
<1> HIDE DEF c, m
<1> QED
  BY <1>1, <1>2, <1>3, <1>5, ResumeTargets

-----------------------------------------------------------------------------
(* Controls, and undo and redo but for the answers to their steps.           *)

LEMMA BeginTargets == EditInv /\ TargetInv /\ Begin => TargetInv'
<1> SUFFICES ASSUME EditInv, TargetInv, Begin PROVE TargetInv'
  OBVIOUS
<1>1. /\ run = None /\ run' = None /\ UNCHANGED <<session, engine, orphans>>
      /\ seq \in 1..MaxSequence
      /\ history' = IF Current.pending # None THEN Current ELSE BeginGroup(Current, seq)
  BY EditAssumption DEF Begin, Free, aux, EditInv
<1>2. HistoryFits(Current, seq) /\ seq \in Nat
  BY CurrentFits
<1>3. CASE Current.pending # None
  <2>1. SameRecs(Current, history')
    BY <1>1, <1>3 DEF SameRecs
  <2> QED
    BY <1>1, <2>1, FreeNothing, ResumeTargets
<1>4. CASE Current.pending = None
  <2> DEFINE c == CloseActiveGroup(Current)
             g == BeginGroup(Current, seq)
  <2>1. c \in HistoryStates /\ c.group = None /\ SameRecs(Current, c)
    BY <1>2, CloseFollows, CloseRecs
  <2>2. g \in HistoryStates
    BY <1>1, <1>2, <1>4, BeginGroupFollows DEF Follows, HistoryFits
  <2>3. g.undo = c.undo /\ g.redo = c.redo /\ g.group = [token |-> seq, entries |-> <<>>]
    <3> DEFINE open == [token |-> seq, entries |-> <<>>]
               k == [c EXCEPT !.group = open]
    <3>1. g = Bump(k)
      BY DEF BeginGroup
    <3>2. open \in [token : 1..MaxSequence, entries : Seq(AnyEntry)]
      BY <1>1
    <3> HIDE DEF g, c, open
    <3>3. k \in HistoryStates /\ k.undo = c.undo /\ k.redo = c.redo /\ k.group = open
      BY <2>1, <3>2 DEF HistoryStates
    <3> HIDE DEF k
    <3>4. g.undo = k.undo /\ g.redo = k.redo /\ g.group = k.group
      BY <3>1, <3>3 DEF Bump, HistoryStates
    <3> QED
      BY <3>3, <3>4 DEF open
  <2>4. g.group # None /\ g.group.entries = <<>>
    <3> DEFINE open == [token |-> seq, entries |-> <<>>]
    <3>1. open \in [token : 1..MaxSequence, entries : Seq(AnyEntry)] /\ open.entries = <<>>
      BY <1>1
    <3>2. g.group = open
      BY <2>3
    <3> HIDE DEF g, open
    <3>3. open # None
      BY <3>1, NoneAssumption
    <3> QED
      BY <3>1, <3>2, <3>3
  <2>5. history' = g
    BY <1>1, <1>4
  <2> HIDE DEF g, c
  <2>6. SameRecs(c, g)
    BY <2>1, <2>2, <2>3, <2>4, OpenWalks DEF SameRecs
  <2>7. SameRecs(Current, history')
    BY <2>1, <2>5, <2>6, SameRecsTrans
  <2> QED
    BY <1>1, <2>7, FreeNothing, ResumeTargets
<1> QED
  BY <1>3, <1>4

\* Closing the active group while an item may be in flight.
LEMMA CloseTargets ==
    ASSUME EditInv, TargetInv, history' = CloseActiveGroup(history),
           UNCHANGED <<session, engine, run, orphans>>
    PROVE  TargetInv'
<1>1. SameRecs(history, history') /\ history \in HistoryStates /\ history'.gen = history.gen
  BY CloseRecs, CloseFollows DEF EditInv, HistoryFits, Follows
<1>2. /\ Objective(history') /\ Span(history') = Span(history)
      /\ \A i \in 1..Span(history) : Obj(history', i) = Obj(history, i)
      /\ \A scene, lost : AllReach(history, scene, lost) => AllReach(history', scene, lost)
  BY <1>1, SameReaches DEF TargetInv, SameRecs
<1>3. Leavers' = Leavers /\ (Answered' <=> Answered) /\ (Live' <=> Live)
  BY <1>1 DEF Leavers, Answered, InFlight, Request, Live
<1>4. AnswerReaches => AnswerReaches'
  BY <1>2 DEF AnswerReaches, Request
<1>5. (orphans \cup Leavers)' = orphans \cup Leavers
  BY <1>3
<1> QED
  BY <1>2, <1>3, <1>4, <1>5 DEF TargetInv

LEMMA AuthRevokedTargets == EditInv /\ TargetInv /\ AuthRevoked => TargetInv'
<1> SUFFICES ASSUME EditInv, TargetInv, AuthRevoked PROVE TargetInv'
  OBVIOUS
<1>1. /\ history' = CloseActiveGroup(history) /\ UNCHANGED <<session, engine, orphans>>
      /\ run' = run \/ (run # None /\ run.kind = "history" /\ run' = [run EXCEPT !.revoked = TRUE])
  BY DEF AuthRevoked, aux
<1>2. CASE run' = run
  BY <1>1, <1>2, CloseTargets
<1>3. CASE run # None /\ run.kind = "history" /\ run' = [run EXCEPT !.revoked = TRUE]
  <2>1. run \in HistoryRuns /\ history.group = None
    BY <1>3, WorkFacts
  <2>2. history' = history
    BY <1>1, <2>1 DEF CloseActiveGroup
  <2>3. /\ run' \in HistoryRuns /\ run'.kind = "history" /\ run'.step = run.step
        /\ run'.plan = run.plan /\ run'.reply = run.reply
    BY <1>3, <2>1 DEF HistoryRuns
  <2>4. run' # None
    BY <2>3, NoneAssumption
  <2>5. Request(run)' = Request(run) /\ (Answered' <=> Answered)
    BY <1>3, <2>3, <2>4 DEF Request, Answered, InFlight
  <2>6. Leavers' = Leavers
    BY <2>5 DEF Leavers
  <2>7. (orphans \cup Leavers)' = orphans \cup Leavers
    BY <1>1, <2>6
  <2>8. AnswerReaches => AnswerReaches'
    BY <1>1, <2>2, <2>3, <2>5 DEF AnswerReaches
  <2> QED
    BY <1>1, <2>2, <2>3, <2>5, <2>7, <2>8 DEF TargetInv, Live
<1> QED
  BY <1>1, <1>2, <1>3

LEMMA StartHistoryTargets ==
    ASSUME NEW src, NEW dir, NEW at, NEW shown, EditInv, TargetInv, StartHistory(src, dir, at, shown)
    PROVE  TargetInv'
<1> DEFINE closed == CloseActiveGroup(Current)
<1>1. /\ run = None /\ UNCHANGED <<session, engine, orphans>>
      /\ history' = Current \/ history' = closed
      /\ run' = run \/ \E plan : run' = Work(src, plan, 0, FALSE, shown)
  BY DEF StartHistory, Free, aux
<1>2. SameRecs(Current, history')
  BY <1>1, CurrentFits, CloseRecs DEF SameRecs
<1>3. \A plan : Work(src, plan, 0, FALSE, shown).reply = None /\ Work(src, plan, 0, FALSE, shown).kind = "history"
  BY DEF Work
<1> QED
  BY <1>1, <1>2, <1>3, FreeNothing, ResumeTargets

LEMMA StartRetryTargets == EditInv /\ TargetInv /\ StartRetry => TargetInv'
<1> SUFFICES ASSUME EditInv, TargetInv, StartRetry PROVE TargetInv'
  OBVIOUS
<1>1. /\ run = None /\ UNCHANGED <<session, engine, orphans>> /\ history' = Current
      /\ \E plan, done, shown : run' = Work("ui", plan, done, TRUE, shown)
  BY DEF StartRetry, Free, aux
<1>2. SameRecs(Current, history')
  BY <1>1 DEF SameRecs
<1>3. run'.reply = None /\ run'.kind = "history"
  BY <1>1 DEF Work
<1> QED
  BY <1>1, <1>2, <1>3, FreeNothing, ResumeTargets

\* An undo or redo stops where it is; a deletion nobody heard of loses its object.
LEMMA HaltTargets ==
    ASSUME EditInv, TargetInv, run # None, run.kind = "history", NEW g, SameRecs(history, g), g.gen = history.gen,
           Finished(g), UNCHANGED <<session, engine>>,
           orphans \subseteq orphans', Answered /\ Request(run).op = "delete" => Leavers \subseteq orphans'
    PROVE  TargetInv'
<1>1. history \in HistoryStates
  BY DEF EditInv, HistoryFits
<1>2. Objective(g)
  BY <1>1, SameReaches DEF TargetInv
<1>3. session # None /\ g.gen = session => AllReach(g, engine', orphans')
  <2> SUFFICES ASSUME session # None, g.gen = session PROVE AllReach(g, engine', orphans')
    OBVIOUS
  <2>1. AllReach(history, engine, orphans \cup Leavers)
    BY DEF TargetInv, Live
  <2>2. Leavers \subseteq orphans'
    BY DEF Leavers
  <2>3. (orphans \cup Leavers) \subseteq orphans'
    BY <2>2
  <2>4. AllReach(history, engine, orphans')
    BY <2>1, <2>3, LostReaches
  <2> QED
    BY <1>1, <2>4, SameReaches
<1> QED
  BY <1>2, <1>3, FinishedTargets


-----------------------------------------------------------------------------
(* What is thrown away.                                                      *)

LEMMA InStacks ==
    ASSUME NEW h \in HistoryStates, h.group = None, NEW i \in 1..Span(h)
    PROVE  At(h, i) \in {h.undo[k] : k \in 1..Len(h.undo)} \cup {h.redo[k] : k \in 1..Len(h.redo)}
<1>1. /\ Here(h) \in Nat /\ Span(h) \in Nat /\ Closed(h) = Here(h)
      /\ Span(h) = Here(h) + Undone(h) /\ Undone(h) \in Nat
  BY WalkType
<1>2. Len(h.undo) = Here(h) /\ Len(h.redo) = Span(h) - Here(h)
  BY <1>1 DEF Closed, Undone
<1>3. CASE i <= Here(h)
  <2>1. i \in 1..Here(h)
    BY <1>1, <1>3
  <2>2. At(h, i) = h.undo[i]
    BY <2>1, WalkOfStacks
  <2> QED
    BY <1>2, <2>1, <2>2
<1>4. CASE ~(i <= Here(h))
  <2>1. i \in (Here(h) + 1)..Span(h) /\ Span(h) + 1 - i \in 1..(Span(h) - Here(h))
    BY <1>1, <1>4
  <2>2. At(h, i) = h.redo[Span(h) + 1 - i]
    BY <2>1, WalkOfStacks
  <2> QED
    BY <1>2, <2>1, <2>2
<1> QED
  BY <1>3, <1>4

LEMMA DiscardTargets == EditInv /\ CacheInv /\ GroupInv /\ TargetInv /\ Discard => TargetInv'
<1> SUFFICES ASSUME EditInv, CacheInv, GroupInv, TargetInv, Discard PROVE TargetInv'
  OBVIOUS
<1> DEFINE h == Current
           key == h.pending.key
           stacks == {h.undo[i] : i \in 1..Len(h.undo)} \cup {h.redo[i] : i \in 1..Len(h.redo)}
           gone == {e \in stacks : e.key = key}
           lost == {e.rec.slot[1] : e \in {f \in gone : IsCreate(f.rec)}}
<1>1. /\ run = None /\ run' = None /\ h.pending # None /\ session # None
      /\ history' = DiscardPendingGroup(h) /\ orphans' = orphans \cup lost
      /\ UNCHANGED <<session, engine, seq>>
  BY DEF Discard, Free
<1>2. HistoryFits(history', seq)
  BY <1>1, DiscardKeeps DEF EditInv, Discard
<1>3. /\ Tidy(h, key) /\ PendingFits(h) /\ HistoryFits(h, seq) /\ h.group = None /\ h \in HistoryStates
  BY <1>1, CurrentHolds, CurrentFits DEF PendingKey, HistoryFits
<1>4. /\ history' \in HistoryStates /\ history'.group = None
      /\ history'.undo = Without(h.undo, key) /\ history'.redo = Without(h.redo, key)
  BY <1>1, <1>2, <1>3 DEF DiscardPendingGroup, Bump, HistoryStates, HistoryFits
<1>5. Occurs(h, key) => Accounts(h, h.pending.dir, key, h.pending.completed, h.pending.count)
  BY <1>1, <1>3 DEF PendingFits
<1>6. Objective(h) /\ AllReach(h, engine, orphans)
  BY <1>1, FreeNothing, CurrentReaches
<1>7. \A i \in 1..Span(h) : At(h, i).key = key /\ IsCreate(At(h, i).rec) => Obj(h, i) \in orphans'
  <2> SUFFICES ASSUME NEW i \in 1..Span(h), At(h, i).key = key, IsCreate(At(h, i).rec)
               PROVE  Obj(h, i) \in orphans'
    OBVIOUS
  <2>1. At(h, i) \in stacks
    BY <1>3, InStacks
  <2> HIDE DEF stacks, h
  <2>2. At(h, i) \in {f \in gone : IsCreate(f.rec)}
    BY <2>1
  <2>3. At(h, i).rec.slot[1] \in lost
    BY <2>2
  <2> QED
    BY <1>1, <2>3 DEF Obj
<1> HIDE DEF lost, h
<1>8. PICK a \in 1..(Here(h) + 1), b \in Here(h)..Span(h) :
        \A i \in 1..Span(h) : At(h, i).key = key <=> a <= i /\ i <= b
  BY <1>3, <1>5, GroupAround
<1>9. Removes(h, history', a, b)
  BY <1>3, <1>4, <1>8, WithoutWalks
<1>10. \A i \in a..b : IsCreate(At(h, i).rec) => Obj(h, i) \in orphans'
  <2>1. a..b \subseteq 1..Span(h) /\ \A i \in a..b : a <= i /\ i <= b
    BY <1>3, SpanType
  <2> QED
    BY <1>7, <1>8, <2>1
<1>11. AllReach(h, engine, orphans')
  BY <1>1, <1>6, LostReaches
<1>12. Objective(history') /\ AllReach(history', engine, orphans')
  BY <1>3, <1>4, <1>6, <1>9, <1>10, <1>11, RemovesReaches
<1> QED
  BY <1>1, <1>12, TargetsRest

-----------------------------------------------------------------------------
(* The steps of an undo or redo.                                             *)

LEMMA StepRequest ==
    ASSUME run # None, run.kind = "history", run.plan.dir \in Directions
    PROVE  /\ Request(run).slot = run.step.rec.slot
           /\ Request(run).op = "create" <=> IsCreate(run.step.rec) /\ run.plan.dir = "redo"
           /\ Request(run).op = "delete" <=> IsCreate(run.step.rec) /\ run.plan.dir = "undo"
           /\ Request(run).op = "set" <=> ~IsCreate(run.step.rec)
           /\ Leavers \subseteq {run.step.rec.slot[1]}
<1>1. CASE IsCreate(run.step.rec)
  BY <1>1 DEF Request, Directions, Leavers
<1>2. CASE ~IsCreate(run.step.rec)
  BY <1>2 DEF Request, Directions, Leavers
<1> QED
  BY <1>1, <1>2

\* The connection of the item is gone, and with it its history.
LEMMA GoneTargets ==
    ASSUME EditInv, run # None, run.kind = "history", session # run.gen, Finished(Current),
           UNCHANGED session
    PROVE  TargetInv'
<1>1. history.gen # session
  BY WorkFacts
<1>2. Current = EmptyHistory(session, history.rev + 1)
  BY <1>1 DEF Current, Synchronize
<1>3. Span(Current) = 0
  BY <1>2 DEF EmptyHistory, Span, Here, Closed, Open, Undone, GroupEntries
<1> QED
  BY <1>3, NothingReaches, FinishedTargets

LEMMA PendingRecs ==
    ASSUME NEW h, h \in HistoryStates, NEW plan, NEW completed, NEW unknown, NEW retry
    PROVE  /\ SameRecs(h, StartPendingGroup(h, plan, completed, unknown, retry))
           /\ StartPendingGroup(h, plan, completed, unknown, retry).gen = h.gen
<1>1. /\ SameStacks(h, StartPendingGroup(h, plan, completed, unknown, retry))
      /\ StartPendingGroup(h, plan, completed, unknown, retry).gen = h.gen
  BY DEF StartPendingGroup, Bump, HistoryStates, SameStacks
<1> QED
  BY <1>1, SameStacksRecs

LEMMA SendStepTargets == EditInv /\ CacheInv /\ TargetInv /\ SendStep => TargetInv'
<1> SUFFICES ASSUME EditInv, CacheInv, TargetInv, SendStep PROVE TargetInv'
  OBVIOUS
<1>1. /\ run # None /\ run.kind = "history" /\ run.step = None
      /\ UNCHANGED <<session, engine, orphans>>
  BY DEF SendStep, aux
<1>2. \/ Finished(history)
      \/ Finished(StartPendingGroup(history, run.plan, run.completed, FALSE, FALSE))
      \/ UNCHANGED history /\ \E step, left : run' = [run EXCEPT !.step = step, !.left = left]
  <2>1. \/ Finished(history)
        \/ Finished(StartPendingGroup(history, run.plan, run.completed, FALSE, FALSE))
        \/ UNCHANGED history /\ \E step : run' = [run EXCEPT !.step = step, !.left = Tail(@)]
    BY DEF SendStep
  <2> QED
    BY <2>1
<1>3. history \in HistoryStates /\ run \in HistoryRuns /\ ~Answered /\ run.reply = None
  BY <1>1, WorkFacts, StepFacts DEF HistoryFits, Answered, InFlight
<1>4. CASE Finished(history)
  BY <1>1, <1>3, <1>4, HaltTargets DEF SameRecs
<1>5. CASE Finished(StartPendingGroup(history, run.plan, run.completed, FALSE, FALSE))
  <2> DEFINE g == StartPendingGroup(history, run.plan, run.completed, FALSE, FALSE)
  <2>1. SameStacks(history, g) /\ g.gen = history.gen
    BY <1>3 DEF StartPendingGroup, Bump, HistoryStates, SameStacks
  <2>2. Finished(g)
    BY <1>5
  <2> HIDE DEF g
  <2> QED
    BY <1>1, <1>3, <2>1, <2>2, SameStacksRecs, HaltTargets
<1>6. CASE UNCHANGED history /\ \E step, left : run' = [run EXCEPT !.step = step, !.left = left]
  <2>1. run'.reply = None /\ run'.kind = "history"
    BY <1>1, <1>3, <1>6 DEF HistoryRuns
  <2>2. Live => AllReach(history, engine, orphans)
    BY <1>3, NothingLeaves
  <2> QED
    BY <1>1, <1>6, <2>1, <2>2, TargetsRest DEF TargetInv, Live
<1> QED
  BY <1>2, <1>4, <1>5, <1>6

LEMMA GroupDoneTargets == EditInv /\ CacheInv /\ TargetInv /\ GroupDone => TargetInv'
<1> SUFFICES ASSUME EditInv, CacheInv, TargetInv, GroupDone PROVE TargetInv'
  OBVIOUS
<1> DEFINE g == ClearCompletedPendingGroup(history, run.plan.key)
<1>1. /\ run # None /\ run.kind = "history" /\ run.step = None
      /\ UNCHANGED <<session, engine, orphans>> /\ (Finished(history) \/ Finished(g))
  BY DEF GroupDone, aux
<1>2. history \in HistoryStates /\ ~Answered
  BY <1>1, WorkFacts DEF HistoryFits, Answered, InFlight
<1>3. SameStacks(history, g) /\ g.gen = history.gen
  BY <1>2 DEF ClearCompletedPendingGroup, Bump, HistoryStates, SameStacks
<1>4. SameRecs(history, g) /\ SameRecs(history, history)
  BY <1>3, SameStacksRecs DEF SameRecs
<1> HIDE DEF g
<1> QED
  BY <1>1, <1>2, <1>3, <1>4, HaltTargets

LEMMA StepFailsTargets == EditInv /\ CacheInv /\ TargetInv /\ StepFails => TargetInv'
<1> SUFFICES ASSUME EditInv, CacheInv, TargetInv, StepFails PROVE TargetInv'
  OBVIOUS
<1>1. /\ run # None /\ run.kind = "history" /\ run.step # None /\ UNCHANGED <<session, engine>>
  BY DEF StepFails, InFlight
<1>2. PICK answered \in BOOLEAN :
        /\ answered => run.reply # None /\ run.reply.st # "accepted"
        /\ Finished(IF session # run.gen THEN Current
                    ELSE StartPendingGroup(Current, run.plan, run.completed, ~answered, answered))
        /\ orphans' = IF answered \/ ~IsCreate(run.step.rec) THEN orphans
                      ELSE orphans \cup {run.step.rec.slot[1]}
  BY DEF StepFails
<1>3. /\ session = run.gen => Current = history
      /\ run.plan.dir \in Directions /\ history \in HistoryStates
  BY <1>1, WorkFacts DEF HistoryFits
<1>4. CASE session # run.gen
  BY <1>1, <1>2, <1>4, GoneTargets
<1>5. CASE session = run.gen
  <2> DEFINE g == StartPendingGroup(history, run.plan, run.completed, ~answered, answered)
  <2>1. Finished(g)
    BY <1>2, <1>3, <1>5
  <2>2. SameRecs(history, g) /\ g.gen = history.gen
    BY <1>3, PendingRecs
  <2>3. Answered /\ Request(run).op = "delete" => Leavers \subseteq orphans'
    BY <1>1, <1>2, <1>3, StepRequest DEF Answered
  <2>4. orphans \subseteq orphans'
    BY <1>2
  <2> HIDE DEF g
  <2> QED
    BY <1>1, <2>1, <2>2, <2>3, <2>4, HaltTargets
<1> QED
  BY <1>4, <1>5


-----------------------------------------------------------------------------
(* Every entry has an object: the answers to undo and redo, and the theorem. *)

\* A single entry that is thrown away; what it created is lost.
LEMMA DropTargets ==
    ASSUME EditInv, CacheInv, TargetInv, run # None, run.kind = "history", ~run.grouped,
           Finished(DiscardAction(history, run.plan)), UNCHANGED <<session, engine>>,
           orphans \subseteq orphans',
           IsCreate(run.step.rec) => run.step.rec.slot[1] \in orphans'
    PROVE  TargetInv'
<1> DEFINE g == DiscardAction(history, run.plan)
           h == history
           dir == run.plan.dir
           p == Pop(Stack(h, dir))
<1>1. /\ dir \in Directions /\ h.group = None /\ h \in HistoryStates /\ HistoryFits(h, seq)
  BY WorkFacts DEF HistoryFits
<1>2. /\ Stack(h, dir) # <<>> /\ run.step = Top(Stack(h, dir)) /\ run.step = run.plan.steps[1]
      /\ OnTop(h, dir, run.step.id, run.plan.key)
  BY StepFacts
<1>3. g \in HistoryStates
  BY <1>1, DiscardActionFollows DEF Follows, HistoryFits
<1>4. /\ Stack(g, dir) = p /\ Stack(g, Opposite(dir)) = Stack(h, Opposite(dir))
      /\ g.group = None /\ g.gen = h.gen
  <2>1. g = Bump(SetStack(h, dir, p))
    BY <1>2 DEF DiscardAction
  <2> HIDE DEF p, g
  <2> QED
    BY <1>1, <2>1 DEF Bump, SetStack, Stack, Opposite, Directions, HistoryStates
<1>5. Finished(g)
  OBVIOUS
<1> HIDE DEF g
<1> DEFINE next == Next1(h, dir)
<1>6. Removes(h, g, next, next) /\ next \in 1..Span(h) /\ At(h, next) = run.step
  BY <1>1, <1>2, <1>3, <1>4, DropWalks DEF p
<1> HIDE DEF next
<1>7. \A i \in next..next : IsCreate(At(h, i).rec) => Obj(h, i) \in orphans'
  <2>1. \A i \in next..next : i = next
    BY <1>6
  <2> QED
    BY <1>6, <2>1 DEF Obj
<1>8. Objective(g)
  BY <1>1, <1>3, <1>6, RemovesReaches DEF TargetInv
<1>9. session # None /\ g.gen = session => AllReach(g, engine', orphans')
  <2> SUFFICES ASSUME session # None, g.gen = session PROVE AllReach(g, engine', orphans')
    OBVIOUS
  <2>1. AllReach(h, engine, orphans \cup Leavers)
    BY <1>4 DEF TargetInv, Live
  <2>2. (orphans \cup Leavers) \subseteq orphans'
    <3>1. Leavers \subseteq {run.step.rec.slot[1]}
      BY <1>1, StepRequest
    <3>2. Leavers # {} => IsCreate(run.step.rec)
      BY <1>1, StepRequest DEF Leavers
    <3> QED
      BY <3>1, <3>2
  <2>3. AllReach(h, engine, orphans')
    BY <2>1, <2>2, LostReaches
  <2>4. AllReach(g, engine, orphans')
    BY <1>1, <1>3, <1>6, <1>7, <2>3, RemovesReaches DEF TargetInv
  <2> QED
    BY <2>4
<1> QED
  BY <1>5, <1>8, <1>9, FinishedTargets

LEMMA SingleFailsTargets == EditInv /\ CacheInv /\ TargetInv /\ SingleFails => TargetInv'
<1> SUFFICES ASSUME EditInv, CacheInv, TargetInv, SingleFails PROVE TargetInv'
  OBVIOUS
<1>1. /\ run # None /\ run.kind = "history" /\ ~run.grouped /\ UNCHANGED <<session, engine>>
      /\ Finished(IF session # run.gen THEN Current ELSE DiscardAction(Current, run.plan))
      /\ orphans' = IF IsCreate(run.step.rec) THEN orphans \cup {run.step.rec.slot[1]} ELSE orphans
  BY DEF SingleFails, InFlight
<1>2. session = run.gen => Current = history
  BY <1>1, WorkFacts
<1>3. orphans \subseteq orphans' /\ (IsCreate(run.step.rec) => run.step.rec.slot[1] \in orphans')
  BY <1>1
<1>4. CASE session # run.gen
  BY <1>1, <1>4, GoneTargets
<1>5. CASE session = run.gen
  BY <1>1, <1>2, <1>3, <1>5, DropTargets
<1> QED
  BY <1>4, <1>5

\* Records that are given a new object stay what they are.
LEMMA ReplacedRecord ==
    ASSUME NEW rec \in Record, NEW old, NEW new \in Objects
    PROVE  LET r == ReplaceRecordIds(rec, old, new)
           IN  /\ r \in Record /\ (IsCreate(r) <=> IsCreate(rec))
               /\ r.slot[1] = IF rec.slot[1] = old THEN new ELSE rec.slot[1]
<1> DEFINE slot == <<new, rec.slot[2]>>
           r == [rec EXCEPT !.slot = slot]
<1>1. rec.slot \in Slots \/ rec.slot \in Objects \X {"object"}
  BY DEF Record
<1>2. slot[1] = new /\ slot[2] = rec.slot[2]
  OBVIOUS
<1>3. /\ rec.slot \in Slots => slot \in Slots
      /\ rec.slot \in Objects \X {"object"} => slot \in Objects \X {"object"}
  BY DEF Slots
<1> HIDE DEF slot
<1>4. r \in Record /\ r.slot = slot
  BY <1>1, <1>3 DEF Record
<1>5. ReplaceRecordIds(rec, old, new) = IF rec.slot[1] = old THEN r ELSE rec
  BY DEF ReplaceRecordIds, slot
<1> HIDE DEF r
<1> QED
  BY <1>2, <1>4, <1>5 DEF IsCreate

LEMMA RedoneRecord ==
    ASSUME NEW rec \in Record, IsCreate(rec), NEW reply, reply.id \in Objects
    PROVE  LET r == UpdatedRecord(rec, "redo", reply)
           IN  r \in Record /\ IsCreate(r) /\ r.slot[1] = reply.id
<1> DEFINE slot == <<reply.id, "object">>
           r == [rec EXCEPT !.slot = slot]
<1>1. rec \in [slot : Objects \X {"object"}, old : {"gone"}, new : {"alive"}]
  BY EditAssumption DEF Record, IsCreate, Slots
<1>2. slot \in Objects \X {"object"} /\ slot[1] = reply.id /\ slot[2] = "object"
  OBVIOUS
<1>3. UpdatedRecord(rec, "redo", reply) = r
  BY DEF UpdatedRecord
<1> HIDE DEF slot
<1>4. r \in Record /\ r.slot = slot
  BY <1>1, <1>2 DEF Record
<1> HIDE DEF r
<1> QED
  BY <1>2, <1>3, <1>4 DEF IsCreate

\* Entries of other groups lose an object that gets another id.
LEMMA LeftAlone ==
    ASSUME history \in HistoryStates, history.group = None, NEW rec, IsCreate(rec), run.plan.dir = "redo",
           NEW i \in 1..Span(history), At(history, i).key # run.plan.key, Obj(history, i) = rec.slot[1]
    PROVE  rec.slot[1] \in LeftBehind(rec)
BY InStacks DEF LeftBehind, Obj

\* What an accepted step makes of the walk.
LEMMA MovedReaches ==
    ASSUME EditInv, CacheInv, TargetInv, run # None, run.kind = "history", run.step # None,
           run.reply # None, run.reply.st = "accepted", session = run.gen,
           ~Malformed(run.step.rec, run.plan.dir, run.reply), NEW g \in HistoryStates,
           Alike(history, g), Here(g) = Beyond(history, run.plan.dir),
           Next1(history, run.plan.dir) \in 1..Span(history),
           At(history, Next1(history, run.plan.dir)) = run.step,
           ~(IsCreate(run.step.rec) /\ run.plan.dir = "redo") =>
             \A i \in 1..Span(history) : At(g, i).rec = At(history, i).rec,
           IsCreate(run.step.rec) /\ run.plan.dir = "redo" =>
             Recreates(history, g, run.step.rec.slot[1], run.reply.id, orphans'),
           orphans \subseteq orphans', UNCHANGED engine
    PROVE  Objective(g) /\ AllReach(g, engine', orphans')
<1> DEFINE h == history
           dir == run.plan.dir
           old == run.step.rec.slot[1]
<1>1. /\ dir \in Directions /\ h \in HistoryStates /\ run.gen = h.gen /\ run \in HistoryRuns
  BY WorkFacts DEF HistoryFits
<1>2. Answered /\ Live
  <2>1. session # None
    BY <1>1, EditAssumption DEF HistoryRuns
  <2> QED
    BY <1>1, <2>1 DEF Answered, Live, InFlight
<1>3. Objective(h) /\ AllReach(h, engine, orphans \cup Leavers) /\ AnswerReaches /\ Span(g) = Span(h)
  BY <1>2 DEF TargetInv, Alike
<1>4. CASE dir = "undo"
  <2>1. \A o \in Leavers : CreatesAt(h, Here(h), o)
    <3> SUFFICES ASSUME NEW o \in Leavers PROVE CreatesAt(h, Here(h), o)
      OBVIOUS
    <3>1. IsCreate(run.step.rec) /\ o = old
      BY <1>1, StepRequest DEF Leavers
    <3> QED
      BY <1>4, <3>1 DEF Next1, CreatesAt, Obj
  <2>2. Here(h) \in 1..Span(h) /\ Here(g) = Here(h) - 1
    BY <1>4 DEF Next1, Beyond
  <2>3. \A i \in 1..Span(h) : At(g, i).rec = At(h, i).rec
    BY <1>4
  <2>4. Objective(g) /\ AllReach(g, engine, orphans)
    BY <1>1, <1>3, <2>1, <2>2, <2>3, UndoReaches
  <2> QED
    BY <2>4, LostReaches
<1>5. CASE dir = "redo"
  <2>1. Leavers = {}
    BY <1>1, <1>5, StepRequest DEF Leavers
  <2>2. orphans \cup Leavers = orphans
    BY <2>1
  <2>3. AllReach(h, engine, orphans')
    BY <1>3, <2>2, LostReaches
  <2>4. Here(h) + 1 \in 1..Span(h) /\ Here(g) = Here(h) + 1 /\ At(h, Here(h) + 1) = run.step
    BY <1>5 DEF Next1, Beyond
  <2>5. CASE ~IsCreate(run.step.rec)
    <3>1. Objective(g) /\ AllReach(g, engine, orphans')
      BY <1>1, <1>3, <2>3, <2>4, <2>5, RedoReaches
    <3> QED
      BY <3>1
  <2>6. CASE IsCreate(run.step.rec)
    <3>1. CreatesAt(h, Here(h) + 1, old)
      BY <2>4, <2>6 DEF CreatesAt, Obj
    <3>2. run.reply.id # None
      BY <1>5, <2>6 DEF Malformed
    <3>3. /\ engine[<<run.reply.id, "object">>] = "alive"
          /\ \A i \in 1..Span(h) : Obj(h, i) # run.reply.id
      BY <1>1, <1>3, <1>5, <2>6, <3>2, StepRequest DEF AnswerReaches
    <3>4. Objective(g) /\ AllReach(g, engine, orphans')
      BY <1>1, <1>3, <1>5, <2>3, <2>4, <2>6, <3>1, <3>3, RecreateReaches
    <3> QED
      BY <3>4
  <2> QED
    BY <2>5, <2>6
<1> QED
  BY <1>1, <1>4, <1>5 DEF Directions

LEMMA SingleAppliedTargets == EditInv /\ CacheInv /\ GroupInv /\ TargetInv /\ SingleApplied => TargetInv'
<1> SUFFICES ASSUME EditInv, CacheInv, GroupInv, TargetInv, SingleApplied PROVE TargetInv'
  OBVIOUS
<1> DEFINE h == history
           dir == run.plan.dir
           g == MoveEntry(h, dir, run.reply)
<1>1. /\ run # None /\ run.kind = "history" /\ ~run.grouped /\ run.reply # None
      /\ run.reply.st = "accepted" /\ run.step # None
      /\ UNCHANGED <<session, engine>>
      /\ Finished(IF session # run.gen THEN Current
                  ELSE FinishActionSuccess(Current, run.plan, run.reply))
      /\ orphans' = orphans \cup LeftBehind(run.step.rec)
                      \cup IF Malformed(run.step.rec, dir, run.reply) THEN {run.step.rec.slot[1]} ELSE {}
  BY DEF SingleApplied, InFlight
<1>2. /\ run \in HistoryRuns /\ dir \in Directions /\ h.group = None /\ h \in HistoryStates
      /\ HistoryFits(h, seq) /\ run.gen = h.gen
      /\ session = run.gen => Current = history
  BY <1>1, WorkFacts DEF HistoryFits
<1>3. run.reply \in Replies /\ orphans \subseteq orphans' /\ LeftBehind(run.step.rec) \subseteq orphans'
  BY <1>1, <1>2 DEF HistoryRuns
<1>4. CASE session # run.gen
  BY <1>1, <1>4, GoneTargets
<1>5. CASE session = run.gen
  <2>1. Finished(FinishActionSuccess(h, run.plan, run.reply))
    BY <1>1, <1>2, <1>5
  <2>2. /\ Stack(h, dir) # <<>> /\ run.step = Top(Stack(h, dir)) /\ run.step = run.plan.steps[1]
        /\ run.step.key = run.plan.key
        /\ OnTop(h, dir, run.step.id, run.plan.key) /\ Past(h) /\ Unique(h, seq)
    BY <1>1, StepFacts
  <2>3. CASE Malformed(run.step.rec, dir, run.reply)
    <3>1. Finished(DiscardAction(h, run.plan))
      BY <2>1, <2>2, <2>3 DEF FinishActionSuccess
    <3>2. run.step.rec.slot[1] \in orphans'
      BY <1>1, <2>3
    <3> QED
      BY <1>1, <1>3, <3>1, <3>2, DropTargets
  <2>4. CASE ~Malformed(run.step.rec, dir, run.reply)
    <3>1. FinishActionSuccess(h, run.plan, run.reply) = g
      BY <2>2, <2>4 DEF FinishActionSuccess
    <3>2. g.gen = h.gen
      BY <1>2, <1>3, <3>1, FinishActionSuccessFollows DEF Follows
    <3>3. /\ g \in HistoryStates /\ Alike(h, g) /\ Here(g) = Beyond(h, dir)
          /\ Next1(h, dir) \in 1..Span(h) /\ At(h, Next1(h, dir)) = run.step
          /\ \A i \in 1..Span(h) : At(g, i).rec = MovedRec(h, dir, run.reply, i)
      BY <1>2, <1>3, <2>2, MoveEntryWalks
    <3>4. Finished(g)
      BY <2>1, <3>1
    <3> HIDE DEF g
    <3>5. ~(IsCreate(run.step.rec) /\ dir = "redo") =>
            \A i \in 1..Span(h) : At(g, i).rec = At(h, i).rec
      BY <3>3 DEF MovedRec, UpdatedRecord
    <3>6. ASSUME IsCreate(run.step.rec), dir = "redo"
          PROVE  Recreates(h, g, run.step.rec.slot[1], run.reply.id, orphans')
      <4>1. run.reply.id \in Objects
        BY <1>3, <2>4, <3>6 DEF Malformed, Replies, AnyObject
      <4>2. \A i \in 1..Span(h) : At(h, i).rec \in Record
        BY DEF TargetInv, Objective, RecordsFit
      <4>3. PICK a \in 1..Span(h) : Block(h, run.step.key, a, 1)
        BY <1>1, SingleHolds DEF Accounts
      <4>4. \A i \in 1..Span(h) : At(h, i).key = run.step.key => i = a
        <5>1. \A i \in 1..Span(h) : At(h, i).key = run.step.key <=> a <= i /\ i <= a + 1 - 1
          BY <4>3 DEF Block
        <5> QED
          BY <5>1
      <4>5. \A i \in 1..Span(h) : i # Next1(h, dir) => At(h, i).key # run.plan.key
        BY <2>2, <3>3, <4>4
      <4>6. ASSUME NEW i \in 1..Span(h), i = Next1(h, dir)
            PROVE  /\ At(g, i).rec \in Record /\ IsCreate(At(g, i).rec) /\ IsCreate(At(h, i).rec)
                   /\ Obj(h, i) = run.step.rec.slot[1] /\ Obj(g, i) = run.reply.id
        <5>1. At(g, i).rec = UpdatedRecord(run.step.rec, "redo", run.reply)
          BY <3>3, <3>6, <4>6 DEF MovedRec
        <5>2. run.step.rec \in Record /\ At(h, i) = run.step
          BY <3>3, <4>2, <4>6
        <5> QED
          BY <3>6, <4>1, <5>1, <5>2, RedoneRecord DEF Obj
      <4>7. ASSUME NEW i \in 1..Span(h), i # Next1(h, dir)
            PROVE  /\ At(g, i).rec = At(h, i).rec
                   /\ Obj(h, i) = run.step.rec.slot[1] => run.step.rec.slot[1] \in orphans'
        <5>1. At(g, i).rec = At(h, i).rec
          BY <3>3, <4>7 DEF MovedRec
        <5>2. Obj(h, i) = run.step.rec.slot[1] => run.step.rec.slot[1] \in LeftBehind(run.step.rec)
          BY <1>2, <3>6, <4>5, <4>7, LeftAlone
        <5> QED
          BY <1>3, <5>1, <5>2
      <4> QED
        BY <4>2, <4>6, <4>7 DEF Recreates, Obj
    <3>7. Objective(g) /\ AllReach(g, engine', orphans')
      BY <1>1, <1>3, <1>5, <2>4, <3>3, <3>5, <3>6, MovedReaches
    <3> QED
      BY <1>1, <3>4, <3>7, FinishedTargets
  <2> QED
    BY <2>3, <2>4
<1> QED
  BY <1>4, <1>5

LEMMA StepAppliedTargets == EditInv /\ CacheInv /\ TargetInv /\ StepApplied => TargetInv'
<1> SUFFICES ASSUME EditInv, CacheInv, TargetInv, StepApplied PROVE TargetInv'
  OBVIOUS
<1> DEFINE h == history
           plan == run.plan
           g == FinishGroupStep(h, plan, run.reply)
<1>1. /\ run # None /\ run.kind = "history" /\ run.step # None /\ run.reply # None
      /\ run.reply.st = "accepted" /\ UNCHANGED <<session, engine>>
      /\ orphans' = orphans \cup LeftBehind(run.step.rec)
  BY DEF StepApplied, InFlight
<1>2. /\ run \in HistoryRuns /\ plan \in Plans /\ plan.dir \in Directions
      /\ h.group = None /\ h \in HistoryStates /\ HistoryFits(h, seq) /\ run.gen = h.gen
      /\ session = run.gen => Current = history
  BY <1>1, WorkFacts DEF HistoryFits
<1>3. /\ Unique(h, seq) /\ Past(h) /\ Stack(h, plan.dir) # <<>> /\ run.step = Top(Stack(h, plan.dir))
      /\ run.step.key = plan.key /\ OnTop(h, plan.dir, run.step.id, plan.key)
  BY <1>1, StepFacts
<1>4. run.reply \in Replies /\ orphans \subseteq orphans' /\ LeftBehind(run.step.rec) \subseteq orphans'
  BY <1>1, <1>2 DEF HistoryRuns
<1>5. \/ session # run.gen /\ Finished(Current)
      \/ /\ session = run.gen /\ Malformed(run.step.rec, plan.dir, run.reply)
         /\ Finished(StartPendingGroup(h, plan, run.completed, TRUE, FALSE))
      \/ /\ session = run.gen /\ ~Malformed(run.step.rec, plan.dir, run.reply)
         /\ history' = g
         /\ run' = [run EXCEPT !.completed = @ + 1, !.step = None, !.reply = None]
  BY <1>2, <1>3 DEF StepApplied
<1>6. CASE session # run.gen /\ Finished(Current)
  BY <1>1, <1>6, GoneTargets
<1>7. CASE /\ Malformed(run.step.rec, plan.dir, run.reply)
           /\ Finished(StartPendingGroup(h, plan, run.completed, TRUE, FALSE))
  <2> DEFINE k == StartPendingGroup(h, plan, run.completed, TRUE, FALSE)
  <2>1. SameStacks(h, k) /\ k.gen = h.gen
    BY <1>2 DEF StartPendingGroup, Bump, HistoryStates, SameStacks
  <2>2. Finished(k)
    BY <1>7
  <2>3. Request(run).op # "delete"
    BY <1>1, <1>2, <1>7, StepRequest DEF Malformed
  <2> HIDE DEF k
  <2> QED
    BY <1>1, <1>4, <2>1, <2>2, <2>3, SameStacksRecs, HaltTargets
<1>8. CASE /\ session = run.gen /\ ~Malformed(run.step.rec, plan.dir, run.reply)
           /\ history' = g
           /\ run' = [run EXCEPT !.completed = @ + 1, !.step = None, !.reply = None]
  <2>1. /\ g \in HistoryStates /\ Alike(h, g) /\ Here(g) = Beyond(h, plan.dir)
        /\ Next1(h, plan.dir) \in 1..Span(h) /\ At(h, Next1(h, plan.dir)) = run.step
        /\ \A i \in 1..Span(h) : At(g, i).rec = NewRec(h, plan.dir, plan.key, run.reply, i)
    BY <1>2, <1>3, <1>4, FinishGroupStepWalks
  <2> HIDE DEF g
  <2>2. ~(IsCreate(run.step.rec) /\ plan.dir = "redo") =>
          \A i \in 1..Span(h) : At(g, i).rec = At(h, i).rec
    BY <2>1 DEF NewRec, MovedRec, UpdatedRecord
  <2>3. ASSUME IsCreate(run.step.rec), plan.dir = "redo"
        PROVE  Recreates(h, g, run.step.rec.slot[1], run.reply.id, orphans')
    <3> DEFINE old == run.step.rec.slot[1]
               new == run.reply.id
    <3>1. new \in Objects
      BY <1>4, <1>8, <2>3 DEF Malformed, Replies, AnyObject
    <3>2. \A i \in 1..Span(h) : At(h, i).rec \in Record
      BY DEF TargetInv, Objective, RecordsFit
    <3>3. ASSUME NEW i \in 1..Span(h), i = Next1(h, plan.dir)
          PROVE  /\ At(g, i).rec \in Record /\ IsCreate(At(g, i).rec) /\ IsCreate(At(h, i).rec)
                 /\ Obj(h, i) = old /\ Obj(g, i) = new
      <4> DEFINE r == UpdatedRecord(run.step.rec, "redo", run.reply)
      <4>1. At(h, i) = run.step /\ run.step.rec \in Record
        BY <2>1, <3>2, <3>3
      <4>2. r \in Record /\ IsCreate(r) /\ r.slot[1] = new
        BY <2>3, <3>1, <4>1, RedoneRecord
      <4>3. At(g, i).rec = ReplaceRecordIds(r, old, new)
        BY <1>3, <2>1, <2>3, <3>3, <4>1 DEF NewRec, MovedRec
      <4> HIDE DEF r
      <4>4. LET s == ReplaceRecordIds(r, old, new)
            IN  s \in Record /\ (IsCreate(s) <=> IsCreate(r)) /\ s.slot[1] = new
        BY <3>1, <4>2, ReplacedRecord
      <4> QED
        BY <2>3, <4>1, <4>2, <4>3, <4>4 DEF Obj
    <3>4. ASSUME NEW i \in 1..Span(h), i # Next1(h, plan.dir), At(h, i).key = plan.key
          PROVE  /\ At(g, i).rec \in Record /\ (IsCreate(At(g, i).rec) <=> IsCreate(At(h, i).rec))
                 /\ Obj(g, i) = IF Obj(h, i) = old THEN new ELSE Obj(h, i)
      <4>1. At(g, i).rec = ReplaceRecordIds(At(h, i).rec, old, new)
        BY <2>1, <2>3, <3>4 DEF NewRec, MovedRec
      <4> QED
        BY <3>1, <3>2, <3>4, <4>1, ReplacedRecord DEF Obj
    <3>5. ASSUME NEW i \in 1..Span(h), At(h, i).key # plan.key
          PROVE  At(g, i).rec = At(h, i).rec /\ (Obj(h, i) = old => old \in orphans')
      <4>1. i # Next1(h, plan.dir)
        BY <1>3, <2>1, <3>5
      <4>2. At(g, i).rec = At(h, i).rec
        BY <2>1, <3>5, <4>1 DEF NewRec, MovedRec
      <4>3. Obj(h, i) = old => old \in LeftBehind(run.step.rec)
        BY <1>2, <2>3, <3>5, LeftAlone
      <4> QED
        BY <1>4, <4>2, <4>3
    <3> QED
      BY <3>2, <3>3, <3>4, <3>5 DEF Recreates, Obj
  <2>4. Objective(g) /\ AllReach(g, engine', orphans')
    BY <1>1, <1>4, <1>8, <2>1, <2>2, <2>3, MovedReaches
  <2>5. run'.reply = None /\ run'.kind = "history"
    BY <1>1, <1>2, <1>8 DEF HistoryRuns
  <2> QED
    BY <1>8, <2>4, <2>5, TargetsRest
<1> QED
  BY <1>5, <1>6, <1>7, <1>8


\* Every step keeps every entry of the walk an object to act on.
THEOREM TargetInvariance == Spec => [](EditInv /\ CacheInv /\ GroupInv /\ TargetInv)
<1>1. EditInv /\ CacheInv /\ GroupInv /\ TargetInv /\ [Next]_vars => TargetInv'
  <2> SUFFICES ASSUME EditInv, CacheInv, GroupInv, TargetInv, [Next]_vars PROVE TargetInv'
    OBVIOUS
  <2>1. CASE \/ (\E slot \in UiSlots : CaptureValue(slot))
             \/ (\E dir \in UiDirections : CaptureCursor(dir))
             \/ UNCHANGED vars
    <3>1. UNCHANGED <<session, engine, history, run, orphans>>
      BY <2>1 DEF CaptureValue, CaptureCursor, vars, aux
    <3> QED
      BY <3>1, SameTargets
  <2>2. CASE \/ Disconnect \/ Connect \/ SessionChanged \/ EditRefused
             \/ \E slot \in UiSlots, val \in Values : SetFromUi(slot, val)
    BY <2>2, DisconnectTargets, ConnectTargets, SessionChangedTargets, EditRefusedTargets,
       SetFromUiTargets
  <2>3. CASE \/ \E slot \in Slots, val \in Values, token \in {None} \cup 1..MaxSequence :
                  SetFromMcp(slot, val, token)
             \/ \E src \in {"ui", "mcp"}, token \in {None} \cup 1..MaxSequence : Create(src, token)
             \/ \E src \in {"ui", "mcp"}, o \in Objects : Delete(src, o)
             \/ \E src \in {"ui", "mcp"} : OtherEdit(src)
    BY <2>3, EditsTargets
  <2>4. CASE EngineAccepts \/ EngineRefuses \/ EditAnswered \/ EditUnanswered
    BY <2>4, EngineAcceptsTargets, EngineRefusesTargets, EditAnsweredTargets, EditUnansweredTargets
  <2>5. CASE HistoryFromUi \/ \E dir \in Directions : HistoryFromMcp(dir)
    BY <2>5, StartHistoryTargets DEF HistoryFromUi, HistoryFromMcp
  <2>6. CASE StartRetry \/ SendStep \/ GroupDone
    BY <2>6, StartRetryTargets, SendStepTargets, GroupDoneTargets
  <2>7. CASE SingleApplied \/ SingleFails \/ StepApplied \/ StepFails
    BY <2>7, SingleAppliedTargets, SingleFailsTargets, StepAppliedTargets, StepFailsTargets
  <2>8. CASE Begin \/ Discard \/ AuthRevoked
    BY <2>8, BeginTargets, DiscardTargets, AuthRevokedTargets
  <2>9. CASE CloseGroup
    <3>1. history' = CloseActiveGroup(history) /\ UNCHANGED <<session, engine, run, orphans>>
      BY <2>9 DEF CloseGroup, aux
    <3> QED
      BY <3>1, CloseTargets
  <2> QED
    BY <2>1, <2>2, <2>3, <2>4, <2>5, <2>6, <2>7, <2>8, <2>9 DEF Next
<1> QED
  BY <1>1, InitTargets, GroupInvariance, PTL DEF Spec

\* Every entry that can be undone or redone acts on an object that exists when its turn comes,
\* although redoing a creation gives the object another id (remap_group_ids), deletions come in
\* between and answers get lost.
THEOREM TargetsStay == Spec => []TargetsExist
<1>1. EditInv /\ TargetInv => TargetsExist
  <2> SUFFICES ASSUME EditInv, TargetInv, Settled PROVE TargetsExist
    BY DEF TargetsExist
  <2> DEFINE h == history
             s == GroupEntries(h)
  <2>1. /\ Here(h) \in Nat /\ Span(h) \in Nat /\ Here(h) <= Span(h) /\ Closed(h) \in Nat
        /\ Undone(h) \in Nat /\ Span(h) = Here(h) + Undone(h) /\ Closed(h) <= Here(h)
        /\ h \in HistoryStates /\ h.undo \in Seq(AnyEntry) /\ s \in Seq(AnyEntry)
    BY WalkType DEF EditInv, HistoryFits
  <2>2. /\ \A i \in 1..Span(h) : Reaches(h, i, engine, orphans)
        /\ \A i \in 1..Span(h) : At(h, i).rec \in Record
    BY NothingLeaves DEF Settled, Live, Answered, AllReach, TargetInv, Objective, RecordsFit
  <2>3. ASSUME NEW i \in 1..Len(Undoable)
        PROVE  LET o == Undoable[i].rec.slot[1] IN o \in orphans \/ Alive(o)
    <3>1. Undoable = h.undo \o s
      BY DEF Undoable, GroupEntries
    <3>2. /\ Len(Undoable) = Here(h)
          /\ \A k \in 1..Closed(h) : Undoable[k] = h.undo[k]
          /\ \A k \in 1..Open(h) : Undoable[Closed(h) + k] = s[k]
      BY <2>1, <3>1, ConcatFacts DEF Here, Closed, Open
    <3> HIDE DEF s, h
    <3>3. i \in 1..Here(h) /\ i \in 1..Span(h)
      BY <2>1, <3>2
    <3>4. Undoable[i] = At(h, i)
      <4>1. CASE i <= Closed(h)
        <5>1. i \in 1..Closed(h)
          BY <2>1, <3>3, <4>1
        <5> QED
          BY <3>2, <4>1, <5>1 DEF At
      <4>2. CASE ~(i <= Closed(h))
        <5>1. Open(h) \in Nat
          BY <2>1 DEF Open, s
        <5>2. i - Closed(h) \in 1..Open(h) /\ Closed(h) + (i - Closed(h)) = i /\ i <= Here(h)
          BY <2>1, <3>3, <4>2, <5>1 DEF Here
        <5>3. Undoable[i] = s[i - Closed(h)]
          BY <3>2, <5>2
        <5> QED
          BY <4>2, <5>2, <5>3 DEF At, s
      <4> QED
        BY <4>1, <4>2
    <3>5. ~(\E j \in 1..i : Here(h) < j /\ CreatesAt(h, j, Obj(h, i)))
      BY <2>1, <3>3
    <3> QED
      BY <2>2, <3>3, <3>4, <3>5 DEF Reaches, Obj, Alive
  <2>4. ASSUME NEW i \in 1..Len(h.redo)
        PROVE  LET o == h.redo[i].rec.slot[1]
               IN  \/ o \in orphans \/ Alive(o)
                   \/ \E j \in i..Len(h.redo) : h.redo[j].rec.slot = <<o, "object">>
    <3> DEFINE w == Span(h) + 1 - i
    <3>1. /\ Len(h.redo) = Undone(h)
          /\ \A k \in 1..Undone(h) : Span(h) + 1 - k \in 1..Span(h) /\ At(h, Span(h) + 1 - k) = h.redo[k]
      <4>1. "redo" \in Directions /\ "redo" # "undo"
        BY DEF Directions
      <4> QED
        BY <2>1, <4>1, StackInWalk DEF Undone, Stack, StackIndex
    <3>2. w \in 1..Span(h) /\ At(h, w) = h.redo[i] /\ i \in 1..Undone(h)
      BY <3>1
    <3>3. Reaches(h, w, engine, orphans) /\ Obj(h, w) = h.redo[i].rec.slot[1]
      BY <2>2, <3>2 DEF Obj
    <3>4. ASSUME NEW k \in 1..w, Here(h) < k, CreatesAt(h, k, Obj(h, w))
          PROVE  \E j \in i..Len(h.redo) : h.redo[j].rec.slot = <<Obj(h, w), "object">>
      <4>1. /\ Span(h) + 1 - k \in i..Undone(h) /\ Span(h) + 1 - k \in 1..Undone(h)
            /\ Span(h) + 1 - (Span(h) + 1 - k) = k /\ k \in 1..Span(h)
        BY SMTT(30), <2>1, <3>2, <3>4
      <4>2. At(h, k) = h.redo[Span(h) + 1 - k]
        BY <3>1, <4>1
      <4>3. At(h, k).rec \in Record /\ IsCreate(At(h, k).rec) /\ At(h, k).rec.slot[1] = Obj(h, w)
        BY <2>2, <3>4, <4>1 DEF CreatesAt, Obj
      <4>4. At(h, k).rec.slot = <<Obj(h, w), "object">>
        <5>1. At(h, k).rec.slot \in Slots \/ At(h, k).rec.slot \in Objects \X {"object"}
          BY <4>3 DEF Record
        <5>2. At(h, k).rec.slot \in Objects \X {"object"}
          BY <4>3, <5>1, EditAssumption DEF IsCreate, Slots
        <5> QED
          BY <4>3, <5>2
      <4> QED
        BY <3>1, <4>1, <4>2, <4>4
    <3> HIDE DEF w, h
    <3> QED
      BY <3>3, <3>4 DEF Reaches, Alive
  <2> QED
    BY <2>3, <2>4 DEF TargetsExist
<1> QED
  BY <1>1, TargetInvariance, PTL
=============================================================================
