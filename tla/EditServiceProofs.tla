------------------------- MODULE EditServiceProofs -------------------------
(***************************************************************************)
(* Theorems about EditService, for any number of objects, values, edits    *)
(* and connections: an undo or redo acts on what its requester was shown,  *)
(* a history holds entries of its own connection only, and the old value   *)
(* an edit records is the engine's.                                        *)
(*                                                                         *)
(* The first two follow from EditInv, whose core is that the revision      *)
(* moves with every change of a stack, so that a cursor of the present     *)
(* revision shows the present entries, and that a group's entries have its *)
(* token for key, which no entry below them has, so that closing a group   *)
(* shows the same.                                                         *)
(*                                                                         *)
(* The third needs CacheInv as well: the cache has the engine's value of   *)
(* every slot it has, but for a change the actor has not heard of yet, and *)
(* a capture is of that value or the cache has a later revision or counts  *)
(* it as lost.  That a step in work tells the cache of the right slot      *)
(* takes that no two entries have one number and that the step is on top   *)
(* of its stack.                                                           *)
(***************************************************************************)
EXTENDS EditService, Integers, FiniteSetTheorems, WellFoundedInduction, TLAPS

\* HistoryState.
HistoryStates ==
    [gen : 1..MaxGeneration \cup {None}, rev : Nat, applied : Nat,
     undo : Seq(AnyEntry), redo : Seq(AnyEntry),
     corr : [Slots -> [rev : Nat, val : AnyValue] \cup {None}], lost : Nat, unsup : BOOLEAN,
     pending : [dir : Directions, key : 1..MaxSequence, count : Nat, completed : Nat,
                unknown : BOOLEAN, retry : BOOLEAN] \cup {None},
     group : [token : 1..MaxSequence, entries : Seq(AnyEntry)] \cup {None}]

-----------------------------------------------------------------------------
(* The inductive invariant.                                                *)

\* Of a sequence of entries: they are of generation gen and older than seq.
Known(s, gen, next) == \A i \in 1..Len(s) : s[i].gen = gen /\ s[i].key < next

\* A group's entries have its token for key, and none below them has.
GroupFits(h, next) ==
    h.group # None =>
        /\ h.group.token < next /\ Known(h.group.entries, h.gen, next)
        /\ \A i \in 1..Len(h.group.entries) : h.group.entries[i].key = h.group.token
        /\ \A i \in 1..Len(h.undo) : h.undo[i].key # h.group.token

\* A history the actor may have before it hands out number next.
HistoryFits(h, next) ==
    /\ h \in HistoryStates
    /\ Known(h.undo, h.gen, next) /\ Known(h.redo, h.gen, next) /\ GroupFits(h, next)
    /\ h.pending # None => h.group = None

\* The item in work: an edit leaves no group open but its own, and its answer has
\* what its kind of request is answered with; an undo or redo leaves none open.
EditRunFits ==
    run # None /\ run.kind = "edit" =>
        /\ run \in EditRuns /\ run.seq < seq
        /\ run.op = "set" => run.slot \in Slots /\ run.val \in Values
        /\ run.op = "set" /\ run.reply # None /\ run.reply.st = "accepted" => run.reply.val \in Values
        /\ history.pending = None
        /\ history.group # None => run.token = history.group.token
HistoryRunFits ==
    run # None /\ run.kind = "history" =>
        /\ run \in HistoryRuns /\ history.group = None
        /\ Shown(run.plan.steps) = run.shown

\* An item is of the generation of the history, which is never newer than the last.
RunIsOfHistory ==
    /\ run # None => run.kind \in {"edit", "history"} /\ run.gen = history.gen
    /\ session \in 1..MaxGeneration \cup {None} /\ lastGen \in 1..MaxGeneration

\* A cursor of the present revision shows what the history has.
VisibleRun(h, dir) == Shown(TopRun(VisibleStack(h, dir), Top(VisibleStack(h, dir)).key))
CursorFits ==
    cursor # None =>
        /\ cursor \in [dir : Directions, at : [head : 1..MaxSequence \cup {None}, rev : Nat],
                       shown : Seq(ShownEntry)]
        /\ cursor.at.rev <= history.rev
        /\ cursor.at = HistoryCursor(history, cursor.dir) => cursor.shown = VisibleRun(history, cursor.dir)

\* The scene and the screen's capture.
SceneFits ==
    /\ engine \in [AllSlots -> Values \cup {"unborn", "alive", "gone"}]
    /\ \A s \in Slots : engine[s] \in Values
    /\ \A o \in Objects : engine[<<o, "object">>] \in {"unborn", "alive", "gone"}
    /\ capture # None => capture \in [gen : 1..MaxGeneration, rev : Nat, slot : Slots, val : AnyValue]

EditInv ==
    /\ seq \in 1..MaxSequence + 1 /\ HistoryFits(history, seq)
    /\ EditRunFits /\ HistoryRunFits /\ RunIsOfHistory /\ CursorFits /\ SceneFits

-----------------------------------------------------------------------------
(* Runs on top of a stack.                                                 *)

\* A set of natural numbers has a least one: of the finite sets 1..k the inclusion
\* is well-founded.
LEMMA Least ==
    ASSUME NEW T, T \subseteq Nat, T # {}
    PROVE  \E m \in T : \A k \in T : m <= k
<1> DEFINE Below == {1..k : k \in T}
<1>1. Below \subseteq FiniteSubsetsOf(Nat) /\ Below # {}
  <2>1. \A k \in T : IsFiniteSet(1..k) /\ 1..k \in SUBSET Nat
    BY FS_Interval
  <2> QED
    BY <2>1 DEF FiniteSubsetsOf
<1>2. IsWellFoundedOn(StrictSubsetOrdering(Nat), FiniteSubsetsOf(Nat))
  BY FS_StrictSubsetOrderingWellFounded
<1>3. \E x \in Below : \A y \in Below : ~(<<y, x>> \in StrictSubsetOrdering(Nat))
  <2> HIDE DEF Below
  <2> QED
    BY <1>1, <1>2, WFMin
<1>4. PICK m \in T : \A k \in T : ~(<<1..k, 1..m>> \in StrictSubsetOrdering(Nat))
  BY <1>3
<1>5. ASSUME NEW k \in T PROVE m <= k
  <2> SUFFICES ASSUME k < m PROVE FALSE
    OBVIOUS
  <2>1. 1..k \in SUBSET Nat /\ 1..m \in SUBSET Nat /\ 1..k \subseteq 1..m /\ m \in 1..m /\ m \notin 1..k
    OBVIOUS
  <2>2. <<1..k, 1..m>> \in StrictSubsetOrdering(Nat)
    BY <2>1 DEF StrictSubsetOrdering
  <2> QED
    BY <1>4, <2>2
<1> QED
  BY <1>5

\* A run begins at one place only, and holds the top entry if that has its key.
LEMMA RunBegins ==
    ASSUME NEW S, NEW s \in Seq(S), NEW key
    PROVE  /\ \E n \in 1..Len(s) + 1 :
                /\ \A i \in n..Len(s) : s[i].key = key
                /\ n = 1 \/ s[n - 1].key # key
           /\ \A m, n \in 1..Len(s) + 1 :
                /\ \A i \in m..Len(s) : s[i].key = key
                /\ m = 1 \/ s[m - 1].key # key
                /\ \A i \in n..Len(s) : s[i].key = key
                /\ n = 1 \/ s[n - 1].key # key
                => m = n
<1> DEFINE Starts == {n \in Nat : n > 0 /\ \A i \in 1..Len(s) : i >= n => s[i].key = key}
<1>1. Len(s) \in Nat
  OBVIOUS
<1>2. Len(s) + 1 \in Starts
  BY <1>1
<1>3. PICK m \in Starts : \A k \in Starts : m <= k
  <2> HIDE DEF Starts
  <2>1. Starts \subseteq Nat
    BY DEF Starts
  <2> QED
    BY <1>2, <2>1, Least
<1>4. m \in 1..Len(s) + 1
  BY <1>1, <1>2, <1>3
<1>5. m = 1 \/ s[m - 1].key # key
  <2> SUFFICES ASSUME m # 1, s[m - 1].key = key PROVE FALSE
    OBVIOUS
  <2>1. m - 1 \in Starts
    BY <1>1, <1>3, <1>4
  <2> QED
    BY <1>3, <1>4, <2>1
<1>6. \A i \in m..Len(s) : s[i].key = key
  BY <1>1, <1>3, <1>4
<1>7. ASSUME NEW a \in 1..Len(s) + 1, NEW b \in 1..Len(s) + 1, a < b,
             \A i \in a..Len(s) : s[i].key = key, b = 1 \/ s[b - 1].key # key
      PROVE  FALSE
  <2>1. b - 1 \in a..Len(s)
    BY <1>1, <1>7
  <2> QED
    BY <1>7, <2>1
<1>8. \A a, b \in 1..Len(s) + 1 :
         /\ \A i \in a..Len(s) : s[i].key = key
         /\ a = 1 \/ s[a - 1].key # key
         /\ \A i \in b..Len(s) : s[i].key = key
         /\ b = 1 \/ s[b - 1].key # key
         => a = b
  <2> SUFFICES ASSUME NEW a \in 1..Len(s) + 1, NEW b \in 1..Len(s) + 1,
                      \A i \in a..Len(s) : s[i].key = key, a = 1 \/ s[a - 1].key # key,
                      \A i \in b..Len(s) : s[i].key = key, b = 1 \/ s[b - 1].key # key,
                      a # b
               PROVE  FALSE
    OBVIOUS
  <2>1. a < b \/ b < a
    BY <1>1
  <2> QED
    BY <1>7, <2>1
<1> QED
  BY <1>4, <1>5, <1>6, <1>8

\* TopRun from where its key begins.
LEMMA TopRunFrom ==
    ASSUME NEW S, NEW s \in Seq(S), NEW key, NEW n \in 1..Len(s) + 1,
           \A i \in n..Len(s) : s[i].key = key, n = 1 \/ s[n - 1].key # key
    PROVE  TopRun(s, key) = [i \in 1..(Len(s) + 1 - n) |-> s[Len(s) + 1 - i]]
<1> DEFINE Begins(m) == /\ \A i \in m..Len(s) : s[i].key = key
                        /\ m = 1 \/ s[m - 1].key # key
<1>1. Begins(n) /\ \A m \in 1..Len(s) + 1 : Begins(m) => m = n
  BY RunBegins
<1> HIDE DEF Begins
<1>2. (CHOOSE m \in 1..(Len(s) + 1) : Begins(m)) = n
  BY <1>1
<1> USE DEF Begins
<1> QED
  BY <1>2 DEF TopRun

\* TopRun is a sequence of the stack's entries; the first is the top one if the
\* key is the top one's.
LEMMA TopRunType ==
    ASSUME NEW S, NEW s \in Seq(S), NEW key
    PROVE  /\ TopRun(s, key) \in Seq(S)
           /\ s # <<>> /\ key = Top(s).key => TopRun(s, key) # <<>> /\ TopRun(s, key)[1] \in S
<1>1. PICK n \in 1..Len(s) + 1 :
         /\ \A i \in n..Len(s) : s[i].key = key
         /\ n = 1 \/ s[n - 1].key # key
  BY RunBegins
<1>2. TopRun(s, key) = [i \in 1..(Len(s) + 1 - n) |-> s[Len(s) + 1 - i]]
  BY <1>1, TopRunFrom
<1>3. Len(s) \in Nat /\ Len(s) + 1 - n \in Nat
  OBVIOUS
<1>4. \A i \in 1..(Len(s) + 1 - n) : s[Len(s) + 1 - i] \in S
  <2> TAKE i \in 1..(Len(s) + 1 - n)
  <2>1. Len(s) + 1 - i \in 1..Len(s)
    BY <1>3
  <2> QED
    BY <2>1
<1>5. TopRun(s, key) \in Seq(S) /\ Len(TopRun(s, key)) = Len(s) + 1 - n
  BY <1>2, <1>3, <1>4
<1>6. ASSUME s # <<>>, key = Top(s).key PROVE TopRun(s, key) # <<>> /\ TopRun(s, key)[1] \in S
  <2>1. Len(s) > 0 /\ s[Len(s)].key = key
    BY <1>6 DEF Top
  <2>2. n # Len(s) + 1
    BY <1>1, <1>3, <2>1
  <2>3. Len(s) + 1 - n > 0
    BY <1>3, <2>2
  <2> QED
    BY <1>5, <2>3
<1> QED
  BY <1>5, <1>6

-----------------------------------------------------------------------------
(* The methods of a history keep it fit, and move its revision when they   *)
(* change it.                                                              *)

\* The next state of a history is of the same generation, and newer unless it is the same.
Follows(h, g, next) ==
    /\ HistoryFits(g, next) /\ g.gen = h.gen
    /\ g = h \/ g.rev > h.rev

\* Numbers handed out later change nothing.
LEMMA FitsLater ==
    ASSUME NEW h, NEW n \in Nat, NEW m \in Nat, n <= m, HistoryFits(h, n)
    PROVE  HistoryFits(h, m)
<1>1. \A s \in Seq(AnyEntry) : \A gen : Known(s, gen, n) => Known(s, gen, m)
  <2> SUFFICES ASSUME NEW s \in Seq(AnyEntry), NEW gen, Known(s, gen, n), NEW i \in 1..Len(s)
               PROVE  s[i].gen = gen /\ s[i].key < m
    BY DEF Known
  <2>1. s[i].gen = gen /\ s[i].key < n /\ s[i] \in AnyEntry
    BY DEF Known
  <2>2. s[i].key \in Nat
    BY <2>1, EditAssumption DEF AnyEntry
  <2> QED
    BY <2>1, <2>2
<1>2. h \in HistoryStates /\ Known(h.undo, h.gen, m) /\ Known(h.redo, h.gen, m)
  BY <1>1 DEF HistoryFits, HistoryStates
<1>3. GroupFits(h, m)
  <2> SUFFICES ASSUME h.group # None PROVE GroupFits(h, m)
    BY DEF GroupFits
  <2>1. h.group \in [token : 1..MaxSequence, entries : Seq(AnyEntry)]
    BY <1>2 DEF HistoryStates
  <2> QED
    BY <1>1, <2>1, EditAssumption DEF HistoryFits, GroupFits
<1> QED
  BY <1>2, <1>3 DEF HistoryFits

\* An empty history is fit.
LEMMA EmptyFits ==
    ASSUME NEW gen \in 1..MaxGeneration \cup {None}, NEW rev \in Nat, NEW n \in Nat
    PROVE  HistoryFits(EmptyHistory(gen, rev), n)
<1>1. NoCorrections \in [Slots -> [rev : Nat, val : AnyValue] \cup {None}]
  BY DEF NoCorrections
<1>2. EmptyHistory(gen, rev) \in HistoryStates
  <2> HIDE DEF NoCorrections
  <2> QED
    BY <1>1 DEF EmptyHistory, HistoryStates
<1> QED
  BY <1>2 DEF HistoryFits, EmptyHistory, Known, GroupFits

LEMMA SynchronizeFollows ==
    ASSUME NEW gen \in 1..MaxGeneration \cup {None}, NEW n \in Nat, NEW h, HistoryFits(h, n)
    PROVE  /\ HistoryFits(Synchronize(h, gen), n) /\ Synchronize(h, gen).gen = gen
           /\ Synchronize(h, gen) = h \/ Synchronize(h, gen).rev > h.rev
           /\ Synchronize(h, gen) = h \/ Synchronize(h, gen) = EmptyHistory(gen, h.rev + 1)
           /\ h.group = None => Synchronize(h, gen).group = None
           /\ h.pending = None => Synchronize(h, gen).pending = None
<1>1. h.rev \in Nat
  BY DEF HistoryFits, HistoryStates
<1>2. HistoryFits(EmptyHistory(gen, h.rev + 1), n)
  BY <1>1, EmptyFits
<1>3. EmptyHistory(gen, h.rev + 1).rev > h.rev /\ EmptyHistory(gen, h.rev + 1).gen = gen
        /\ EmptyHistory(gen, h.rev + 1).group = None /\ EmptyHistory(gen, h.rev + 1).pending = None
  BY <1>1 DEF EmptyHistory
<1>4. Synchronize(h, gen) = IF h.gen = gen THEN h ELSE EmptyHistory(gen, h.rev + 1)
  BY DEF Synchronize
<1> QED
  BY <1>2, <1>3, <1>4

\* The entries of a closed group.
Counted(h) ==
    [i \in 1..Len(h.group.entries) |-> [h.group.entries[i] EXCEPT !.count = Len(h.group.entries)]]

LEMMA CountedEntries ==
    ASSUME NEW h, NEW n, HistoryFits(h, n), h.group # None
    PROVE  /\ h.group.entries \in Seq(AnyEntry) /\ h.undo \in Seq(AnyEntry)
           /\ Counted(h) \in Seq(AnyEntry) /\ Len(Counted(h)) = Len(h.group.entries)
           /\ \A i \in 1..Len(h.group.entries) :
                /\ Counted(h)[i].id = h.group.entries[i].id
                /\ Counted(h)[i].rec = h.group.entries[i].rec
                /\ Counted(h)[i].gen = h.group.entries[i].gen
                /\ Counted(h)[i].key = h.group.entries[i].key
<1>1. h.group \in [token : 1..MaxSequence, entries : Seq(AnyEntry)] /\ h.undo \in Seq(AnyEntry)
  BY DEF HistoryFits, HistoryStates
<1>2. h.group.entries \in Seq(AnyEntry) /\ Len(h.group.entries) \in Nat
  BY <1>1
<1>3. ASSUME NEW i \in 1..Len(h.group.entries)
      PROVE  /\ Counted(h)[i] \in AnyEntry
             /\ Counted(h)[i].id = h.group.entries[i].id
             /\ Counted(h)[i].rec = h.group.entries[i].rec
             /\ Counted(h)[i].gen = h.group.entries[i].gen
             /\ Counted(h)[i].key = h.group.entries[i].key
  <2>1. h.group.entries[i] \in AnyEntry
    BY <1>2
  <2>2. Counted(h)[i] = [h.group.entries[i] EXCEPT !.count = Len(h.group.entries)]
    BY DEF Counted
  <2> QED
    BY <1>2, <2>1, <2>2 DEF AnyEntry
<1>4. Counted(h) \in [1..Len(h.group.entries) -> AnyEntry]
  BY <1>3 DEF Counted
<1> QED
  BY <1>1, <1>2, <1>3, <1>4

\* What closing the active group leaves.
LEMMA CloseLeaves ==
    ASSUME NEW h, NEW n, HistoryFits(h, n), h.group # None
    PROVE  /\ CloseActiveGroup(h) \in HistoryStates
           /\ CloseActiveGroup(h).undo = h.undo \o Counted(h)
           /\ CloseActiveGroup(h).redo = h.redo /\ CloseActiveGroup(h).group = None
           /\ CloseActiveGroup(h).gen = h.gen /\ CloseActiveGroup(h).rev = h.rev + 1
           /\ CloseActiveGroup(h).pending = h.pending /\ CloseActiveGroup(h).unsup = h.unsup
           /\ CloseActiveGroup(h).applied = h.applied
<1>1. h.undo \o Counted(h) \in Seq(AnyEntry)
  BY CountedEntries
<1>2. h \in HistoryStates
  BY DEF HistoryFits
<1>3. CloseActiveGroup(h) = Bump([h EXCEPT !.undo = h.undo \o Counted(h), !.group = None])
  BY <1>2 DEF CloseActiveGroup, Counted, HistoryStates
<1> HIDE DEF Counted
<1> DEFINE g == [h EXCEPT !.undo = h.undo \o Counted(h), !.group = None]
<1>4. g \in HistoryStates /\ g.undo = h.undo \o Counted(h) /\ g.redo = h.redo /\ g.group = None
        /\ g.gen = h.gen /\ g.rev = h.rev /\ g.pending = h.pending /\ g.unsup = h.unsup
        /\ g.applied = h.applied
  BY <1>1, <1>2 DEF HistoryStates
<1> HIDE DEF g
<1>5. g.rev + 1 \in Nat
  BY <1>4 DEF HistoryStates
<1>6. Bump(g) \in HistoryStates /\ Bump(g).undo = g.undo /\ Bump(g).redo = g.redo
        /\ Bump(g).group = g.group /\ Bump(g).gen = g.gen /\ Bump(g).rev = g.rev + 1
        /\ Bump(g).pending = g.pending /\ Bump(g).unsup = g.unsup /\ Bump(g).applied = g.applied
  BY <1>4, <1>5 DEF Bump, HistoryStates
<1> QED
  BY <1>3, <1>4, <1>6 DEF g

LEMMA CloseFollows ==
    ASSUME NEW h, NEW n \in Nat, HistoryFits(h, n)
    PROVE  /\ Follows(h, CloseActiveGroup(h), n)
           /\ CloseActiveGroup(h).group = None /\ CloseActiveGroup(h).pending = h.pending
<1>1. CASE h.group = None
  BY <1>1 DEF CloseActiveGroup, Follows
<1>2. CASE h.group # None
  <2> DEFINE g == CloseActiveGroup(h)
  <2>1. h \in HistoryStates /\ Known(h.undo, h.gen, n) /\ Known(h.redo, h.gen, n)
          /\ Known(h.group.entries, h.gen, n)
    BY <1>2 DEF HistoryFits, GroupFits
  <2>2. ASSUME NEW i \in 1..Len(h.undo \o Counted(h))
        PROVE  (h.undo \o Counted(h))[i].gen = h.gen /\ (h.undo \o Counted(h))[i].key < n
    <3>1. h.undo \in Seq(AnyEntry) /\ Counted(h) \in Seq(AnyEntry)
            /\ Len(Counted(h)) = Len(h.group.entries)
      BY <1>2, CountedEntries
    <3>2. CASE i <= Len(h.undo)
      <4>1. (h.undo \o Counted(h))[i] = h.undo[i] /\ i \in 1..Len(h.undo)
        BY <3>1, <3>2
      <4> QED
        BY <2>1, <4>1 DEF Known
    <3>3. CASE i > Len(h.undo)
      <4>1. (h.undo \o Counted(h))[i] = Counted(h)[i - Len(h.undo)]
              /\ i - Len(h.undo) \in 1..Len(h.group.entries)
        BY <3>1, <3>3
      <4>2. Counted(h)[i - Len(h.undo)].gen = h.group.entries[i - Len(h.undo)].gen
              /\ Counted(h)[i - Len(h.undo)].key = h.group.entries[i - Len(h.undo)].key
        BY <1>2, <4>1, CountedEntries
      <4> QED
        BY <2>1, <4>1, <4>2 DEF Known
    <3> QED
      BY <3>1, <3>2, <3>3
  <2>3. g \in HistoryStates /\ g.undo = h.undo \o Counted(h) /\ g.redo = h.redo /\ g.group = None
          /\ g.gen = h.gen /\ g.rev = h.rev + 1 /\ g.pending = h.pending
    BY <1>2, CloseLeaves
  <2> HIDE DEF g
  <2>4. Known(g.undo, g.gen, n) /\ Known(g.redo, g.gen, n)
    BY <2>1, <2>2, <2>3 DEF Known
  <2>5. HistoryFits(g, n)
    BY <2>3, <2>4 DEF HistoryFits, GroupFits
  <2>6. h.rev \in Nat
    BY <2>1 DEF HistoryStates
  <2> QED
    BY <2>3, <2>5, <2>6 DEF Follows, g
<1> QED
  BY <1>1, <1>2

\* Shown, entry by entry.
LEMMA ShownType ==
    ASSUME NEW s \in Seq(AnyEntry)
    PROVE  Shown(s) \in Seq(ShownEntry)
<1>1. Len(s) \in Nat /\ \A i \in 1..Len(s) : s[i] \in AnyEntry
  OBVIOUS
<1>2. \A i \in 1..Len(s) : [id |-> s[i].id, rec |-> s[i].rec] \in ShownEntry
  BY <1>1 DEF AnyEntry, ShownEntry
<1> QED
  BY <1>1, <1>2 DEF Shown

\* Closing the active group shows the same entries, under the same head.
LEMMA ClosedShows ==
    ASSUME NEW h, NEW n \in Nat, HistoryFits(h, n), NEW dir \in Directions,
           VisibleStack(CloseActiveGroup(h), dir) # <<>>
    PROVE  VisibleRun(CloseActiveGroup(h), dir) = VisibleRun(h, dir)
<1> DEFINE g == CloseActiveGroup(h)
<1>1. CASE h.group = None
  BY <1>1 DEF CloseActiveGroup
<1>2. CASE h.group # None
  <2>1. g.undo = h.undo \o Counted(h) /\ g.redo = h.redo /\ g.group = None
    BY <1>2, CloseLeaves
  <2>2. /\ h.group.entries \in Seq(AnyEntry) /\ h.undo \in Seq(AnyEntry)
        /\ Counted(h) \in Seq(AnyEntry) /\ Len(Counted(h)) = Len(h.group.entries)
        /\ \A i \in 1..Len(h.group.entries) :
             /\ Counted(h)[i].id = h.group.entries[i].id
             /\ Counted(h)[i].rec = h.group.entries[i].rec
             /\ Counted(h)[i].key = h.group.entries[i].key
    BY <1>2, CountedEntries
  <2> HIDE DEF g
  <2>3. CASE dir = "redo"
    BY <2>1, <2>3 DEF VisibleRun, VisibleStack, Stack, g
  <2>4. CASE dir = "undo" /\ h.group.entries = <<>>
    <3>1. Counted(h) = <<>>
      BY <2>2, <2>4
    <3>2. g.undo = h.undo
      BY <2>1, <2>2, <3>1
    <3> QED
      BY <2>1, <2>4, <3>2 DEF VisibleRun, VisibleStack, Stack, g
  <2>5. CASE dir = "undo" /\ h.group.entries # <<>>
    <3> DEFINE token == h.group.token
               e == h.group.entries
               u == h.undo
               c == Counted(h)
    <3>1. /\ \A i \in 1..Len(e) : e[i].key = token
          /\ \A i \in 1..Len(u) : u[i].key # token
      BY <1>2 DEF HistoryFits, GroupFits
    <3>2. e \in Seq(AnyEntry) /\ u \in Seq(AnyEntry) /\ c \in Seq(AnyEntry) /\ Len(c) = Len(e)
            /\ \A i \in 1..Len(e) : c[i].id = e[i].id /\ c[i].rec = e[i].rec /\ c[i].key = token
      BY <2>2, <3>1
    <3>3. VisibleStack(h, dir) = e /\ VisibleStack(g, dir) = u \o c /\ e # <<>>
      BY <1>2, <2>1, <2>5 DEF VisibleStack, Stack
    <3> HIDE DEF token, e, u, c
    <3>4. Len(e) \in Nat /\ Len(u) \in Nat /\ Len(e) > 0 /\ Len(u \o c) = Len(u) + Len(e)
      <4>1. e \in Seq(AnyEntry) /\ u \in Seq(AnyEntry) /\ c \in Seq(AnyEntry) /\ Len(c) = Len(e)
              /\ e # <<>>
        BY <3>2, <3>3
      <4>2. Len(e) \in Nat /\ Len(e) # 0
        BY <4>1
      <4>3. Len(u) \in Nat
        BY <4>1
      <4>4. Len(u \o c) = Len(u) + Len(c)
        BY <4>1
      <4> QED
        BY <4>1, <4>2, <4>3, <4>4
    <3>5. u \o c \in Seq(AnyEntry)
      BY <3>2
    <3>6. \A i \in 1..Len(u \o c) :
             (u \o c)[i] = IF i <= Len(u) THEN u[i] ELSE c[i - Len(u)]
      BY <3>2
    <3>7. Top(e).key = token /\ Top(u \o c).key = token
      <4>1. Len(e) \in 1..Len(e) /\ Len(u \o c) \in 1..Len(u \o c) /\ Len(u \o c) - Len(u) = Len(e)
              /\ ~(Len(u \o c) <= Len(u))
        BY <3>4
      <4>2. (u \o c)[Len(u \o c)] = c[Len(e)]
        BY <3>6, <4>1
      <4> QED
        BY <3>1, <3>2, <4>1, <4>2 DEF Top, e
    <3>8. TopRun(e, token) = [i \in 1..Len(e) |-> e[Len(e) + 1 - i]]
      <4>1. \A i \in 1..Len(e) : e[i].key = token
        BY <3>1 DEF e, token
      <4>2. 1 \in 1..Len(e) + 1
        BY <3>4
      <4>3. TopRun(e, token) = [i \in 1..(Len(e) + 1 - 1) |-> e[Len(e) + 1 - i]]
        <5> HIDE DEF token, e
        <5> QED
          BY <3>2, <4>1, <4>2, TopRunFrom, Zenon
      <4> QED
        BY <3>4, <4>3
    <3>9. TopRun(u \o c, token) = [i \in 1..Len(e) |-> (u \o c)[Len(u \o c) + 1 - i]]
      <4>1. Len(u) + 1 \in 1..Len(u \o c) + 1
        BY <3>4
      <4>2. \A i \in (Len(u) + 1)..Len(u \o c) : (u \o c)[i].key = token
        BY <3>2, <3>4, <3>6
      <4>3. Len(u) + 1 = 1 \/ (u \o c)[Len(u) + 1 - 1].key # token
        <5>1. \A i \in 1..Len(u) : u[i].key # token
          BY <3>1 DEF u, token
        <5> QED
          BY <3>4, <3>6, <5>1
      <4>4. TopRun(u \o c, token)
              = [i \in 1..(Len(u \o c) + 1 - (Len(u) + 1)) |-> (u \o c)[Len(u \o c) + 1 - i]]
        <5> DEFINE w == u \o c
                   k == Len(u) + 1
        <5>1. /\ w \in Seq(AnyEntry) /\ k \in 1..Len(w) + 1
              /\ \A i \in k..Len(w) : w[i].key = token
              /\ k = 1 \/ w[k - 1].key # token
          BY <3>5, <4>1, <4>2, <4>3
        <5> HIDE DEF w, k
        <5>2. TopRun(w, token) = [i \in 1..(Len(w) + 1 - k) |-> w[Len(w) + 1 - i]]
          BY <5>1, TopRunFrom, Zenon
        <5> QED
          BY <5>2 DEF w, k
      <4>5. Len(u \o c) + 1 - (Len(u) + 1) = Len(e)
        BY <3>4
      <4> QED
        BY <4>4, <4>5
    <3>10. Shown(TopRun(u \o c, token)) = Shown(TopRun(e, token))
      <4>1. Len(TopRun(u \o c, token)) = Len(e) /\ Len(TopRun(e, token)) = Len(e)
        BY <3>4, <3>8, <3>9
      <4>2. ASSUME NEW i \in 1..Len(e)
            PROVE  /\ TopRun(u \o c, token)[i].id = TopRun(e, token)[i].id
                   /\ TopRun(u \o c, token)[i].rec = TopRun(e, token)[i].rec
        <5>1. Len(u \o c) + 1 - i \in 1..Len(u \o c) /\ ~(Len(u \o c) + 1 - i <= Len(u))
                /\ Len(u \o c) + 1 - i - Len(u) = Len(e) + 1 - i /\ Len(e) + 1 - i \in 1..Len(e)
          BY <3>4
        <5>2. (u \o c)[Len(u \o c) + 1 - i] = c[Len(e) + 1 - i]
          BY <3>6, <5>1
        <5> QED
          <6>1. TopRun(u \o c, token)[i] = c[Len(e) + 1 - i]
            BY <3>9, <5>2
          <6>2. TopRun(e, token)[i] = e[Len(e) + 1 - i]
            BY <3>8
          <6> QED
            BY <3>2, <5>1, <6>1, <6>2
      <4> QED
        BY <4>1, <4>2 DEF Shown
    <3> QED
      BY <3>3, <3>7, <3>10 DEF VisibleRun, g
  <2> QED
    BY <2>3, <2>4, <2>5 DEF Directions
<1> QED
  BY <1>1, <1>2

-----------------------------------------------------------------------------
(* The correction cache.                                                   *)

\* Nothing but the cache differs.
SameButCorrections(h, g) ==
    /\ g \in HistoryStates /\ g.gen = h.gen /\ g.rev = h.rev /\ g.applied = h.applied
    /\ g.undo = h.undo /\ g.redo = h.redo /\ g.unsup = h.unsup
    /\ g.pending = h.pending /\ g.group = h.group

\* It does not matter to a history that is fit.
LEMMA CorrectionsFit ==
    ASSUME NEW h, NEW n, HistoryFits(h, n), NEW g, SameButCorrections(h, g)
    PROVE  HistoryFits(g, n)
BY DEF SameButCorrections, HistoryFits, GroupFits

\* A change of the cache and of what it may have lost.
LEMMA CorrectionsChange ==
    ASSUME NEW h \in HistoryStates, NEW lost \in Nat,
           NEW corr \in [Slots -> [rev : Nat, val : AnyValue] \cup {None}]
    PROVE  /\ SameButCorrections(h, [h EXCEPT !.corr = corr])
           /\ SameButCorrections(h, [h EXCEPT !.lost = lost])
           /\ SameButCorrections(h, [h EXCEPT !.corr = corr, !.lost = lost])
BY DEF SameButCorrections, HistoryStates

LEMMA SameButCorrectionsTrans ==
    ASSUME NEW h, NEW g, NEW k, SameButCorrections(h, g), SameButCorrections(g, k)
    PROVE  SameButCorrections(h, k)
BY DEF SameButCorrections

LEMMA LostThrough ==
    ASSUME NEW h \in HistoryStates, NEW rev \in Nat
    PROVE  SameButCorrections(h, MarkLostThrough(h, rev))
<1>1. h.lost \in Nat
  BY DEF HistoryStates
<1>2. Larger(h.lost, rev) \in Nat
  BY <1>1 DEF Larger
<1>3. MarkLostThrough(h, rev) = [h EXCEPT !.lost = Larger(h.lost, rev)]
  BY DEF MarkLostThrough, HistoryStates
<1> QED
  BY <1>2, <1>3, CorrectionsChange, Zenon DEF HistoryStates

\* One slot of the cache.
LEMMA SlotChange ==
    ASSUME NEW h \in HistoryStates, NEW slot, NEW c \in [rev : Nat, val : AnyValue] \cup {None}
    PROVE  SameButCorrections(h, [h EXCEPT !.corr[slot] = c])
<1>1. [h.corr EXCEPT ![slot] = c] \in [Slots -> [rev : Nat, val : AnyValue] \cup {None}]
  BY DEF HistoryStates
<1>2. [h EXCEPT !.corr[slot] = c] = [h EXCEPT !.corr = [h.corr EXCEPT ![slot] = c]]
  BY DEF HistoryStates
<1> QED
  BY <1>1, <1>2, CorrectionsChange, Zenon DEF HistoryStates

\* A full cache has an oldest entry.
LEMMA OldestIsCached ==
    ASSUME NEW h \in HistoryStates, ~(Cardinality(Cached(h)) < MaxCorrections)
    PROVE  Oldest(h) \in Cached(h) /\ h.corr[Oldest(h)].rev \in Nat
<1>1. \A s \in Cached(h) : h.corr[s] \in [rev : Nat, val : AnyValue]
  BY DEF Cached, HistoryStates
<1>2. Cached(h) # {}
  BY FS_EmptySet, EditAssumption
<1> DEFINE T == {h.corr[s].rev : s \in Cached(h)}
<1>3. T \subseteq Nat /\ T # {}
  BY <1>1, <1>2
<1>4. PICK m \in T : \A k \in T : m <= k
  <2> HIDE DEF T
  <2> QED
    BY <1>3, Least
<1>5. \E s \in Cached(h) : \A t \in Cached(h) : h.corr[s].rev <= h.corr[t].rev
  BY <1>4
<1>6. Oldest(h) \in Cached(h)
  BY <1>5 DEF Oldest
<1> QED
  BY <1>1, <1>6

LEMMA InsertCorrectionFits ==
    ASSUME NEW h \in HistoryStates, NEW slot, NEW val \in AnyValue
    PROVE  SameButCorrections(h, InsertCorrection(h, slot, val))
<1> DEFINE rest == [h EXCEPT !.corr[slot] = None]
           old == Oldest(rest)
           room == IF Cardinality(Cached(rest)) < MaxCorrections
                     THEN rest
                     ELSE MarkLostThrough([rest EXCEPT !.corr[old] = None], rest.corr[old].rev)
<1>1. InsertCorrection(h, slot, val)
        = IF val \in Oversized
            THEN MarkLostThrough(rest, h.applied)
            ELSE [room EXCEPT !.corr[slot] = [rev |-> h.applied, val |-> val]]
  BY DEF InsertCorrection
<1>2. SameButCorrections(h, rest) /\ rest \in HistoryStates
  BY SMTT(30), SlotChange DEF SameButCorrections
<1> HIDE DEF rest
<1>3. SameButCorrections(h, room) /\ room \in HistoryStates
  <2>1. CASE Cardinality(Cached(rest)) < MaxCorrections
    BY <1>2, <2>1
  <2>2. CASE ~(Cardinality(Cached(rest)) < MaxCorrections)
    <3>1. rest.corr[old].rev \in Nat
      BY <1>2, <2>2, OldestIsCached
    <3> DEFINE g == [rest EXCEPT !.corr[old] = None]
    <3> HIDE DEF old
    <3>2. SameButCorrections(rest, g) /\ g \in HistoryStates
      BY SMTT(30), <1>2, SlotChange DEF SameButCorrections
    <3> HIDE DEF g
    <3>3. SameButCorrections(g, MarkLostThrough(g, rest.corr[old].rev))
      BY <3>1, <3>2, LostThrough
    <3>4. room = MarkLostThrough(g, rest.corr[old].rev)
      BY <2>2 DEF g
    <3>5. SameButCorrections(h, room)
      BY <1>2, <3>2, <3>3, <3>4, SameButCorrectionsTrans
    <3> QED
      BY <3>5 DEF SameButCorrections
  <2> QED
    BY <2>1, <2>2
<1> HIDE DEF room
<1>4. h.applied \in Nat
  BY DEF HistoryStates
<1>5. CASE val \in Oversized
  BY <1>1, <1>2, <1>4, <1>5, LostThrough, SameButCorrectionsTrans
<1>6. CASE val \notin Oversized
  <2>1. [rev |-> h.applied, val |-> val] \in [rev : Nat, val : AnyValue]
    BY <1>4
  <2>2. SameButCorrections(room, [room EXCEPT !.corr[slot] = [rev |-> h.applied, val |-> val]])
    BY <1>3, <2>1, SlotChange
  <2> QED
    BY <1>1, <1>3, <1>6, <2>2, SameButCorrectionsTrans
<1> QED
  BY <1>5, <1>6

LEMMA RemoveObjectFits ==
    ASSUME NEW h \in HistoryStates, NEW o
    PROVE  SameButCorrections(h, RemoveObject(h, o))
<1> DEFINE corr == [s \in Slots |-> IF s[1] = o THEN None ELSE h.corr[s]]
           g == [h EXCEPT !.corr = corr]
<1>1. corr \in [Slots -> [rev : Nat, val : AnyValue] \cup {None}]
  BY DEF HistoryStates
<1>2. h.applied \in Nat /\ RemoveObject(h, o)
        = IF \E s \in Cached(h) : s[1] = o THEN MarkLostThrough(g, h.applied) ELSE h
  BY DEF RemoveObject, HistoryStates
<1> HIDE DEF corr
<1>3. SameButCorrections(h, g) /\ g \in HistoryStates
  BY <1>1, CorrectionsChange, Zenon DEF SameButCorrections, HistoryStates
<1> HIDE DEF g
<1>4. SameButCorrections(h, MarkLostThrough(g, h.applied))
  BY <1>2, <1>3, LostThrough, SameButCorrectionsTrans
<1>5. SameButCorrections(h, h)
  BY DEF SameButCorrections
<1> QED
  BY <1>2, <1>4, <1>5

LEMMA InsertParentFits ==
    ASSUME NEW h \in HistoryStates, NEW o
    PROVE  SameButCorrections(h, InsertParent(h, o))
<1>1. Root \in AnyValue
  BY EditAssumption DEF AnyValue
<1>2. SameButCorrections(h, h)
  BY DEF SameButCorrections
<1> QED
  BY <1>1, <1>2, InsertCorrectionFits DEF InsertParent

LEMMA UpdateActionCorrectionsFits ==
    ASSUME NEW h \in HistoryStates, NEW old, NEW new, NEW dir, NEW reply \in Replies
    PROVE  SameButCorrections(h, UpdateActionCorrections(h, old, new, dir, reply))
<1>1. reply.val \in AnyValue
  BY DEF Replies
<1>2. SameButCorrections(h, InsertCorrection(h, old.slot, reply.val))
  BY <1>1, InsertCorrectionFits
<1>3. SameButCorrections(h, RemoveObject(h, old.slot[1]))
  BY RemoveObjectFits
<1>4. SameButCorrections(h, InsertParent(RemoveObject(h, old.slot[1]), new.slot[1]))
  BY <1>3, InsertParentFits, SameButCorrectionsTrans DEF SameButCorrections
<1> QED
  BY <1>2, <1>3, <1>4 DEF UpdateActionCorrections

-----------------------------------------------------------------------------
(* Stacks.                                                                 *)

\* What an operator that leaves the group and the pending group alone preserves.
SameKind(h, g) ==
    /\ g.gen = h.gen /\ g.group = h.group /\ g.pending = h.pending /\ g.unsup = h.unsup

LEMMA BumpFits ==
    ASSUME NEW h, NEW n, HistoryFits(h, n)
    PROVE  /\ HistoryFits(Bump(h), n) /\ SameKind(h, Bump(h))
           /\ Bump(h).undo = h.undo /\ Bump(h).redo = h.redo
           /\ Bump(h).rev = h.rev + 1 /\ Bump(h).rev > h.rev /\ Follows(h, Bump(h), n)
<1>1. h \in HistoryStates /\ h.rev + 1 \in Nat /\ h.rev + 1 > h.rev
  BY DEF HistoryFits, HistoryStates
<1>2. /\ Bump(h) \in HistoryStates /\ Bump(h).rev = h.rev + 1 /\ SameKind(h, Bump(h))
      /\ Bump(h).undo = h.undo /\ Bump(h).redo = h.redo
  BY <1>1 DEF Bump, HistoryStates, SameKind
<1> HIDE DEF Bump
<1>3. HistoryFits(Bump(h), n)
  BY <1>2 DEF HistoryFits, GroupFits, SameKind
<1> QED
  BY <1>1, <1>2, <1>3 DEF Follows, SameKind

LEMMA StackFits ==
    ASSUME NEW h, NEW n, HistoryFits(h, n), NEW dir \in Directions
    PROVE  /\ Stack(h, dir) \in Seq(AnyEntry) /\ Known(Stack(h, dir), h.gen, n)
           /\ VisibleStack(h, dir) \in Seq(AnyEntry) /\ Known(VisibleStack(h, dir), h.gen, n)
           /\ Opposite(dir) \in Directions
BY DEF HistoryFits, HistoryStates, GroupFits, Stack, VisibleStack, Opposite, Directions

LEMMA SetStackFits ==
    ASSUME NEW h, NEW n, HistoryFits(h, n), h.group = None, NEW dir \in Directions,
           NEW s \in Seq(AnyEntry), Known(s, h.gen, n)
    PROVE  /\ HistoryFits(SetStack(h, dir, s), n) /\ SameKind(h, SetStack(h, dir, s))
           /\ SetStack(h, dir, s).rev = h.rev
<1>1. h \in HistoryStates
  BY DEF HistoryFits
<1>2. CASE dir = "undo"
  <2>1. SetStack(h, dir, s) = [h EXCEPT !.undo = s]
    BY <1>2 DEF SetStack
  <2>2. /\ SetStack(h, dir, s) \in HistoryStates /\ SameKind(h, SetStack(h, dir, s))
        /\ SetStack(h, dir, s).rev = h.rev
        /\ SetStack(h, dir, s).undo = s /\ SetStack(h, dir, s).redo = h.redo
    BY <1>1, <2>1 DEF HistoryStates, SameKind
  <2> QED
    BY <2>2 DEF HistoryFits, GroupFits, SameKind
<1>3. CASE dir = "redo"
  <2>1. SetStack(h, dir, s) = [h EXCEPT !.redo = s]
    BY <1>3 DEF SetStack
  <2>2. /\ SetStack(h, dir, s) \in HistoryStates /\ SameKind(h, SetStack(h, dir, s))
        /\ SetStack(h, dir, s).rev = h.rev
        /\ SetStack(h, dir, s).redo = s /\ SetStack(h, dir, s).undo = h.undo
    BY <1>1, <2>1 DEF HistoryStates, SameKind
  <2> QED
    BY <2>2 DEF HistoryFits, GroupFits, SameKind
<1> QED
  BY <1>2, <1>3 DEF Directions

LEMMA PopFacts ==
    ASSUME NEW S, NEW s \in Seq(S), s # <<>>
    PROVE  /\ Pop(s) \in Seq(S) /\ Len(Pop(s)) = Len(s) - 1
           /\ \A i \in 1..(Len(s) - 1) : Pop(s)[i] = s[i]
<1>1. Len(s) \in Nat /\ Len(s) > 0 /\ Len(s) - 1 \in 0..Len(s)
  OBVIOUS
<1>2. Pop(s) = SubSeq(s, 1, Len(s) - 1)
  BY DEF Pop
<1>3. SubSeq(s, 1, Len(s) - 1) = [i \in 1..(Len(s) - 1) |-> s[i]]
  BY <1>1
<1>4. \A i \in 1..(Len(s) - 1) : s[i] \in S
  BY <1>1
<1>5. Pop(s) = [i \in 1..(Len(s) - 1) |-> s[i]]
  BY <1>2, <1>3
<1> QED
  BY <1>1, <1>4, <1>5

LEMMA PopKnown ==
    ASSUME NEW s \in Seq(AnyEntry), NEW gen, NEW n, Known(s, gen, n), s # <<>>
    PROVE  /\ Pop(s) \in Seq(AnyEntry) /\ Known(Pop(s), gen, n)
           /\ Top(s) \in AnyEntry /\ Top(s).gen = gen /\ Top(s).key < n
<1>1. Len(s) \in Nat /\ Len(s) > 0 /\ Len(s) \in 1..Len(s) /\ Len(s) - 1 \in Nat
  OBVIOUS
<1>2. /\ Pop(s) \in Seq(AnyEntry) /\ Len(Pop(s)) = Len(s) - 1
      /\ \A i \in 1..(Len(s) - 1) : Pop(s)[i] = s[i]
  BY PopFacts
<1>3. Known(Pop(s), gen, n)
  BY <1>1, <1>2 DEF Known
<1> QED
  BY <1>1, <1>2, <1>3 DEF Known, Top

LEMMA AppendKnown ==
    ASSUME NEW s \in Seq(AnyEntry), NEW gen, NEW n, Known(s, gen, n),
           NEW e \in AnyEntry, e.gen = gen, e.key < n
    PROVE  Append(s, e) \in Seq(AnyEntry) /\ Known(Append(s, e), gen, n)
<1>1. /\ Append(s, e) \in Seq(AnyEntry) /\ Len(Append(s, e)) = Len(s) + 1 /\ Len(s) \in Nat
      /\ \A i \in 1..Len(s) + 1 : Append(s, e)[i] = IF i <= Len(s) THEN s[i] ELSE e
  OBVIOUS
<1> QED
  BY <1>1 DEF Known

\* Filtering a stack from its bottom: what is kept of its first i entries.
LEMMA WithoutKept ==
    ASSUME NEW s \in Seq(AnyEntry), NEW key
    PROVE  \E kept :
             /\ kept[0] = <<>>
             /\ \A i \in 1..Len(s) : kept[i] = IF s[i].key = key THEN kept[i - 1]
                                               ELSE Append(kept[i - 1], s[i])
             /\ Without(s, key) = kept[Len(s)]
<1> DEFINE Rest(f, i) == IF i = 0 THEN <<>>
                         ELSE IF s[i].key = key THEN f[i - 1] ELSE Append(f[i - 1], s[i])
           Keeps(f, m) == f = [i \in 0..m |-> Rest(f, i)]
           Bad == {m \in Nat : ~ \E f : Keeps(f, m)}
<1>1. ASSUME NEW m \in Bad, \A k \in Bad : m <= k PROVE FALSE
  <2>1. CASE m = 0
    <3>1. Keeps([i \in 0..0 |-> <<>>], 0)
      OBVIOUS
    <3> QED
      BY <1>1, <2>1, <3>1
  <2>2. CASE m # 0
    <3>1. m - 1 \in Nat /\ m - 1 \notin Bad
      <4> HIDE DEF Bad
      <4>1. m \in Nat
        BY <1>1 DEF Bad
      <4> QED
        BY <1>1, <2>2, <4>1
    <3>2. PICK f : Keeps(f, m - 1)
      BY <3>1
    <3> DEFINE g == [i \in 0..m |-> IF i < m THEN f[i] ELSE Rest(f, m)]
    <3>3. ASSUME NEW i \in 0..m PROVE g[i] = Rest(g, i)
      <4>1. m \in Nat /\ m > 0
        BY <1>1, <2>2
      <4>2. CASE i < m
        <5>1. i \in 0..(m - 1) /\ (i # 0 => i - 1 \in 0..(m - 1) /\ i - 1 \in 0..m /\ i - 1 < m)
          BY <4>1, <4>2
        <5>2. f[i] = Rest(f, i)
          BY <3>2, <5>1
        <5>3. g[i] = f[i] /\ (i # 0 => g[i - 1] = f[i - 1])
          BY <4>2, <5>1
        <5> HIDE DEF g
        <5> QED
          BY <5>2, <5>3
      <4>3. CASE i = m
        <5>1. g[m - 1] = f[m - 1] /\ g[m] = Rest(f, m) /\ m # 0
          BY <4>1
        <5> HIDE DEF g
        <5> QED
          BY <4>3, <5>1
      <4> QED
        BY <4>1, <4>2, <4>3
    <3>4. Keeps(g, m)
      <4>1. g = [i \in 0..m |-> Rest(g, i)]
        <5> DEFINE r == [i \in 0..m |-> Rest(g, i)]
        <5>1. \A i \in 0..m : g[i] = r[i]
          BY <3>3
        <5> QED
          BY <5>1
      <4> QED
        BY <4>1
    <3> QED
      BY <1>1, <3>4
  <2> QED
    BY <2>1, <2>2
<1>2. Bad = {}
  <2>1. Bad \subseteq Nat
    OBVIOUS
  <2> HIDE DEF Bad
  <2> QED
    BY <1>1, <2>1, Least
<1>3. Len(s) \in Nat
  OBVIOUS
<1> DEFINE kept == CHOOSE f : Keeps(f, Len(s))
<1>4. Keeps(kept, Len(s))
  BY <1>2, <1>3, Zenon
<1>5. Without(s, key) = kept[Len(s)]
  BY DEF Without
<1>6. ASSUME NEW i \in 0..Len(s) PROVE kept[i] = Rest(kept, i)
  BY <1>4, Zenon
<1> HIDE DEF kept
<1>7. kept[0] = Rest(kept, 0) /\ \A i \in 1..Len(s) : i \in 0..Len(s) /\ i # 0
  BY <1>3, <1>6
<1> QED
  BY <1>5, <1>6, <1>7

\* What is kept is as the stack was.
LEMMA WithoutKnown ==
    ASSUME NEW s \in Seq(AnyEntry), NEW gen, NEW n, Known(s, gen, n), NEW key
    PROVE  Without(s, key) \in Seq(AnyEntry) /\ Known(Without(s, key), gen, n)
<1>1. PICK kept :
         /\ kept[0] = <<>>
         /\ \A i \in 1..Len(s) : kept[i] = IF s[i].key = key THEN kept[i - 1]
                                           ELSE Append(kept[i - 1], s[i])
         /\ Without(s, key) = kept[Len(s)]
  BY WithoutKept
<1>2. Len(s) \in Nat
  OBVIOUS
<1> DEFINE Fits(t) == t \in Seq(AnyEntry) /\ Known(t, gen, n)
           Wrong == {m \in Nat : m <= Len(s) /\ ~Fits(kept[m])}
<1>3. ASSUME NEW m \in Wrong, \A k \in Wrong : m <= k PROVE FALSE
  <2>1. m \in 0..Len(s) /\ m \in Nat /\ ~Fits(kept[m])
    BY <1>2, <1>3
  <2>2. CASE m = 0
    <3>1. kept[m] = <<>>
      BY <1>1, <2>2
    <3> QED
      BY <2>1, <3>1 DEF Known
  <2>3. CASE m # 0
    <3>1. m - 1 \in Nat /\ m - 1 <= Len(s) /\ m \in 1..Len(s) /\ ~(m <= m - 1)
      BY <1>2, <2>1, <2>3
    <3>2. Fits(kept[m - 1])
      <4>1. m - 1 \notin Wrong
        <5> HIDE DEF Wrong
        <5> QED
          BY <1>3, <3>1
      <4> QED
        BY <3>1, <4>1
    <3>3. s[m] \in AnyEntry /\ s[m].gen = gen /\ s[m].key < n
      BY <3>1 DEF Known
    <3>4. Fits(Append(kept[m - 1], s[m]))
      BY <3>2, <3>3, AppendKnown
    <3> QED
      BY <1>1, <2>1, <3>1, <3>2, <3>4
  <2> QED
    BY <2>2, <2>3
<1>4. Wrong = {}
  <2>1. Wrong \subseteq Nat
    OBVIOUS
  <2> HIDE DEF Wrong
  <2> QED
    BY <1>3, <2>1, Least
<1> QED
  BY <1>1, <1>2, <1>4

-----------------------------------------------------------------------------
(* Undo and redo.                                                          *)

LEMMA UpdatedRecordType ==
    ASSUME NEW rec \in AnyRecord, NEW dir, NEW reply \in Replies
    PROVE  UpdatedRecord(rec, dir, reply) \in AnyRecord
<1>1. reply.id \in AnyObject
  BY DEF Replies
<1>2. CASE IsCreate(rec) /\ dir = "redo"
  <2>1. rec \in [slot : AnyObject \X {"object"}, old : {"gone"}, new : {"alive"}]
    BY <1>2, EditAssumption DEF AnyRecord, IsCreate
  <2>2. <<reply.id, "object">> \in AnyObject \X {"object"}
    BY <1>1
  <2>3. [rec EXCEPT !.slot = <<reply.id, "object">>]
          \in [slot : AnyObject \X {"object"}, old : {"gone"}, new : {"alive"}]
    BY <2>1, <2>2
  <2> QED
    BY <1>2, <2>3 DEF UpdatedRecord, AnyRecord
<1>3. CASE ~(IsCreate(rec) /\ dir = "redo")
  BY <1>3 DEF UpdatedRecord
<1> QED
  BY <1>2, <1>3

LEMMA NewRecordType ==
    ASSUME NEW e \in AnyEntry, NEW rec \in AnyRecord
    PROVE  /\ [e EXCEPT !.rec = rec] \in AnyEntry
           /\ [e EXCEPT !.rec = rec].gen = e.gen /\ [e EXCEPT !.rec = rec].key = e.key
BY DEF AnyEntry

\* discard_action
LEMMA DiscardActionFollows ==
    ASSUME NEW h, NEW n, HistoryFits(h, n), h.group = None, NEW plan, plan.dir \in Directions
    PROVE  Follows(h, DiscardAction(h, plan), n)
<1> DEFINE s == Stack(h, plan.dir)
           g == SetStack(h, plan.dir, Pop(s))
<1>1. CASE OnTop(h, plan.dir, plan.steps[1].id, plan.key)
  <2>1. s # <<>> /\ s \in Seq(AnyEntry) /\ Known(s, h.gen, n)
    BY <1>1, StackFits DEF OnTop
  <2>2. Pop(s) \in Seq(AnyEntry) /\ Known(Pop(s), h.gen, n)
    BY <2>1, PopKnown
  <2>3. DiscardAction(h, plan) = Bump(g)
    BY <1>1 DEF DiscardAction
  <2> HIDE DEF s
  <2>4. HistoryFits(g, n) /\ g.gen = h.gen /\ g.rev = h.rev
    BY <2>2, SetStackFits DEF SameKind
  <2> HIDE DEF g
  <2>5. HistoryFits(Bump(g), n) /\ Bump(g).gen = g.gen /\ Bump(g).rev > g.rev
    BY <2>4, BumpFits DEF SameKind
  <2> QED
    BY <2>3, <2>4, <2>5 DEF Follows
<1>2. CASE ~OnTop(h, plan.dir, plan.steps[1].id, plan.key)
  BY <1>2 DEF DiscardAction, Follows
<1> QED
  BY <1>1, <1>2

\* The entry on top moves to the other stack.
LEMMA MoveEntryFollows ==
    ASSUME NEW h, NEW n, HistoryFits(h, n), h.group = None, NEW dir \in Directions,
           Stack(h, dir) # <<>>, NEW reply \in Replies
    PROVE  /\ Follows(h, MoveEntry(h, dir, reply), n) /\ SameKind(h, MoveEntry(h, dir, reply))
           /\ MoveEntry(h, dir, reply).rev > h.rev
<1> DEFINE entry == Top(Stack(h, dir))
           rec == UpdatedRecord(entry.rec, dir, reply)
           h0 == SetStack(h, dir, Pop(Stack(h, dir)))
           h1 == [h0 EXCEPT !.applied = @ + 1]
           h2 == UpdateActionCorrections(h1, entry.rec, rec, dir, reply)
           e == [entry EXCEPT !.rec = rec]
           h3 == SetStack(h2, Opposite(dir), Append(Stack(h2, Opposite(dir)), e))
<1>1. MoveEntry(h, dir, reply) = Bump(h3)
  BY DEF MoveEntry
<1>2. /\ Pop(Stack(h, dir)) \in Seq(AnyEntry) /\ Known(Pop(Stack(h, dir)), h.gen, n)
      /\ entry \in AnyEntry /\ entry.gen = h.gen /\ entry.key < n
  BY StackFits, PopKnown
<1> HIDE DEF entry
<1>3. rec \in AnyRecord
  BY <1>2, UpdatedRecordType DEF AnyEntry
<1> HIDE DEF rec
<1>4. e \in AnyEntry /\ e.gen = h.gen /\ e.key < n
  BY <1>2, <1>3, NewRecordType
<1> HIDE DEF e
<1>5. HistoryFits(h0, n) /\ SameKind(h, h0) /\ h0.rev = h.rev
  BY <1>2, SetStackFits
<1> HIDE DEF h0
<1>6. HistoryFits(h1, n) /\ SameKind(h, h1) /\ h1.rev = h.rev
  <2>1. h0 \in HistoryStates /\ h0.applied + 1 \in Nat
    BY <1>5 DEF HistoryFits, HistoryStates
  <2>2. /\ h1 \in HistoryStates /\ SameKind(h0, h1) /\ h1.rev = h0.rev
        /\ h1.undo = h0.undo /\ h1.redo = h0.redo
    BY <2>1 DEF HistoryStates, SameKind
  <2> HIDE DEF h1
  <2> QED
    BY <1>5, <2>2 DEF HistoryFits, GroupFits, SameKind
<1> HIDE DEF h1
<1>7. SameButCorrections(h1, h2)
  BY <1>6, UpdateActionCorrectionsFits DEF HistoryFits
<1>8. HistoryFits(h2, n) /\ SameKind(h, h2) /\ h2.rev = h.rev
  BY <1>6, <1>7, CorrectionsFit DEF SameButCorrections, SameKind
<1> HIDE DEF h2
<1>9. Append(Stack(h2, Opposite(dir)), e) \in Seq(AnyEntry)
        /\ Known(Append(Stack(h2, Opposite(dir)), e), h2.gen, n) /\ Opposite(dir) \in Directions
  BY <1>4, <1>8, StackFits, AppendKnown DEF SameKind
<1>10. HistoryFits(h3, n) /\ SameKind(h, h3) /\ h3.rev = h.rev
  BY <1>8, <1>9, SetStackFits DEF SameKind
<1> HIDE DEF h3
<1>11. HistoryFits(Bump(h3), n) /\ SameKind(h3, Bump(h3)) /\ Bump(h3).rev > h3.rev
  BY <1>10, BumpFits
<1> QED
  BY <1>1, <1>10, <1>11 DEF Follows, SameKind

\* finish_action_success
LEMMA FinishActionSuccessFollows ==
    ASSUME NEW h, NEW n, HistoryFits(h, n), h.group = None, NEW plan, plan.dir \in Directions,
           NEW reply \in Replies
    PROVE  Follows(h, FinishActionSuccess(h, plan, reply), n)
<1>1. Follows(h, DiscardAction(h, plan), n)
  BY DiscardActionFollows
<1>2. OnTop(h, plan.dir, plan.steps[1].id, plan.key)
        => Follows(h, MoveEntry(h, plan.dir, reply), n)
  BY MoveEntryFollows DEF OnTop
<1>3. Follows(h, h, n)
  BY DEF Follows
<1> QED
  BY <1>1, <1>2, <1>3 DEF FinishActionSuccess

\* replace_record_ids
LEMMA ReplacedRecordType ==
    ASSUME NEW rec \in AnyRecord, NEW old, NEW new \in AnyObject
    PROVE  ReplaceRecordIds(rec, old, new) \in AnyRecord
<1>1. CASE rec.slot[1] = old
  <2>1. ReplaceRecordIds(rec, old, new) = [rec EXCEPT !.slot = <<new, rec.slot[2]>>]
    BY <1>1 DEF ReplaceRecordIds, AnyRecord
  <2>2. CASE rec \in [slot : AnyObject \X Attributes, old : Values, new : Values]
    BY <2>1, <2>2 DEF AnyRecord
  <2>3. CASE rec \in [slot : AnyObject \X {"object"}, old : {"gone"}, new : {"alive"}]
    BY <2>1, <2>3 DEF AnyRecord
  <2> QED
    BY <2>2, <2>3 DEF AnyRecord
<1>2. CASE rec.slot[1] # old
  BY <1>2 DEF ReplaceRecordIds
<1> QED
  BY <1>1, <1>2

\* remap_group_ids
LEMMA RemapKnown ==
    ASSUME NEW s \in Seq(AnyEntry), NEW gen, NEW n, Known(s, gen, n),
           NEW key, NEW old, NEW new \in AnyObject
    PROVE  /\ RemapGroupIds(s, key, old, new) \in Seq(AnyEntry)
           /\ Known(RemapGroupIds(s, key, old, new), gen, n)
<1> DEFINE t == RemapGroupIds(s, key, old, new)
<1>1. ASSUME NEW i \in 1..Len(s) PROVE t[i] \in AnyEntry /\ t[i].gen = gen /\ t[i].key < n
  <2>1. s[i] \in AnyEntry /\ s[i].gen = gen /\ s[i].key < n
    BY DEF Known
  <2>2. s[i].rec \in AnyRecord
    BY <2>1 DEF AnyEntry
  <2>3. ReplaceRecordIds(s[i].rec, old, new) \in AnyRecord
    BY <2>2, ReplacedRecordType
  <2>4. t[i] = IF s[i].key = key THEN [s[i] EXCEPT !.rec = ReplaceRecordIds(s[i].rec, old, new)]
               ELSE s[i]
    BY <2>1 DEF RemapGroupIds, AnyEntry
  <2> QED
    BY <2>1, <2>3, <2>4, NewRecordType
<1>2. Len(s) \in Nat /\ t \in Seq(AnyEntry) /\ Len(t) = Len(s)
  BY <1>1 DEF RemapGroupIds
<1> QED
  BY <1>1, <1>2 DEF Known

\* finish_group_step
LEMMA FinishGroupStepFollows ==
    ASSUME NEW h, NEW n, HistoryFits(h, n), h.group = None, NEW plan \in Plans,
           Stack(h, plan.dir) # <<>>, NEW reply \in Replies
    PROVE  Follows(h, FinishGroupStep(h, plan, reply), n)
             /\ FinishGroupStep(h, plan, reply).group = None
<1> DEFINE rec == Top(Stack(h, plan.dir)).rec
           moved == MoveEntry(h, plan.dir, reply)
           remap == IF IsCreate(rec) /\ plan.dir = "redo"
                      THEN [moved EXCEPT
                              !.undo = RemapGroupIds(@, plan.key, rec.slot[1], reply.id),
                              !.redo = RemapGroupIds(@, plan.key, rec.slot[1], reply.id)]
                      ELSE moved
<1>1. HistoryFits(moved, n) /\ SameKind(h, moved) /\ moved.rev > h.rev
  BY MoveEntryFollows DEF Follows, Plans
<1>2. FinishGroupStep(h, plan, reply)
        = IF h.pending = None \/ h.pending.key # plan.key THEN remap
          ELSE IF HasGroupOnStack(remap, h.pending.dir, plan.key)
            THEN [remap EXCEPT !.pending.completed = @ + 1]
            ELSE [remap EXCEPT !.pending = None]
  BY DEF FinishGroupStep
<1> HIDE DEF moved, rec
<1>3. HistoryFits(remap, n) /\ SameKind(h, remap) /\ remap.rev > h.rev
  <2>1. CASE IsCreate(rec) /\ plan.dir = "redo"
    <3> DEFINE u == RemapGroupIds(moved.undo, plan.key, rec.slot[1], reply.id)
               r == RemapGroupIds(moved.redo, plan.key, rec.slot[1], reply.id)
    <3>1. reply.id \in AnyObject /\ moved.undo \in Seq(AnyEntry) /\ moved.redo \in Seq(AnyEntry)
            /\ Known(moved.undo, moved.gen, n) /\ Known(moved.redo, moved.gen, n)
            /\ moved \in HistoryStates
      BY <1>1 DEF HistoryFits, HistoryStates, Replies
    <3>2. u \in Seq(AnyEntry) /\ r \in Seq(AnyEntry)
            /\ Known(u, moved.gen, n) /\ Known(r, moved.gen, n)
      BY <3>1, RemapKnown
    <3>3. remap = [moved EXCEPT !.undo = u, !.redo = r]
      BY <2>1, <3>1 DEF HistoryStates
    <3> HIDE DEF u, r, remap
    <3>4. remap \in HistoryStates /\ SameKind(moved, remap) /\ remap.rev = moved.rev
            /\ remap.undo = u /\ remap.redo = r
      BY <3>1, <3>2, <3>3 DEF HistoryStates, SameKind
    <3> QED
      BY <1>1, <3>2, <3>4 DEF HistoryFits, GroupFits, SameKind
  <2>2. CASE ~(IsCreate(rec) /\ plan.dir = "redo")
    BY <1>1, <2>2
  <2> QED
    BY <2>1, <2>2
<1> HIDE DEF remap
<1>4. remap \in HistoryStates /\ remap.group = None /\ remap.pending = h.pending
  BY <1>3 DEF HistoryFits, SameKind
<1>5. CASE h.pending = None \/ h.pending.key # plan.key
  BY <1>2, <1>3, <1>5 DEF Follows, SameKind
<1>6. CASE ~(h.pending = None \/ h.pending.key # plan.key)
  <2> DEFINE p == [remap.pending EXCEPT !.completed = @ + 1]
  <2>1. p \in [dir : Directions, key : 1..MaxSequence, count : Nat, completed : Nat,
               unknown : BOOLEAN, retry : BOOLEAN]
    <3>1. remap.pending \in [dir : Directions, key : 1..MaxSequence, count : Nat, completed : Nat,
                             unknown : BOOLEAN, retry : BOOLEAN]
      BY <1>4, <1>6 DEF HistoryStates
    <3>2. remap.pending.completed + 1 \in Nat
      BY <3>1
    <3> QED
      BY <3>1, <3>2
  <2>2. [remap EXCEPT !.pending.completed = @ + 1] = [remap EXCEPT !.pending = p]
    BY <1>4 DEF HistoryStates
  <2> HIDE DEF p
  <2>3. ASSUME NEW q \in {p, None}
        PROVE  Follows(h, [remap EXCEPT !.pending = q], n) /\ [remap EXCEPT !.pending = q].group = None
    <3> DEFINE g == [remap EXCEPT !.pending = q]
    <3>1. g \in HistoryStates /\ g.gen = remap.gen /\ g.rev = remap.rev /\ g.undo = remap.undo
            /\ g.redo = remap.redo /\ g.group = None
      BY <1>4, <2>1 DEF HistoryStates
    <3> HIDE DEF g
    <3>2. HistoryFits(g, n)
      BY <1>3, <3>1 DEF HistoryFits, GroupFits
    <3>3. g.gen = h.gen /\ g.rev > h.rev
      BY <1>3, <3>1 DEF SameKind
    <3> QED
      BY <3>1, <3>2, <3>3 DEF Follows, g
  <2> QED
    BY <1>2, <1>6, <2>2, <2>3
<1> QED
  BY <1>5, <1>6

-----------------------------------------------------------------------------
(* Pending groups, active groups, and what an edit records.                *)

\* Pending groups as HistoryStates has them.
PendingGroups ==
    [dir : Directions, key : 1..MaxSequence, count : Nat, completed : Nat,
     unknown : BOOLEAN, retry : BOOLEAN]

LEMMA PendingFollows ==
    ASSUME NEW h, NEW n, HistoryFits(h, n), h.group = None, NEW p \in PendingGroups \cup {None}
    PROVE  Follows(h, Bump([h EXCEPT !.pending = p]), n)
<1> DEFINE g == [h EXCEPT !.pending = p]
<1>1. h \in HistoryStates
  BY DEF HistoryFits
<1>2. g \in HistoryStates /\ g.gen = h.gen /\ g.rev = h.rev /\ g.undo = h.undo
        /\ g.redo = h.redo /\ g.group = None
  BY <1>1 DEF HistoryStates, PendingGroups
<1> HIDE DEF g
<1>3. HistoryFits(g, n)
  BY <1>2 DEF HistoryFits, GroupFits
<1>4. HistoryFits(Bump(g), n) /\ Bump(g).gen = g.gen /\ Bump(g).rev > g.rev
  BY <1>3, BumpFits DEF SameKind
<1>5. Follows(h, Bump(g), n)
  BY <1>2, <1>4 DEF Follows
<1> QED
  BY <1>5 DEF g

LEMMA StartPendingGroupFollows ==
    ASSUME NEW h, NEW n, HistoryFits(h, n), h.group = None, NEW plan \in Plans,
           NEW completed \in Nat, NEW unknown \in BOOLEAN, NEW retry \in BOOLEAN
    PROVE  Follows(h, StartPendingGroup(h, plan, completed, unknown, retry), n)
<1> DEFINE p == [dir |-> plan.dir, key |-> plan.key, count |-> plan.count,
                 completed |-> completed, unknown |-> unknown, retry |-> retry]
<1>1. p \in PendingGroups
  BY DEF PendingGroups, Plans
<1>2. StartPendingGroup(h, plan, completed, unknown, retry) = Bump([h EXCEPT !.pending = p])
  BY DEF StartPendingGroup
<1> HIDE DEF p
<1> QED
  BY <1>1, <1>2, PendingFollows

LEMMA MarkMcpOutcomeUnknownFollows ==
    ASSUME NEW h, NEW n, HistoryFits(h, n), h.group = None, NEW key \in 1..MaxSequence
    PROVE  Follows(h, MarkMcpOutcomeUnknown(h, key), n)
<1> DEFINE p == [dir |-> "undo", key |-> key, count |-> 1, completed |-> 0,
                 unknown |-> TRUE, retry |-> FALSE]
<1>1. p \in PendingGroups
  BY DEF PendingGroups, Directions
<1>2. MarkMcpOutcomeUnknown(h, key) = Bump([h EXCEPT !.pending = p])
  BY DEF MarkMcpOutcomeUnknown
<1> HIDE DEF p
<1> QED
  BY <1>1, <1>2, PendingFollows

LEMMA ClearCompletedPendingGroupFollows ==
    ASSUME NEW h, NEW n, HistoryFits(h, n), h.group = None, NEW key
    PROVE  Follows(h, ClearCompletedPendingGroup(h, key), n)
<1>1. Follows(h, h, n)
  BY DEF Follows
<1>2. Follows(h, Bump([h EXCEPT !.pending = None]), n)
  BY PendingFollows
<1> QED
  BY <1>1, <1>2 DEF ClearCompletedPendingGroup

LEMMA DiscardPendingGroupFollows ==
    ASSUME NEW h, NEW n, HistoryFits(h, n), h.group = None
    PROVE  Follows(h, DiscardPendingGroup(h), n)
<1> DEFINE u == Without(h.undo, h.pending.key)
           r == Without(h.redo, h.pending.key)
           g == [h EXCEPT !.undo = u, !.redo = r]
<1>1. h \in HistoryStates /\ h.undo \in Seq(AnyEntry) /\ h.redo \in Seq(AnyEntry)
        /\ Known(h.undo, h.gen, n) /\ Known(h.redo, h.gen, n)
  BY DEF HistoryFits, HistoryStates
<1>2. u \in Seq(AnyEntry) /\ r \in Seq(AnyEntry) /\ Known(u, h.gen, n) /\ Known(r, h.gen, n)
  BY <1>1, WithoutKnown
<1>3. DiscardPendingGroup(h) = Bump([h EXCEPT !.undo = u, !.redo = r, !.pending = None])
  BY <1>1 DEF DiscardPendingGroup, HistoryStates
<1> HIDE DEF u, r
<1>4. [h EXCEPT !.undo = u, !.redo = r, !.pending = None] = [g EXCEPT !.pending = None]
  BY <1>1 DEF HistoryStates
<1>5. g \in HistoryStates /\ g.gen = h.gen /\ g.rev = h.rev /\ g.undo = u /\ g.redo = r
        /\ g.group = None
  BY <1>1, <1>2 DEF HistoryStates
<1> HIDE DEF g
<1>6. HistoryFits(g, n)
  BY <1>2, <1>5 DEF HistoryFits, GroupFits
<1>7. Follows(g, DiscardPendingGroup(h), n)
  BY <1>3, <1>4, <1>5, <1>6, PendingFollows
<1>8. ~(DiscardPendingGroup(h) = g)
  <2>1. DiscardPendingGroup(h).rev = g.rev + 1 /\ g.rev \in Nat
    <3> DEFINE k == [g EXCEPT !.pending = None]
    <3>1. k.rev = g.rev /\ k \in HistoryStates
      BY <1>5 DEF HistoryStates
    <3>2. Bump(k).rev = k.rev + 1 /\ k.rev \in Nat
      <4> HIDE DEF k
      <4> QED
        BY <3>1 DEF Bump, HistoryStates
    <3> QED
      BY <1>3, <1>4, <3>1, <3>2
  <2> QED
    BY <2>1
<1> QED
  BY <1>5, <1>7, <1>8 DEF Follows

LEMMA MarkEditUnsupportedFollows ==
    ASSUME NEW h, NEW n, HistoryFits(h, n)
    PROVE  Follows(h, MarkEditUnsupported(h), n)
<1> DEFINE g == [h EXCEPT !.unsup = TRUE]
<1>1. g \in HistoryStates /\ g.gen = h.gen /\ g.rev = h.rev /\ g.undo = h.undo
        /\ g.redo = h.redo /\ g.group = h.group /\ g.pending = h.pending
  BY DEF HistoryFits, HistoryStates
<1>2. MarkEditUnsupported(h) = IF h.unsup THEN h ELSE Bump(g)
  BY DEF MarkEditUnsupported
<1> HIDE DEF g
<1>3. HistoryFits(g, n)
  BY <1>1 DEF HistoryFits, GroupFits
<1>4. HistoryFits(Bump(g), n) /\ Bump(g).gen = g.gen /\ Bump(g).rev > g.rev
  BY <1>3, BumpFits DEF SameKind
<1> QED
  BY <1>1, <1>2, <1>4 DEF Follows

\* An edit's group boundary: only its own group stays open.
LEMMA CloseGroupUnlessFollows ==
    ASSUME NEW h, NEW n \in Nat, HistoryFits(h, n), NEW token
    PROVE  /\ Follows(h, CloseGroupUnless(h, token), n)
           /\ CloseGroupUnless(h, token).pending = h.pending
           /\ CloseGroupUnless(h, token).group # None
                => token = CloseGroupUnless(h, token).group.token
<1>1. CASE HasGroup(h, token)
  BY <1>1 DEF CloseGroupUnless, HasGroup, Follows
<1>2. CASE ~HasGroup(h, token)
  BY <1>2, CloseFollows DEF CloseGroupUnless
<1> QED
  BY <1>1, <1>2

\* begin_named_group takes the next number for its token.
LEMMA BeginGroupFollows ==
    ASSUME NEW h, NEW n \in 1..MaxSequence, HistoryFits(h, n), h.pending = None
    PROVE  Follows(h, BeginGroup(h, n), n + 1)
<1> DEFINE c == CloseActiveGroup(h)
           group == [token |-> n, entries |-> <<>>]
           g == [c EXCEPT !.group = group]
<1>0. n \in Nat /\ n < n + 1 /\ n <= n + 1 /\ n + 1 \in Nat
  BY EditAssumption
<1>1. Follows(h, c, n) /\ c.group = None /\ c.pending = None
  BY <1>0, CloseFollows
<1>2. BeginGroup(h, n) = Bump(g)
  BY DEF BeginGroup
<1> HIDE DEF c
<1>3. HistoryFits(c, n) /\ HistoryFits(c, n + 1) /\ c.gen = h.gen /\ (c = h \/ c.rev > h.rev)
  BY <1>0, <1>1, FitsLater DEF Follows
<1>4. g \in HistoryStates /\ g.gen = c.gen /\ g.rev = c.rev /\ g.undo = c.undo
        /\ g.redo = c.redo /\ g.group = group /\ g.pending = None
  <2>1. group \in [token : 1..MaxSequence, entries : Seq(AnyEntry)]
    OBVIOUS
  <2>2. c \in HistoryStates
    BY <1>3 DEF HistoryFits
  <2> HIDE DEF group
  <2> QED
    BY <1>1, <2>1, <2>2 DEF HistoryStates
<1> HIDE DEF g
<1>5. GroupFits(g, n + 1)
  <2>1. \A i \in 1..Len(g.undo) : g.undo[i].key # n
    <3> TAKE i \in 1..Len(g.undo)
    <3>1. g.undo[i].key < n /\ g.undo[i] \in AnyEntry
      BY <1>3, <1>4 DEF HistoryFits, HistoryStates, Known
    <3>2. g.undo[i].key \in Nat
      BY <3>1, EditAssumption DEF AnyEntry
    <3> QED
      BY <1>0, <3>1, <3>2
  <2> QED
    BY <1>0, <1>4, <2>1 DEF GroupFits, Known
<1>6. HistoryFits(g, n + 1)
  BY <1>3, <1>4, <1>5 DEF HistoryFits
<1>7. HistoryFits(Bump(g), n + 1) /\ Bump(g).gen = g.gen /\ Bump(g).rev = g.rev + 1
  BY <1>6, BumpFits DEF SameKind
<1>8. c.rev \in Nat /\ h.rev \in Nat
  BY <1>3 DEF HistoryFits, HistoryStates
<1> QED
  BY <1>2, <1>3, <1>4, <1>7, <1>8 DEF Follows

\* An edit whose record fits the history: it leaves no group open but its own.
EditFits(h, edit, n) ==
    /\ edit.seq \in 1..MaxSequence /\ edit.seq < n
    /\ edit.gen = h.gen /\ edit.gen \in 1..MaxGeneration
    /\ h.pending = None
    /\ h.group # None => edit.token = h.group.token

\* What a record becomes: an entry on the undo stack, or the newest of the active group.
Into(h, e) ==
    [h EXCEPT !.group = [token |-> h.group.token, entries |-> Append(h.group.entries, e)],
              !.redo = IF h.group.entries = <<>> THEN <<>> ELSE h.redo]

\* Entry e is what a record pushes.
Pushed(h, edit, rec, n, e) ==
    /\ e.id = edit.seq /\ e.rec = rec /\ e.gen = h.gen
    /\ \/ /\ h.group = None /\ e.key < n
          /\ e.key = edit.seq /\ e.named = FALSE /\ e.count = 1
          /\ PushRecord(h, edit, rec) = [h EXCEPT !.undo = Append(h.undo, e), !.redo = <<>>]
       \/ /\ h.group # None /\ HistoryFits(Into(h, e), n)
          /\ e.key = h.group.token /\ e.named = TRUE /\ e.count = Len(h.group.entries) + 1
          /\ PushRecord(h, edit, rec) = IF Len(h.group.entries) + 1 >= MaxGroupEdits
                                          THEN CloseActiveGroup(Into(h, e)) ELSE Into(h, e)

LEMMA PushRecordForms ==
    ASSUME NEW h, NEW n \in Nat, HistoryFits(h, n), NEW edit, EditFits(h, edit, n),
           NEW rec \in AnyRecord
    PROVE  \E e \in AnyEntry : Pushed(h, edit, rec, n, e)
<1> DEFINE grouped == HasGroup(h, edit.token)
           entry == [id |-> edit.seq, gen |-> edit.gen, rec |-> rec, named |-> grouped,
                     key |-> IF grouped THEN edit.token ELSE edit.seq,
                     count |-> IF grouped THEN Len(h.group.entries) + 1 ELSE 1]
           into == [h EXCEPT !.group.entries = Append(@, entry),
                             !.redo = IF h.group.entries = <<>> THEN <<>> ELSE @]
<1>1. PushRecord(h, edit, rec)
        = IF ~grouped THEN [h EXCEPT !.undo = Append(@, entry), !.redo = <<>>]
          ELSE IF Len(into.group.entries) >= MaxGroupEdits THEN CloseActiveGroup(into) ELSE into
  BY DEF PushRecord
<1>2. h \in HistoryStates /\ h.rev \in Nat /\ h.gen \in 1..MaxGeneration \cup {None}
  BY DEF HistoryFits, HistoryStates
<1>3. CASE ~grouped
  <2>1. h.group = None
    BY <1>3 DEF EditFits, HasGroup
  <2>2. grouped = FALSE /\ edit.gen = h.gen
    BY <1>3 DEF EditFits, HasGroup
  <2>3. entry = [id |-> edit.seq, gen |-> h.gen, rec |-> rec, named |-> FALSE,
                 key |-> edit.seq, count |-> 1]
    <3> HIDE DEF grouped
    <3> QED
      BY <2>2
  <2>4. entry \in AnyEntry /\ entry.gen = h.gen /\ entry.key < n
    BY <1>2, <2>3 DEF EditFits, AnyEntry
  <2>5. PushRecord(h, edit, rec) = [h EXCEPT !.undo = Append(h.undo, entry), !.redo = <<>>]
    BY <1>1, <1>2, <1>3 DEF HistoryStates
  <2>6. /\ entry.id = edit.seq /\ entry.rec = rec /\ entry.key = edit.seq
        /\ entry.named = FALSE /\ entry.count = 1
    BY <2>3
  <2> HIDE DEF entry
  <2> QED
    BY <2>1, <2>4, <2>5, <2>6 DEF Pushed
<1>4. CASE grouped
  <2> DEFINE token == h.group.token
             e == h.group.entries
  <2>1. h.group # None /\ edit.token = token /\ e \in Seq(AnyEntry) /\ token \in 1..MaxSequence
          /\ h.group \in [token : 1..MaxSequence, entries : Seq(AnyEntry)]
    BY <1>2, <1>4 DEF HasGroup, HistoryStates
  <2>2. /\ token < n /\ Known(e, h.gen, n)
        /\ \A i \in 1..Len(e) : e[i].key = token
        /\ \A i \in 1..Len(h.undo) : h.undo[i].key # token
    BY <2>1 DEF HistoryFits, GroupFits
  <2>3. entry = [id |-> edit.seq, gen |-> h.gen, rec |-> rec, named |-> TRUE,
                 key |-> token, count |-> Len(e) + 1]
    <3>1. grouped = TRUE /\ edit.gen = h.gen
      BY <1>4 DEF EditFits, HasGroup
    <3> HIDE DEF grouped
    <3> QED
      BY <2>1, <3>1
  <2>4. entry \in AnyEntry /\ entry.gen = h.gen /\ entry.key = token
    <3>1. edit.seq \in 1..MaxSequence /\ Len(e) + 1 \in Nat /\ h.gen \in 1..MaxGeneration
      BY <2>1 DEF EditFits
    <3> HIDE DEF entry, e, token
    <3> QED
      BY <1>2, <2>1, <2>3, <3>1 DEF AnyEntry
  <2> DEFINE group == [token |-> token, entries |-> Append(e, entry)]
             redo == IF e = <<>> THEN <<>> ELSE h.redo
  <2> HIDE DEF entry
  <2>5. into = [h EXCEPT !.group = group, !.redo = redo]
    <3>1. [h.group EXCEPT !.entries = Append(@, entry)] = group
      <4> DEFINE w == Append(h.group.entries, entry)
      <4>1. w = w /\ [h.group EXCEPT !.entries = Append(@, entry)] = [h.group EXCEPT !.entries = w]
        OBVIOUS
      <4> HIDE DEF w
      <4>2. [h.group EXCEPT !.entries = w] = [token |-> h.group.token, entries |-> w]
        BY <2>1
      <4> QED
        BY <4>1, <4>2 DEF w
    <3> HIDE DEF group
    <3> QED
      BY <1>2, <2>1, <3>1 DEF HistoryStates
  <2> HIDE DEF token, e
  <2>6. Append(e, entry) \in Seq(AnyEntry) /\ Known(Append(e, entry), h.gen, n)
          /\ \A i \in 1..Len(Append(e, entry)) : Append(e, entry)[i].key = token
    <3>1. Append(e, entry) \in Seq(AnyEntry) /\ Known(Append(e, entry), h.gen, n)
      BY <2>1, <2>2, <2>4, AppendKnown
    <3>2. Len(Append(e, entry)) = Len(e) + 1 /\ Len(e) \in Nat
            /\ \A i \in 1..Len(e) + 1 : Append(e, entry)[i] = IF i <= Len(e) THEN e[i] ELSE entry
      BY <2>1, <2>4
    <3> QED
      BY <2>2, <2>4, <3>1, <3>2
  <2>7. group \in [token : 1..MaxSequence, entries : Seq(AnyEntry)]
    BY <2>1, <2>6
  <2>8. redo \in Seq(AnyEntry) /\ Known(redo, h.gen, n)
    BY <1>2 DEF HistoryFits, HistoryStates, Known
  <2>9. group.token = token /\ group.entries = Append(e, entry)
    OBVIOUS
  <2> HIDE DEF group, redo, into
  <2>10. into \in HistoryStates /\ into.gen = h.gen /\ into.rev = h.rev /\ into.undo = h.undo
           /\ into.redo = redo /\ into.group = group /\ into.pending = None
    BY <1>2, <2>5, <2>7, <2>8 DEF HistoryStates, EditFits
  <2>11. GroupFits(into, n)
    <3>1. group.token < n
      BY <2>2, <2>9
    <3> QED
      BY <2>2, <2>6, <2>9, <2>10, <3>1 DEF GroupFits
  <2>12. HistoryFits(into, n)
    BY <2>8, <2>10, <2>11 DEF HistoryFits
  <2>13. Into(h, entry) = into
    BY <2>5 DEF Into, group, redo, token, e
  <2>14. PushRecord(h, edit, rec) = IF Len(e) + 1 >= MaxGroupEdits THEN CloseActiveGroup(into) ELSE into
    <3>1. Len(into.group.entries) = Len(e) + 1
      <4>1. into.group.entries = Append(e, entry)
        BY <2>9, <2>10
      <4>2. Len(Append(e, entry)) = Len(e) + 1
        BY <2>1, <2>4
      <4> QED
        BY <4>1, <4>2
    <3> QED
      BY <1>1, <1>4, <3>1 DEF into
  <2>15. /\ entry \in AnyEntry /\ entry.id = edit.seq /\ entry.rec = rec /\ entry.gen = h.gen
         /\ entry.key = token /\ entry.named = TRUE /\ entry.count = Len(e) + 1
    BY <2>3, <2>4
  <2> QED
    BY <2>1, <2>12, <2>13, <2>14, <2>15 DEF token, e, Pushed
<1> QED
  BY <1>3, <1>4

LEMMA PushRecordFits ==
    ASSUME NEW h, NEW n \in Nat, HistoryFits(h, n), NEW edit, EditFits(h, edit, n),
           NEW rec \in AnyRecord
    PROVE  /\ HistoryFits(PushRecord(h, edit, rec), n)
           /\ PushRecord(h, edit, rec).gen = h.gen /\ PushRecord(h, edit, rec).rev >= h.rev
<1>1. h \in HistoryStates /\ h.rev \in Nat
  BY DEF HistoryFits, HistoryStates
<1>0. PICK e \in AnyEntry : Pushed(h, edit, rec, n, e)
  BY PushRecordForms
<1>2. \/ /\ h.group = None /\ e.gen = h.gen /\ e.key < n
         /\ PushRecord(h, edit, rec) = [h EXCEPT !.undo = Append(h.undo, e), !.redo = <<>>]
      \/ /\ h.group # None /\ HistoryFits(Into(h, e), n)
         /\ PushRecord(h, edit, rec) \in {Into(h, e), CloseActiveGroup(Into(h, e))}
  BY <1>0 DEF Pushed
<1>3. CASE h.group = None
  <2> DEFINE u == Append(h.undo, e)
             g == [h EXCEPT !.undo = u, !.redo = <<>>]
  <2>1. u \in Seq(AnyEntry) /\ Known(u, h.gen, n) /\ PushRecord(h, edit, rec) = g
    BY <1>1, <1>2, <1>3, AppendKnown DEF HistoryFits, HistoryStates
  <2> HIDE DEF u
  <2>2. <<>> \in Seq(AnyEntry)
    OBVIOUS
  <2>3. g \in HistoryStates /\ g.gen = h.gen /\ g.rev = h.rev /\ g.undo = u /\ g.redo = <<>>
          /\ g.group = None
    <3> DEFINE k == [h EXCEPT !.undo = u]
    <3>1. k \in HistoryStates /\ k.gen = h.gen /\ k.rev = h.rev /\ k.undo = u /\ k.group = None
      BY <1>1, <1>3, <2>1 DEF HistoryStates
    <3>2. g = [k EXCEPT !.redo = <<>>]
      OBVIOUS
    <3> HIDE DEF k, g
    <3> QED
      BY <2>2, <3>1, <3>2 DEF HistoryStates
  <2> HIDE DEF g
  <2>4. HistoryFits(g, n)
    BY <2>1, <2>3 DEF HistoryFits, GroupFits, Known
  <2> QED
    BY <1>1, <2>1, <2>3, <2>4
<1>4. CASE h.group # None
  <2> DEFINE into == Into(h, e)
  <2>1. HistoryFits(into, n) /\ PushRecord(h, edit, rec) \in {into, CloseActiveGroup(into)}
    BY <1>2, <1>4
  <2>2. into.gen = h.gen /\ into.rev = h.rev
    BY <1>1 DEF Into, HistoryStates
  <2> HIDE DEF into
  <2>3. Follows(into, CloseActiveGroup(into), n)
    BY <2>1, CloseFollows
  <2>4. CloseActiveGroup(into).rev \in Nat
    BY <2>3 DEF Follows, HistoryFits, HistoryStates
  <2> QED
    BY <1>1, <2>1, <2>2, <2>3, <2>4 DEF Follows
<1> QED
  BY <1>3, <1>4

\* record_success_in_group and record_untracked_success, for an accepted answer.
LEMMA RecordSuccessFollows ==
    ASSUME NEW h, NEW n \in Nat, HistoryFits(h, n), NEW edit \in EditRuns, EditFits(h, edit, n),
           NEW reply \in Replies,
           edit.op = "set" => edit.slot \in Slots /\ reply.val \in Values
    PROVE  Follows(h, RecordSuccess(h, edit, reply), n)
<1> DEFINE applied == [h EXCEPT !.applied = @ + 1]
           counted == Bump(applied)
           set == InsertCorrection(counted, edit.slot, reply.val)
           setRec == [slot |-> edit.slot, old |-> edit.old, new |-> reply.val]
           newRec == [slot |-> <<reply.id, "object">>, old |-> "gone", new |-> "alive"]
           parent == InsertParent(counted, reply.id)
           cleared == [counted EXCEPT !.corr = NoCorrections, !.lost = counted.applied,
                                      !.undo = <<>>, !.redo = <<>>]
<1>1. h \in HistoryStates /\ h.applied + 1 \in Nat /\ h.rev \in Nat
  BY DEF HistoryFits, HistoryStates
<1>2. HistoryFits(applied, n) /\ SameKind(h, applied) /\ applied.rev = h.rev
  <2>1. /\ applied \in HistoryStates /\ SameKind(h, applied) /\ applied.rev = h.rev
        /\ applied.undo = h.undo /\ applied.redo = h.redo
    BY <1>1 DEF HistoryStates, SameKind
  <2> HIDE DEF applied
  <2> QED
    BY <2>1 DEF HistoryFits, GroupFits, SameKind
<1>3. \/ RecordSuccess(h, edit, reply) = cleared
      \/ RecordSuccess(h, edit, reply) = set /\ edit.op = "set"
      \/ /\ RecordSuccess(h, edit, reply) = PushRecord(set, edit, setRec)
         /\ edit.op = "set" /\ edit.old # None
      \/ RecordSuccess(h, edit, reply) = counted
      \/ RecordSuccess(h, edit, reply) = PushRecord(parent, edit, newRec)
  <2> USE DEF EditRuns
  <2>1. edit.op \in {"set", "create", "delete", "other"}
    OBVIOUS
  <2> HIDE DEF EditRuns, applied, set, setRec, newRec, parent
  <2> QED
    BY <2>1 DEF RecordSuccess, applied, set, setRec, newRec, parent
<1> HIDE DEF applied
<1>4. HistoryFits(counted, n) /\ SameKind(h, counted) /\ counted.rev = h.rev + 1
  BY <1>2, BumpFits DEF SameKind
<1> HIDE DEF counted
<1>5. counted \in HistoryStates
  BY <1>4 DEF HistoryFits
\* A history that differs from counted in the cache alone, and one with a record more.
<1>6. ASSUME NEW g, SameButCorrections(counted, g)
      PROVE  /\ Follows(h, g, n)
             /\ \A rec \in AnyRecord : Follows(h, PushRecord(g, edit, rec), n)
  <2>1. HistoryFits(g, n) /\ g.gen = h.gen /\ g.rev = h.rev + 1 /\ g.group = h.group
          /\ g.pending = h.pending
    BY <1>4, <1>6, CorrectionsFit DEF SameButCorrections, SameKind
  <2>2. EditFits(g, edit, n)
    BY <2>1 DEF EditFits
  <2>3. ASSUME NEW rec \in AnyRecord PROVE Follows(h, PushRecord(g, edit, rec), n)
    <3>1. /\ HistoryFits(PushRecord(g, edit, rec), n)
          /\ PushRecord(g, edit, rec).gen = g.gen /\ PushRecord(g, edit, rec).rev >= g.rev
      BY <2>1, <2>2, PushRecordFits
    <3>2. PushRecord(g, edit, rec).rev \in Nat
      BY <3>1 DEF HistoryFits, HistoryStates
    <3> QED
      BY <1>1, <2>1, <3>1, <3>2 DEF Follows
  <2> QED
    BY <1>1, <2>1, <2>3 DEF Follows
<1>7. SameButCorrections(counted, counted)
  BY <1>5 DEF SameButCorrections
<1>8. edit.op = "set" => SameButCorrections(counted, set)
  BY <1>5, InsertCorrectionFits DEF Replies
<1>9. SameButCorrections(counted, parent)
  BY <1>5, InsertParentFits
<1>10. edit.op = "set" /\ edit.old # None => setRec \in AnyRecord
  BY DEF EditRuns, AnyValue, AnyRecord, Slots, AnyObject
<1>11. newRec \in AnyRecord
  BY DEF Replies, AnyRecord
<1>12. Follows(h, cleared, n)
  <2>1. NoCorrections \in [Slots -> [rev : Nat, val : AnyValue] \cup {None}]
    BY DEF NoCorrections
  <2> HIDE DEF NoCorrections
  <2>2. /\ cleared \in HistoryStates /\ cleared.gen = counted.gen /\ cleared.rev = counted.rev
        /\ cleared.undo = <<>> /\ cleared.redo = <<>> /\ cleared.group = counted.group
        /\ cleared.pending = counted.pending
    <3> DEFINE k == [counted EXCEPT !.corr = NoCorrections, !.lost = counted.applied]
    <3>1. /\ k \in HistoryStates /\ k.gen = counted.gen /\ k.rev = counted.rev
          /\ k.group = counted.group /\ k.pending = counted.pending
      BY <1>5, <2>1 DEF HistoryStates
    <3>2. cleared = [k EXCEPT !.undo = <<>>, !.redo = <<>>]
      BY <1>5 DEF HistoryStates
    <3> HIDE DEF k, cleared
    <3>3. <<>> \in Seq(AnyEntry)
      OBVIOUS
    <3> QED
      BY <3>1, <3>2, <3>3 DEF HistoryStates
  <2> HIDE DEF cleared
  <2>3. HistoryFits(cleared, n)
    BY <1>4, <2>2 DEF HistoryFits, GroupFits, Known
  <2> QED
    BY <1>1, <1>4, <2>2, <2>3 DEF Follows, SameKind
<1> HIDE DEF set, setRec, newRec, parent, cleared
<1> QED
  BY <1>3, <1>6, <1>7, <1>8, <1>9, <1>10, <1>11, <1>12

-----------------------------------------------------------------------------
(* Plans.                                                                  *)

LEMMA PrepareActionPlan ==
    ASSUME NEW h, NEW n, HistoryFits(h, n), NEW dir \in Directions, NEW at,
           PrepareAction(h, dir, at) # None
    PROVE  LET plan == PrepareAction(h, dir, at)
           IN  /\ plan \in Plans /\ plan.dir = dir
               /\ plan.steps # <<>> /\ plan.steps[1] \in AnyEntry
               /\ at = HistoryCursor(h, dir) /\ VisibleStack(h, dir) # <<>>
               /\ Shown(plan.steps) = VisibleRun(h, dir)
<1> DEFINE stack == VisibleStack(h, dir)
           plan == [dir |-> dir, key |-> Top(stack).key, named |-> Top(stack).named,
                    count |-> Top(stack).count, steps |-> TopRun(stack, Top(stack).key)]
<1>1. stack # <<>> /\ at = HistoryCursor(h, dir) /\ PrepareAction(h, dir, at) = plan
  BY DEF PrepareAction
<1>2. stack \in Seq(AnyEntry) /\ Known(stack, h.gen, n)
  BY StackFits
<1> HIDE DEF stack
<1>3. Top(stack) \in AnyEntry
  BY <1>1, <1>2, PopKnown
<1>4. TopRun(stack, Top(stack).key) \in Seq(AnyEntry) /\ TopRun(stack, Top(stack).key) # <<>>
        /\ TopRun(stack, Top(stack).key)[1] \in AnyEntry
  BY <1>1, <1>2, TopRunType
<1>5. plan \in Plans
  BY <1>3, <1>4 DEF Plans, AnyEntry
<1>6. Shown(plan.steps) = VisibleRun(h, dir)
  BY DEF VisibleRun, stack
<1> QED
  BY <1>1, <1>4, <1>5, <1>6 DEF stack

LEMMA PrepareRetryPlan ==
    ASSUME NEW h, NEW n, HistoryFits(h, n), PrepareRetry(h) # None
    PROVE  /\ PrepareRetry(h) \in Plans /\ PrepareRetry(h).steps # <<>>
           /\ h.pending # None /\ h.pending.completed \in Nat
<1>1. h.pending # None
  BY DEF PrepareRetry
<1>2. h.pending \in [dir : Directions, key : 1..MaxSequence, count : Nat, completed : Nat,
                     unknown : BOOLEAN, retry : BOOLEAN]
  BY <1>1 DEF HistoryFits, HistoryStates
<1> DEFINE s == Stack(h, h.pending.dir)
<1>3. s \in Seq(AnyEntry)
  BY <1>2, StackFits
<1> HIDE DEF s
<1>4. TopRun(s, h.pending.key) \in Seq(AnyEntry)
  BY <1>3, TopRunType
<1>5. PrepareRetry(h) = [dir |-> h.pending.dir, key |-> h.pending.key, named |-> TRUE,
                         count |-> h.pending.count, steps |-> TopRun(s, h.pending.key)]
        /\ TopRun(s, h.pending.key) # <<>>
  BY DEF PrepareRetry, s
<1> QED
  BY <1>1, <1>2, <1>4, <1>5 DEF Plans

-----------------------------------------------------------------------------
(* Every step keeps the invariant.                                         *)

LEMMA FollowsTrans ==
    ASSUME NEW h, NEW g, NEW k, NEW n, HistoryFits(h, n), Follows(h, g, n), Follows(g, k, n)
    PROVE  Follows(h, k, n)
<1>1. h.rev \in Nat /\ g.rev \in Nat /\ k.rev \in Nat
  BY DEF Follows, HistoryFits, HistoryStates
<1> QED
  BY <1>1 DEF Follows

\* The history of the present connection.
LEMMA CurrentFits ==
    ASSUME EditInv
    PROVE  /\ HistoryFits(Current, seq) /\ Current.gen = session /\ seq \in Nat
           /\ Current = history \/ Current.rev > history.rev
           /\ session = history.gen => Current = history
           /\ Current = history \/ Current = EmptyHistory(session, history.rev + 1)
           /\ history.group = None => Current.group = None
<1>1. session \in 1..MaxGeneration \cup {None} /\ seq \in Nat /\ HistoryFits(history, seq)
  BY EditAssumption DEF EditInv, RunIsOfHistory
<1>2. session = history.gen => Current = history
  BY DEF Current, Synchronize
<1> QED
  BY <1>1, <1>2, SynchronizeFollows DEF Current

\* What a newer history, or the same, leaves as it was.
LEMMA NewerKeeps ==
    ASSUME EditInv, HistoryFits(history', seq'), history' = history \/ history'.rev > history.rev,
           UNCHANGED <<engine, ui>>
    PROVE  CursorFits' /\ SceneFits'
<1>1. history.rev \in Nat /\ history'.rev \in Nat
  BY DEF EditInv, HistoryFits, HistoryStates
<1>2. CursorFits'
  <2> SUFFICES ASSUME cursor # None PROVE CursorFits'
    BY DEF CursorFits, ui
  <2>1. CursorFits /\ cursor' = cursor /\ cursor.at.rev \in Nat
    BY DEF EditInv, CursorFits, ui
  <2>2. CASE history' = history
    BY <2>1, <2>2 DEF CursorFits
  <2>3. CASE history'.rev > history.rev
    <3>1. cursor.at.rev < history'.rev
      BY <1>1, <2>1, <2>3 DEF CursorFits
    <3>2. cursor.at # HistoryCursor(history', cursor.dir)
      BY <2>1, <3>1 DEF HistoryCursor
    <3> QED
      BY <1>1, <2>1, <3>1, <3>2 DEF CursorFits
  <2> QED
    BY <2>2, <2>3
<1>3. SceneFits'
  BY DEF EditInv, SceneFits, ui
<1> QED
  BY <1>2, <1>3

\* The end of an item, or a control: nothing is in work.
LEMMA IdleKeeps ==
    ASSUME EditInv, HistoryFits(history', seq'), seq' \in 1..MaxSequence + 1,
           history' = history \/ history'.rev > history.rev,
           run' = None, UNCHANGED <<session, lastGen, engine, ui>>
    PROVE  EditInv'
<1>1. CursorFits' /\ SceneFits'
  BY NewerKeeps
<1>2. EditRunFits' /\ HistoryRunFits'
  BY DEF EditRunFits, HistoryRunFits
<1>3. RunIsOfHistory'
  BY DEF EditInv, RunIsOfHistory
<1> QED
  BY <1>1, <1>2, <1>3 DEF EditInv

LEMMA FinishedKeeps ==
    ASSUME EditInv, NEW h, HistoryFits(h, seq), h = history \/ h.rev > history.rev,
           Finished(h), UNCHANGED <<session, lastGen, engine, seq, ui>>
    PROVE  EditInv'
<1>1. seq \in Nat /\ session \in 1..MaxGeneration \cup {None} /\ seq \in 1..MaxSequence + 1
  BY EditAssumption DEF EditInv, RunIsOfHistory
<1>2. /\ HistoryFits(history', seq')
      /\ history' = h \/ history'.rev > h.rev
  BY <1>1, SynchronizeFollows DEF Finished
<1>3. history.rev \in Nat /\ h.rev \in Nat /\ history'.rev \in Nat
  BY <1>2 DEF EditInv, HistoryFits, HistoryStates
<1>4. history' = history \/ history'.rev > history.rev
  BY <1>2, <1>3
<1> QED
  BY <1>1, <1>2, <1>4, IdleKeeps DEF Finished

\* The types of what StartEdit starts.
EditArguments(src, op, slot, val, old, token) ==
    /\ src \in {"ui", "mcp"} /\ op \in {"set", "create", "delete", "other"}
    /\ slot \in (AnyObject \X (Attributes \cup {"object"})) \cup {None}
    /\ val \in AnyValue /\ old \in AnyValue
    /\ token \in 1..MaxSequence \cup {None}
    /\ op = "set" => slot \in Slots /\ val \in Values

LEMMA StartEditKeeps ==
    ASSUME EditInv, NEW src, NEW op, NEW slot, NEW val, NEW old, NEW token,
           EditArguments(src, op, slot, val, old, token),
           Accepted(token), StartEdit(src, op, slot, val, old, token)
    PROVE  EditInv'
<1>1. /\ HistoryFits(Current, seq) /\ Current.gen = session /\ seq \in Nat
      /\ Current = history \/ Current.rev > history.rev
  BY CurrentFits
<1>2. /\ session \in 1..MaxGeneration /\ lastGen \in 1..MaxGeneration
      /\ seq \in 1..MaxSequence /\ seq' = seq + 1 /\ Current.pending = None
      /\ history' = CloseGroupUnless(Current, token)
      /\ UNCHANGED <<session, lastGen, engine, ui>>
  BY EditAssumption DEF Accepted, Free, EditInv, RunIsOfHistory, Prepared
<1>3. /\ Follows(Current, history', seq) /\ history'.pending = None
      /\ history'.group # None => token = history'.group.token
  BY <1>1, <1>2, CloseGroupUnlessFollows
<1>4. history.rev \in Nat /\ Current.rev \in Nat /\ history'.rev \in Nat
  BY <1>1, <1>3 DEF EditInv, Follows, HistoryFits, HistoryStates
<1>5. history' = history \/ history'.rev > history.rev
  BY <1>1, <1>3, <1>4 DEF Follows
<1>6. HistoryFits(history', seq') /\ history'.gen = session
  <2>1. HistoryFits(history', seq) /\ history'.gen = Current.gen
    BY <1>3 DEF Follows
  <2>2. seq <= seq' /\ seq' \in Nat
    BY <1>1, <1>2
  <2> QED
    BY <1>1, <2>1, <2>2, FitsLater
<1>7. CursorFits' /\ SceneFits'
  BY <1>2, <1>5, <1>6, NewerKeeps DEF ui
<1> DEFINE r == [kind |-> "edit", src |-> src, gen |-> session, seq |-> seq, op |-> op,
                 slot |-> slot, val |-> val, old |-> old, token |-> token, reply |-> None]
<1>8. run' = r
  BY DEF StartEdit
<1>9. /\ r \in EditRuns /\ r.kind = "edit" /\ r.seq < seq' /\ r.reply = None /\ r.gen = session
      /\ r.op = "set" => r.slot \in Slots /\ r.val \in Values
      /\ r.token = token
  BY <1>1, <1>2 DEF EditArguments, EditRuns
<1> HIDE DEF r
<1>10. EditRunFits'
  BY <1>3, <1>8, <1>9 DEF EditRunFits
<1>11. HistoryRunFits'
  BY <1>8, <1>9 DEF HistoryRunFits
<1>12. RunIsOfHistory'
  BY <1>2, <1>6, <1>8, <1>9 DEF RunIsOfHistory
<1>13. seq' \in 1..MaxSequence + 1
  BY <1>2, EditAssumption
<1> QED
  BY <1>6, <1>7, <1>10, <1>11, <1>12, <1>13 DEF EditInv

LEMMA InitKeeps == Init => EditInv
<1> SUFFICES ASSUME Init PROVE EditInv
  OBVIOUS
<1>1. 1 \in 1..MaxGeneration /\ 1 \in Nat /\ 0 \in Nat /\ 1 \in 1..MaxSequence + 1
  BY EditAssumption
<1>2. HistoryFits(EmptyHistory(1, 0), 1)
  BY <1>1, EmptyFits
<1>3. SceneFits
  BY EditAssumption DEF Init, SceneFits, NewScene, AllSlots, Slots
<1> QED
  BY <1>1, <1>2, <1>3 DEF Init, EditInv, EditRunFits, HistoryRunFits, RunIsOfHistory, CursorFits

LEMMA DisconnectKeeps == EditInv /\ Disconnect => EditInv'
BY DEF Disconnect, EditInv, EditRunFits, HistoryRunFits, RunIsOfHistory, CursorFits, SceneFits, ui

LEMMA ConnectKeeps == EditInv /\ Connect => EditInv'
<1> SUFFICES ASSUME EditInv, Connect PROVE EditInv'
  OBVIOUS
<1>1. lastGen \in 1..MaxGeneration /\ lastGen < MaxGeneration
  BY DEF EditInv, RunIsOfHistory, Connect
<1>2. session' \in 1..MaxGeneration /\ lastGen' \in 1..MaxGeneration
  BY <1>1, EditAssumption DEF Connect
<1>3. SceneFits'
  BY EditAssumption DEF EditInv, Connect, SceneFits, NewScene, AllSlots, Slots, ui
<1> QED
  BY <1>2, <1>3
     DEF Connect, EditInv, EditRunFits, HistoryRunFits, RunIsOfHistory, CursorFits, ui

LEMMA SessionChangedKeeps == EditInv /\ SessionChanged => EditInv'
<1> SUFFICES ASSUME EditInv, SessionChanged PROVE EditInv'
  OBVIOUS
<1>1. /\ HistoryFits(Current, seq)
      /\ Current = history \/ Current.rev > history.rev
  BY CurrentFits
<1>2. run' = None /\ history' = Current /\ UNCHANGED <<session, lastGen, engine, seq, ui>>
  BY DEF SessionChanged, EditInv, RunIsOfHistory
<1>3. seq \in 1..MaxSequence + 1
  BY DEF EditInv
<1> QED
  BY <1>1, <1>2, <1>3, IdleKeeps

LEMMA CaptureValueKeeps ==
    ASSUME NEW slot \in UiSlots, EditInv, CaptureValue(slot)
    PROVE  EditInv'
<1>1. SceneFits'
  <2>1. slot \in Slots
    BY EditAssumption
  <2>2. PICK rev \in 0..history.applied :
           capture' = [gen |-> session, rev |-> rev, slot |-> slot, val |-> engine[slot]]
    BY DEF CaptureValue
  <2>3. rev \in Nat /\ session \in 1..MaxGeneration /\ engine[slot] \in AnyValue
    BY <2>1 DEF CaptureValue, EditInv, HistoryFits, HistoryStates, RunIsOfHistory, SceneFits, AnyValue
  <2> QED
    BY <2>1, <2>2, <2>3 DEF CaptureValue, EditInv, SceneFits
<1> QED
  BY <1>1 DEF CaptureValue, EditInv, EditRunFits, HistoryRunFits, RunIsOfHistory, CursorFits

LEMMA VisibleRunType ==
    ASSUME NEW h, NEW n, HistoryFits(h, n), NEW dir \in Directions
    PROVE  VisibleRun(h, dir) \in Seq(ShownEntry)
<1>1. VisibleStack(h, dir) \in Seq(AnyEntry)
  BY StackFits
<1>2. TopRun(VisibleStack(h, dir), Top(VisibleStack(h, dir)).key) \in Seq(AnyEntry)
  BY <1>1, TopRunType
<1> QED
  BY <1>2, ShownType DEF VisibleRun

LEMMA CaptureCursorKeeps ==
    ASSUME NEW dir \in UiDirections, EditInv, CaptureCursor(dir)
    PROVE  EditInv'
<1>1. dir \in Directions /\ HistoryFits(history, seq) /\ VisibleStack(history, dir) # <<>>
  BY EditAssumption DEF EditInv, CaptureCursor
<1>2. /\ cursor' = [dir |-> dir, at |-> HistoryCursor(history, dir), shown |-> VisibleRun(history, dir)]
      /\ UNCHANGED <<session, lastGen, engine, history, run, seq, capture>>
  BY DEF CaptureCursor, VisibleRun
<1>3. VisibleRun(history, dir) \in Seq(ShownEntry)
  BY <1>1, VisibleRunType
<1>4. HistoryCursor(history, dir) \in [head : 1..MaxSequence \cup {None}, rev : Nat]
  <2>1. VisibleStack(history, dir) \in Seq(AnyEntry) /\ Known(VisibleStack(history, dir), history.gen, seq)
    BY <1>1, StackFits
  <2>2. Top(VisibleStack(history, dir)).id \in 1..MaxSequence
    BY <1>1, <2>1, PopKnown DEF AnyEntry
  <2> QED
    BY <1>1, <2>2 DEF HistoryCursor, HistoryFits, HistoryStates
<1>5. HistoryCursor(history, dir).rev = history.rev /\ history.rev \in Nat
  BY <1>1 DEF HistoryCursor, HistoryFits, HistoryStates
<1>6. CursorFits'
  BY <1>1, <1>2, <1>3, <1>4, <1>5 DEF CursorFits
<1> QED
  BY <1>2, <1>6 DEF EditInv, EditRunFits, HistoryRunFits, RunIsOfHistory, SceneFits

\* A refused edit may have closed a group.
LEMMA PreparedKeeps ==
    ASSUME EditInv, NEW token, run = None, history' = Prepared(token),
           UNCHANGED <<session, lastGen, engine, run, seq, ui>>
    PROVE  EditInv'
<1>1. /\ HistoryFits(Current, seq) /\ seq \in Nat
      /\ Current = history \/ Current.rev > history.rev
  BY CurrentFits
<1>2. Follows(Current, history', seq)
  BY <1>1, CloseGroupUnlessFollows DEF Prepared
<1>3. history.rev \in Nat /\ Current.rev \in Nat /\ history'.rev \in Nat
  BY <1>1, <1>2 DEF EditInv, Follows, HistoryFits, HistoryStates
<1>4. HistoryFits(history', seq') /\ (history' = history \/ history'.rev > history.rev)
  BY <1>1, <1>2, <1>3 DEF Follows
<1>5. seq' \in 1..MaxSequence + 1
  BY DEF EditInv
<1> QED
  BY <1>4, <1>5, IdleKeeps

LEMMA CurrentKeeps ==
    ASSUME EditInv, run' = None, history' = Current,
           UNCHANGED <<session, lastGen, engine, seq, ui>>
    PROVE  EditInv'
<1>1. /\ HistoryFits(Current, seq)
      /\ Current = history \/ Current.rev > history.rev
  BY CurrentFits
<1>2. seq \in 1..MaxSequence + 1
  BY DEF EditInv
<1> QED
  BY <1>1, <1>2, IdleKeeps

LEMMA EditRefusedKeeps == EditInv /\ EditRefused => EditInv'
<1> SUFFICES ASSUME EditInv, EditRefused PROVE EditInv'
  OBVIOUS
<1>1. run = None /\ UNCHANGED <<session, lastGen, engine, run, seq, ui>>
  BY DEF EditRefused, Free
<1>2. history' = Current \/ \E token \in {None} \cup 1..seq : history' = Prepared(token)
  BY DEF EditRefused
<1> QED
  BY <1>1, <1>2, CurrentKeeps, PreparedKeeps

\* resolve_capture answers with a value, or none, or to read again.
LEMMA ResolveCaptureType ==
    ASSUME NEW h \in HistoryStates, NEW known, known.slot \in Slots, known.val \in AnyValue,
           NEW gen
    PROVE  ResolveCapture(h, known, gen) \in AnyValue \cup {Refresh}
<1>1. h.corr[known.slot] \in [rev : Nat, val : AnyValue] \cup {None}
  BY DEF HistoryStates
<1>2. h.corr[known.slot] # None => h.corr[known.slot].val \in AnyValue
  BY <1>1
<1> QED
  BY <1>2 DEF ResolveCapture

LEMMA SetFromUiKeeps ==
    ASSUME NEW slot \in UiSlots, NEW val \in Values, EditInv, SetFromUi(slot, val)
    PROVE  EditInv'
<1> DEFINE fresh == [gen |-> session, rev |-> Current.applied, slot |-> slot, val |-> None]
<1>1. PICK known \in {capture, fresh} :
         /\ known # None /\ known.slot = slot
         /\ \/ /\ ResolveCapture(Prepared(None), known, session) = Refresh
               /\ Free /\ history' = Prepared(None)
               /\ UNCHANGED <<session, lastGen, engine, run, seq, ui>>
            \/ /\ ResolveCapture(Prepared(None), known, session) # Refresh
               /\ Accepted(None)
               /\ StartEdit("ui", "set", slot, val,
                            ResolveCapture(Prepared(None), known, session), None)
  BY DEF SetFromUi
<1> DEFINE old == ResolveCapture(Prepared(None), known, session)
<1>2. slot \in Slots /\ slot \in AnyObject \X (Attributes \cup {"object"})
  BY EditAssumption DEF Slots, AnyObject
<1>3. known.val \in AnyValue /\ known.slot \in Slots
  <2>1. CASE known = capture
    BY <1>1, <1>2, <2>1 DEF EditInv, SceneFits
  <2>2. CASE known = fresh
    <3>1. fresh.val = None
      OBVIOUS
    <3> QED
      BY <1>1, <1>2, <2>2, <3>1 DEF AnyValue
  <2> QED
    BY <2>1, <2>2
<1>4. Prepared(None) \in HistoryStates
  <2>1. HistoryFits(Current, seq) /\ seq \in Nat
    BY CurrentFits
  <2>2. Follows(Current, Prepared(None), seq)
    BY <2>1, CloseGroupUnlessFollows DEF Prepared
  <2> QED
    BY <2>2 DEF Follows, HistoryFits
<1>5. old \in AnyValue \cup {Refresh}
  BY <1>3, <1>4, ResolveCaptureType
<1> HIDE DEF old
<1>6. CASE old = Refresh
  BY <1>1, <1>6, PreparedKeeps DEF Free, old
<1>7. CASE old # Refresh
  <2>1. EditArguments("ui", "set", slot, val, old, None)
    BY <1>2, <1>5, <1>7 DEF EditArguments, AnyValue
  <2>2. Accepted(None) /\ StartEdit("ui", "set", slot, val, old, None)
    BY <1>1, <1>7 DEF old
  <2> QED
    BY <2>1, <2>2, StartEditKeeps
<1> QED
  BY <1>6, <1>7

LEMMA SetFromMcpKeeps ==
    ASSUME NEW slot \in Slots, NEW val \in Values, NEW token \in {None} \cup 1..MaxSequence,
           EditInv, SetFromMcp(slot, val, token)
    PROVE  EditInv'
<1>1. engine[slot] \in AnyValue
  BY DEF EditInv, SceneFits, AnyValue
<1>2. EditArguments("mcp", "set", slot, val, engine[slot], token)
  BY <1>1 DEF EditArguments, AnyValue, Slots, AnyObject
<1> QED
  BY <1>2, StartEditKeeps DEF SetFromMcp

LEMMA CreateKeeps ==
    ASSUME NEW src \in {"ui", "mcp"}, NEW token \in {None} \cup 1..MaxSequence,
           EditInv, Create(src, token)
    PROVE  EditInv'
<1>1. EditArguments(src, "create", <<None, "object">>, None, None, token)
  BY DEF EditArguments, AnyValue, AnyObject
<1> QED
  BY <1>1, StartEditKeeps DEF Create

LEMMA DeleteKeeps ==
    ASSUME NEW src \in {"ui", "mcp"}, NEW o \in Objects, EditInv, Delete(src, o)
    PROVE  EditInv'
<1>1. EditArguments(src, "delete", <<o, "object">>, None, None, None)
  BY DEF EditArguments, AnyValue, AnyObject
<1> QED
  BY <1>1, StartEditKeeps DEF Delete

LEMMA OtherEditKeeps ==
    ASSUME NEW src \in {"ui", "mcp"}, EditInv, OtherEdit(src)
    PROVE  EditInv'
<1>1. EditArguments(src, "other", None, None, None, None)
  BY DEF EditArguments, AnyValue
<1> QED
  BY <1>1, StartEditKeeps DEF OtherEdit

-----------------------------------------------------------------------------
(* The engine, and the end of an edit.                                     *)

\* An answer changes nothing else of the item.
LEMMA ReplyKeeps ==
    ASSUME EditInv, run # None, NEW reply \in Replies, run' = [run EXCEPT !.reply = reply],
           run.kind = "edit" /\ run.op = "set" /\ reply.st = "accepted" => reply.val \in Values,
           UNCHANGED <<session, lastGen, history, seq, ui>>, SceneFits'
    PROVE  EditInv'
<1>1. run.kind \in {"edit", "history"} /\ run.gen = history.gen
  BY DEF EditInv, RunIsOfHistory
<1>2. CASE run.kind = "edit"
  <2>1. run \in EditRuns /\ EditRunFits
    BY <1>2 DEF EditInv, EditRunFits
  <2>2. /\ run' \in EditRuns /\ run'.kind = "edit" /\ run'.seq = run.seq /\ run'.op = run.op
        /\ run'.slot = run.slot /\ run'.val = run.val /\ run'.gen = run.gen
        /\ run'.token = run.token /\ run'.reply = reply
    BY <2>1 DEF EditRuns
  <2>3. EditRunFits'
    BY <1>2, <2>1, <2>2 DEF EditRunFits
  <2>4. HistoryRunFits' /\ RunIsOfHistory'
    BY <1>1, <2>2 DEF EditInv, HistoryRunFits, RunIsOfHistory
  <2> QED
    BY <2>3, <2>4 DEF EditInv, CursorFits, ui
<1>3. CASE run.kind = "history"
  <2>1. run \in HistoryRuns /\ HistoryRunFits
    BY <1>3 DEF EditInv, HistoryRunFits
  <2>2. /\ run' \in HistoryRuns /\ run'.kind = "history" /\ run'.gen = run.gen
        /\ run'.plan = run.plan /\ run'.shown = run.shown
    BY <2>1 DEF HistoryRuns
  <2>3. HistoryRunFits'
    BY <1>3, <2>1, <2>2 DEF HistoryRunFits
  <2>4. EditRunFits' /\ RunIsOfHistory'
    BY <1>1, <2>2 DEF EditInv, EditRunFits, RunIsOfHistory
  <2> QED
    BY <2>3, <2>4 DEF EditInv, CursorFits, ui
<1> QED
  BY <1>1, <1>2, <1>3

\* What a request sets is a value.
LEMMA RequestType ==
    ASSUME EditInv, InFlight, Request(run).op = "set"
    PROVE  /\ Request(run).val \in Values /\ Clamp(Request(run).slot, Request(run).val) \in Values
           /\ \A o : Request(run).slot # <<o, "object">>
<1>2. Request(run).slot \in AnyObject \X Attributes
  <2>1. CASE run.kind = "edit"
    <3>1. run.op = "set"
      BY <2>1 DEF Request
    <3> QED
      BY <2>1, <3>1 DEF Request, InFlight, EditInv, EditRunFits, Slots, AnyObject
  <2>2. CASE run.kind = "history"
    <3>1. run \in HistoryRuns /\ run.step \in AnyEntry
      BY <2>2 DEF InFlight, EditInv, HistoryRunFits, HistoryRuns
    <3>2. run.step.rec \in AnyRecord /\ ~IsCreate(run.step.rec)
      BY <2>2, <3>1 DEF Request, AnyEntry
    <3>3. run.step.rec \in [slot : AnyObject \X Attributes, old : Values, new : Values]
      BY <3>2 DEF AnyRecord, IsCreate
    <3> QED
      BY <2>2, <3>2, <3>3 DEF Request
  <2> QED
    BY <2>1, <2>2 DEF InFlight, EditInv, RunIsOfHistory
<1>3. "object" \notin Attributes
  BY EditAssumption
<1>1. Request(run).val \in Values
  <2>1. CASE run.kind = "edit"
    <3>1. run.op = "set"
      BY <2>1 DEF Request
    <3> QED
      BY <2>1, <3>1 DEF Request, InFlight, EditInv, EditRunFits
  <2>2. CASE run.kind = "history"
    <3>1. run \in HistoryRuns /\ run.step \in AnyEntry
      BY <2>2 DEF InFlight, EditInv, HistoryRunFits, HistoryRuns
    <3>2. run.step.rec \in AnyRecord /\ ~IsCreate(run.step.rec)
      BY <2>2, <3>1 DEF Request, AnyEntry
    <3>3. run.step.rec \in [slot : AnyObject \X Attributes, old : Values, new : Values]
      BY <3>2 DEF AnyRecord, IsCreate
    <3>4. Request(run).val = IF run.plan.dir = "undo" THEN run.step.rec.old ELSE run.step.rec.new
      BY <2>2, <3>2 DEF Request
    <3> QED
      BY <3>3, <3>4
  <2> QED
    BY <2>1, <2>2 DEF InFlight, EditInv, RunIsOfHistory
<1> QED
  BY <1>1, <1>2, <1>3, EditAssumption DEF Clamp

LEMMA EngineAcceptsKeeps == EditInv /\ EngineAccepts => EditInv'
<1> SUFFICES ASSUME EditInv, EngineAccepts PROVE EditInv'
  OBVIOUS
<1>1. run # None /\ InFlight /\ UNCHANGED <<session, lastGen, history, seq, ui>>
  BY DEF EngineAccepts, InFlight
<1>2. /\ engine \in [AllSlots -> Values \cup {"unborn", "alive", "gone"}]
      /\ \A s \in Slots : engine[s] \in Values
      /\ \A o \in Objects : engine[<<o, "object">>] \in {"unborn", "alive", "gone"}
  BY DEF EditInv, SceneFits
<1>3. Slots \subseteq AllSlots /\ \A o : <<o, "object">> \notin Slots
  BY EditAssumption DEF Slots, AllSlots
<1>4. run.kind = "edit" => Request(run).op = run.op
  BY DEF Request
<1>5. CASE Request(run).op = "set"
  <2> DEFINE v == Clamp(Request(run).slot, Request(run).val)
             reply == [st |-> "accepted", id |-> None, val |-> v]
  <2>1. v \in Values
    BY <1>1, <1>5, RequestType
  <2>2. engine' = [engine EXCEPT ![Request(run).slot] = v] /\ run' = [run EXCEPT !.reply = reply]
    BY <1>5 DEF EngineAccepts
  <2> HIDE DEF v
  <2>3. reply \in Replies /\ reply.val \in Values
    BY <2>1 DEF Replies, AnyValue, AnyObject
  <2> HIDE DEF reply
  <2>5. /\ engine' \in [AllSlots -> Values \cup {"unborn", "alive", "gone"}]
        /\ \A s \in Slots : engine'[s] \in Values
    BY <1>2, <1>3, <2>1, <2>2
  <2>6. \A o \in Objects : engine'[<<o, "object">>] \in {"unborn", "alive", "gone"}
    <3> DEFINE slot == Request(run).slot
    <3> TAKE o \in Objects
    <3> DEFINE object == <<o, "object">>
    <3>1. slot # object
      BY <1>1, <1>5, RequestType
    <3>2. engine' = [engine EXCEPT ![slot] = v] /\ engine[object] \in {"unborn", "alive", "gone"}
      BY <1>2, <2>2
    <3>3. object \in DOMAIN engine
      BY <1>2 DEF AllSlots
    <3>4. SUFFICES engine'[object] \in {"unborn", "alive", "gone"}
      OBVIOUS
    <3> HIDE DEF slot, object
    <3> QED
      BY <3>1, <3>2, <3>3
  <2>4. SceneFits'
    BY <1>1, <2>5, <2>6 DEF EditInv, SceneFits, ui
  <2> QED
    BY <1>1, <2>2, <2>3, <2>4, ReplyKeeps
<1>6. CASE Request(run).op # "set"
  <2>1. PICK id \in AnyObject :
           run' = [run EXCEPT !.reply = [st |-> "accepted", id |-> id, val |-> None]]
    BY <1>6 DEF EngineAccepts, AnyObject
  <2>2. engine' = engine \/ \E o, v : v \in {"alive", "gone"}
                                /\ engine' = [engine EXCEPT ![<<o, "object">>] = v]
    BY <1>6 DEF EngineAccepts
  <2>3. SceneFits'
    <3>1. /\ engine' \in [AllSlots -> Values \cup {"unborn", "alive", "gone"}]
          /\ \A s \in Slots : engine'[s] = engine[s]
          /\ \A p \in Objects : engine'[<<p, "object">>] \in {"unborn", "alive", "gone"}
      <4>1. CASE engine' = engine
        BY <1>2, <4>1
      <4>2. ASSUME NEW o, NEW v \in {"alive", "gone"}, engine' = [engine EXCEPT ![<<o, "object">>] = v]
            PROVE  /\ engine' \in [AllSlots -> Values \cup {"unborn", "alive", "gone"}]
                   /\ \A s \in Slots : engine'[s] = engine[s]
                   /\ \A p \in Objects : engine'[<<p, "object">>] \in {"unborn", "alive", "gone"}
        <5> DEFINE slot == <<o, "object">>
        <5>1. slot \notin Slots
          BY <1>3
        <5> HIDE DEF slot
        <5>2. engine' = [engine EXCEPT ![slot] = v]
          BY <4>2 DEF slot
        <5>3. \A p \in Objects : engine'[<<p, "object">>] \in {"unborn", "alive", "gone"}
          <6> TAKE p \in Objects
          <6> DEFINE object == <<p, "object">>
          <6>1. object \in DOMAIN engine /\ engine[object] \in {"unborn", "alive", "gone"}
            BY <1>2 DEF AllSlots
          <6>2. SUFFICES engine'[object] \in {"unborn", "alive", "gone"}
            OBVIOUS
          <6> HIDE DEF object
          <6> QED
            BY <4>2, <5>2, <6>1
        <5>4. /\ engine' \in [AllSlots -> Values \cup {"unborn", "alive", "gone"}]
              /\ \A s \in Slots : engine'[s] = engine[s]
          BY <1>2, <1>3, <5>1, <5>2
        <5> QED
          BY <5>3, <5>4
      <4> QED
        BY <2>2, <4>1, <4>2
    <3> QED
      BY <1>1, <1>2, <3>1 DEF EditInv, SceneFits, ui
  <2>4. [st |-> "accepted", id |-> id, val |-> None] \in Replies
    BY DEF Replies, AnyValue
  <2>5. ~(run.kind = "edit" /\ run.op = "set")
    BY <1>4, <1>6
  <2> QED
    BY <1>1, <2>1, <2>3, <2>4, <2>5, ReplyKeeps
<1> QED
  BY <1>5, <1>6

LEMMA EngineRefusesKeeps == EditInv /\ EngineRefuses => EditInv'
<1> SUFFICES ASSUME EditInv, EngineRefuses PROVE EditInv'
  OBVIOUS
<1>1. run # None /\ UNCHANGED <<session, lastGen, engine, history, seq, ui>>
  BY DEF EngineRefuses, InFlight
<1>2. PICK st \in {"refused", "error", "unsupported"} :
         run' = [run EXCEPT !.reply = [st |-> st, id |-> None, val |-> None]]
  BY DEF EngineRefuses
<1> DEFINE reply == [st |-> st, id |-> None, val |-> None]
<1>3. reply \in Replies /\ reply.st # "accepted"
  BY DEF Replies, AnyValue, AnyObject
<1>4. SceneFits'
  BY <1>1 DEF EditInv, SceneFits, ui
<1>5. run' = [run EXCEPT !.reply = reply]
  BY <1>2
<1> HIDE DEF reply
<1> QED
  BY <1>1, <1>3, <1>4, <1>5, ReplyKeeps

\* Closing the group of a grouped edit.
LEMMA CloseIfGroupedFollows ==
    ASSUME EditInv, run # None, run.kind = "edit"
    PROVE  /\ Follows(history, CloseIfGrouped(history), seq)
           /\ CloseIfGrouped(history).group = None
<1>1. HistoryFits(history, seq) /\ seq \in Nat /\ EditRunFits
  BY EditAssumption DEF EditInv
<1>2. run.token = None => history.group = None
  <2>1. history.group # None => run.token = history.group.token /\ history.group.token \in 1..MaxSequence
    BY <1>1 DEF EditRunFits, HistoryFits, HistoryStates
  <2>2. None \notin 1..MaxSequence
    BY EditAssumption
  <2> QED
    BY <2>1, <2>2
<1> QED
  BY <1>1, <1>2, CloseFollows DEF CloseIfGrouped, Follows

LEMMA EditAnsweredKeeps == EditInv /\ EditAnswered => EditInv'
<1> SUFFICES ASSUME EditInv, EditAnswered PROVE EditInv'
  OBVIOUS
<1>1. /\ run # None /\ run.kind = "edit" /\ run.reply # None /\ run' = None
      /\ UNCHANGED <<session, lastGen, engine, seq, ui>>
      /\ HistoryFits(history, seq) /\ seq \in Nat /\ seq \in 1..MaxSequence + 1
      /\ EditRunFits /\ run \in EditRuns /\ run.gen = history.gen
  BY EditAssumption DEF EditAnswered, InFlight, EditInv, EditRunFits, RunIsOfHistory
<1>2. CASE session # run.gen
  BY <1>1, <1>2, CurrentKeeps DEF EditAnswered
<1>3. CASE session = run.gen
  <2>1. Current = history
    BY <1>1, <1>3, CurrentFits
  <2>2. run.reply \in Replies
    BY <1>1 DEF EditRuns
  <2>3. Follows(history, history', seq)
    <3>1. CASE run.reply.st = "accepted"
      <4>1. EditFits(history, run, seq)
        BY <1>1 DEF EditFits, EditRunFits, EditRuns
      <4>2. run.op = "set" => run.slot \in Slots /\ run.reply.val \in Values
        BY <1>1, <3>1 DEF EditRunFits
      <4>3. Follows(history, RecordSuccess(history, run, run.reply), seq)
        BY <1>1, <2>2, <4>1, <4>2, RecordSuccessFollows
      <4> QED
        BY <1>3, <2>1, <3>1, <4>3 DEF EditAnswered
    <3>2. CASE run.reply.st # "accepted"
      <4> DEFINE c == CloseIfGrouped(history)
      <4>1. Follows(history, c, seq)
        BY <1>1, CloseIfGroupedFollows
      <4> HIDE DEF c
      <4>2. Follows(c, MarkEditUnsupported(c), seq)
        BY <4>1, MarkEditUnsupportedFollows DEF Follows
      <4>3. Follows(history, MarkEditUnsupported(c), seq)
        BY <1>1, <4>1, <4>2, FollowsTrans
      <4>4. history' = c \/ history' = MarkEditUnsupported(c)
        BY <1>3, <2>1, <3>2 DEF EditAnswered, c
      <4> QED
        BY <4>1, <4>3, <4>4
    <3> QED
      BY <3>1, <3>2
  <2> QED
    BY <1>1, <2>3, IdleKeeps DEF Follows
<1> QED
  BY <1>2, <1>3

LEMMA EditUnansweredKeeps == EditInv /\ EditUnanswered => EditInv'
<1> SUFFICES ASSUME EditInv, EditUnanswered PROVE EditInv'
  OBVIOUS
<1>1. /\ run # None /\ run.kind = "edit" /\ run' = None
      /\ UNCHANGED <<session, lastGen, engine, seq, ui>>
      /\ HistoryFits(history, seq) /\ seq \in Nat /\ seq \in 1..MaxSequence + 1
      /\ run \in EditRuns /\ run.gen = history.gen
  BY EditAssumption DEF EditUnanswered, InFlight, EditInv, EditRunFits, RunIsOfHistory
<1>2. CASE session # run.gen
  BY <1>1, <1>2, CurrentKeeps DEF EditUnanswered
<1>3. CASE session = run.gen
  <2> DEFINE c == CloseIfGrouped(history)
  <2>1. Current = history
    BY <1>1, <1>3, CurrentFits
  <2>2. Follows(history, c, seq) /\ c.group = None
    BY <1>1, CloseIfGroupedFollows
  <2>3. history' = c \/ history' = MarkMcpOutcomeUnknown(c, run.seq)
    BY <1>3, <2>1 DEF EditUnanswered
  <2> HIDE DEF c
  <2>4. run.seq \in 1..MaxSequence
    BY <1>1 DEF EditRuns
  <2>5. Follows(c, MarkMcpOutcomeUnknown(c, run.seq), seq)
    BY <2>2, <2>4, MarkMcpOutcomeUnknownFollows DEF Follows
  <2>6. Follows(history, history', seq)
    BY <1>1, <2>2, <2>3, <2>5, FollowsTrans
  <2> QED
    BY <1>1, <2>6, IdleKeeps DEF Follows
<1> QED
  BY <1>2, <1>3

-----------------------------------------------------------------------------
(* Undo, redo, and the controls.                                           *)

\* Work on a plan that acts on what was shown.
LEMMA WorkType ==
    ASSUME NEW src \in {"ui", "mcp"}, NEW plan \in Plans, plan.steps # <<>>,
           NEW completed \in Nat, NEW retry \in BOOLEAN, NEW shown \in Seq(ShownEntry),
           session \in 1..MaxGeneration
    PROVE  LET w == Work(src, plan, completed, retry, shown)
           IN  /\ w \in HistoryRuns /\ w.kind = "history" /\ w.gen = session
               /\ w.plan = plan /\ w.shown = shown
<1>1. plan.steps \in Seq(AnyEntry) /\ plan.named \in BOOLEAN /\ plan.steps[1] \in AnyEntry
  BY DEF Plans
<1> DEFINE grouped == plan.named \/ retry \/ src = "mcp"
           left == IF grouped THEN plan.steps ELSE <<>>
           step == IF grouped THEN None ELSE plan.steps[1]
<1>2. grouped \in BOOLEAN /\ left \in Seq(AnyEntry) /\ step \in AnyEntry \cup {None}
  BY <1>1
<1>3. Work(src, plan, completed, retry, shown)
        = [kind |-> "history", src |-> src, gen |-> session, plan |-> plan, grouped |-> grouped,
           left |-> left, step |-> step, retry |-> retry, completed |-> completed,
           revoked |-> FALSE, reply |-> None, shown |-> shown]
  BY DEF Work
<1> HIDE DEF grouped, left, step
<1> QED
  BY <1>2, <1>3 DEF HistoryRuns

\* An item that starts to work on a plan.
LEMMA WorkKeeps ==
    ASSUME EditInv, HistoryFits(history', seq), history' = history \/ history'.rev > history.rev,
           history'.gen = session, history'.group = None, session # None,
           UNCHANGED <<session, lastGen, engine, seq, ui>>,
           NEW src \in {"ui", "mcp"}, NEW plan \in Plans, plan.steps # <<>>,
           NEW completed \in Nat, NEW retry \in BOOLEAN, NEW shown \in Seq(ShownEntry),
           Shown(plan.steps) = shown, run' = Work(src, plan, completed, retry, shown)
    PROVE  EditInv'
<1>1. session \in 1..MaxGeneration
  BY DEF EditInv, RunIsOfHistory
<1>2. run' \in HistoryRuns /\ run'.kind = "history" /\ run'.gen = session
        /\ run'.plan = plan /\ run'.shown = shown
  BY <1>1, WorkType
<1>3. CursorFits' /\ SceneFits'
  BY NewerKeeps
<1>4. EditRunFits' /\ HistoryRunFits' /\ RunIsOfHistory'
  BY <1>2 DEF EditRunFits, HistoryRunFits, RunIsOfHistory, EditInv
<1> QED
  BY <1>3, <1>4 DEF EditInv

\* An undo or redo acts on what was shown if its cursor, when it is current, shows what the
\* history has, and is never of a later revision.
LEMMA StartHistoryKeeps ==
    ASSUME NEW src \in {"ui", "mcp"}, NEW dir \in Directions, NEW at, NEW shown, EditInv,
           StartHistory(src, dir, at, shown),
           shown \in Seq(ShownEntry), at.rev \in Nat, at.rev <= Current.rev,
           at = HistoryCursor(Current, dir) => shown = VisibleRun(Current, dir)
    PROVE  EditInv'
<1> DEFINE closed == CloseActiveGroup(Current)
           now == IF at = HistoryCursor(Current, dir) THEN HistoryCursor(closed, dir) ELSE at
           plan == PrepareAction(closed, dir, now)
<1>1. /\ run = None /\ session # None
      /\ IF Current.pending # None
           THEN history' = Current /\ run' = run
           ELSE /\ history' = closed
                /\ run' = IF plan = None THEN run ELSE Work(src, plan, 0, FALSE, shown)
      /\ UNCHANGED <<session, lastGen, engine, seq, ui>>
  BY DEF StartHistory, Free
<1>2. /\ HistoryFits(Current, seq) /\ Current.gen = session /\ seq \in Nat
      /\ Current = history \/ Current.rev > history.rev
  BY CurrentFits
<1>3. Follows(Current, closed, seq) /\ closed.group = None
  BY <1>2, CloseFollows
<1>4. history.rev \in Nat /\ Current.rev \in Nat /\ closed.rev \in Nat
  BY <1>2, <1>3 DEF EditInv, Follows, HistoryFits, HistoryStates
<1>5. HistoryFits(closed, seq) /\ closed.gen = session
        /\ (closed = history \/ closed.rev > history.rev)
  BY <1>2, <1>3, <1>4 DEF Follows
<1>6. CASE Current.pending # None
  BY <1>1, <1>6, CurrentKeeps
<1>7. CASE Current.pending = None /\ plan = None
  <2>1. run' = None /\ history' = closed /\ seq' \in 1..MaxSequence + 1
    BY <1>1, <1>7 DEF EditInv
  <2> HIDE DEF closed, plan
  <2> QED
    BY <1>1, <1>5, <2>1, IdleKeeps
<1>8. CASE Current.pending = None /\ plan # None
  <2>1. /\ plan \in Plans /\ plan.steps # <<>> /\ now = HistoryCursor(closed, dir)
        /\ VisibleStack(closed, dir) # <<>> /\ Shown(plan.steps) = VisibleRun(closed, dir)
    <3> HIDE DEF closed, now
    <3> QED
      BY <1>5, <1>8, PrepareActionPlan
  <2>2. VisibleRun(closed, dir) = VisibleRun(Current, dir)
    BY <1>2, <2>1, ClosedShows
  <2>3. at = HistoryCursor(Current, dir)
    <3> SUFFICES ASSUME at # HistoryCursor(Current, dir) PROVE FALSE
      OBVIOUS
    <3>1. at = HistoryCursor(closed, dir) /\ closed # Current
      BY <2>1
    <3>2. closed.rev > Current.rev
      BY <1>3, <3>1 DEF Follows
    <3>3. at.rev = closed.rev
      BY <3>1 DEF HistoryCursor
    <3> QED
      BY <1>4, <3>2, <3>3
  <2>4. Shown(plan.steps) = shown
    BY <2>1, <2>2, <2>3
  <2>5. history' = closed /\ run' = Work(src, plan, 0, FALSE, shown)
    BY <1>1, <1>8
  <2> HIDE DEF closed, now, plan
  <2> QED
    BY <1>1, <1>3, <1>5, <2>1, <2>4, <2>5, WorkKeeps
<1> QED
  BY <1>6, <1>7, <1>8

LEMMA HistoryFromUiKeeps == EditInv /\ HistoryFromUi => EditInv'
<1> SUFFICES ASSUME EditInv, HistoryFromUi PROVE EditInv'
  OBVIOUS
<1>1. /\ cursor.dir \in Directions /\ cursor.shown \in Seq(ShownEntry) /\ cursor.at.rev \in Nat
      /\ cursor.at.rev <= history.rev
      /\ cursor.at = HistoryCursor(history, cursor.dir)
           => cursor.shown = VisibleRun(history, cursor.dir)
      /\ StartHistory("ui", cursor.dir, cursor.at, cursor.shown)
  BY DEF HistoryFromUi, EditInv, CursorFits
<1>2. /\ HistoryFits(Current, seq)
      /\ Current = history \/ Current.rev > history.rev
  BY CurrentFits
<1>3. history.rev \in Nat /\ Current.rev \in Nat
  BY <1>2 DEF EditInv, HistoryFits, HistoryStates
<1>4. cursor.at.rev <= Current.rev
  BY <1>1, <1>2, <1>3
<1>5. cursor.at = HistoryCursor(Current, cursor.dir)
        => cursor.shown = VisibleRun(Current, cursor.dir)
  <2> SUFFICES ASSUME cursor.at = HistoryCursor(Current, cursor.dir)
               PROVE  cursor.shown = VisibleRun(Current, cursor.dir)
    OBVIOUS
  <2>1. cursor.at.rev = Current.rev
    BY DEF HistoryCursor
  <2>2. Current = history
    BY <1>1, <1>2, <1>3, <2>1
  <2> QED
    BY <1>1, <2>2
<1> QED
  BY <1>1, <1>4, <1>5, StartHistoryKeeps

LEMMA HistoryFromMcpKeeps ==
    ASSUME NEW dir \in Directions, EditInv, HistoryFromMcp(dir)
    PROVE  EditInv'
<1>1. HistoryFits(Current, seq)
  BY CurrentFits
<1>2. StartHistory("mcp", dir, HistoryCursor(Current, dir), VisibleRun(Current, dir))
  BY DEF HistoryFromMcp, VisibleRun
<1>3. VisibleRun(Current, dir) \in Seq(ShownEntry)
  BY <1>1, VisibleRunType
<1>4. HistoryCursor(Current, dir).rev = Current.rev /\ Current.rev \in Nat
  BY <1>1 DEF HistoryCursor, HistoryFits, HistoryStates
<1> QED
  BY <1>2, <1>3, <1>4, StartHistoryKeeps

LEMMA StartRetryKeeps == EditInv /\ StartRetry => EditInv'
<1> SUFFICES ASSUME EditInv, StartRetry PROVE EditInv'
  OBVIOUS
<1> DEFINE plan == PrepareRetry(Current)
<1>1. /\ run = None /\ session # None /\ plan # None /\ history' = Current
      /\ run' = Work("ui", plan, Current.pending.completed, TRUE, Shown(plan.steps))
      /\ UNCHANGED <<session, lastGen, engine, seq, ui>>
  BY DEF StartRetry, Free
<1>2. /\ HistoryFits(Current, seq) /\ Current.gen = session
      /\ Current = history \/ Current.rev > history.rev
  BY CurrentFits
<1>3. plan \in Plans /\ plan.steps # <<>> /\ Current.pending # None
        /\ Current.pending.completed \in Nat
  BY <1>1, <1>2, PrepareRetryPlan
<1>4. Current.group = None
  BY <1>2, <1>3 DEF HistoryFits
<1> HIDE DEF plan
<1>5. Shown(plan.steps) \in Seq(ShownEntry)
  BY <1>3, ShownType DEF Plans
<1> QED
  BY <1>1, <1>2, <1>3, <1>4, <1>5, WorkKeeps

\* An undo or redo in work.
LEMMA WorkFacts ==
    ASSUME EditInv, run # None, run.kind = "history"
    PROVE  /\ run \in HistoryRuns /\ run.plan \in Plans /\ run.plan.dir \in Directions
           /\ history.group = None /\ HistoryFits(history, seq) /\ seq \in Nat
           /\ run.gen = history.gen /\ Shown(run.plan.steps) = run.shown
           /\ run.completed \in Nat
           /\ session = run.gen => Current = history
<1>1. run \in HistoryRuns /\ run.gen = history.gen
  BY DEF EditInv, HistoryRunFits, RunIsOfHistory
<1>2. run.plan \in Plans /\ run.plan.dir \in Directions /\ run.completed \in Nat
  BY <1>1 DEF HistoryRuns, Plans
<1> QED
  BY <1>1, <1>2, CurrentFits, EditAssumption DEF EditInv, HistoryRunFits

\* It goes on with the same plan.
LEMMA WorkGoesOn ==
    ASSUME EditInv, run # None, run.kind = "history", Follows(history, history', seq),
           history'.group = None, run' \in HistoryRuns, run'.kind = "history",
           run'.gen = run.gen, run'.plan = run.plan, run'.shown = run.shown,
           UNCHANGED <<session, lastGen, engine, seq, ui>>
    PROVE  EditInv'
<1>1. HistoryFits(history', seq') /\ (history' = history \/ history'.rev > history.rev)
        /\ history'.gen = history.gen
  BY DEF Follows
<1>2. CursorFits' /\ SceneFits'
  BY <1>1, NewerKeeps
<1>3. EditRunFits' /\ HistoryRunFits' /\ RunIsOfHistory'
  BY <1>1, WorkFacts DEF EditRunFits, HistoryRunFits, RunIsOfHistory, EditInv
<1> QED
  BY <1>1, <1>2, <1>3 DEF EditInv

LEMMA SendStepKeeps == EditInv /\ SendStep => EditInv'
<1> SUFFICES ASSUME EditInv, SendStep PROVE EditInv'
  OBVIOUS
<1> DEFINE stack == Stack(history, run.plan.dir)
           found == {i \in 1..Len(stack) :
                       stack[i].id = Head(run.left).id /\ stack[i].key = run.plan.key}
           halted == StartPendingGroup(history, run.plan, run.completed, FALSE, FALSE)
<1>1. /\ run # None /\ run.kind = "history" /\ run.left # <<>>
      /\ UNCHANGED <<session, lastGen, engine, seq, ui>>
  BY DEF SendStep
<1>2. \/ Finished(history) \/ Finished(halted)
      \/ /\ found # {} /\ UNCHANGED history
         /\ run' = [run EXCEPT !.step = stack[CHOOSE i \in found : TRUE], !.left = Tail(@)]
  BY DEF SendStep
<1>3. /\ run \in HistoryRuns /\ run.plan \in Plans /\ run.plan.dir \in Directions
      /\ history.group = None /\ HistoryFits(history, seq) /\ seq \in Nat /\ run.completed \in Nat
  BY <1>1, WorkFacts
<1>4. Follows(history, halted, seq) /\ Follows(history, history, seq)
  BY <1>3, StartPendingGroupFollows DEF Follows
<1>5. CASE Finished(history) \/ Finished(halted)
  <2> HIDE DEF halted
  <2> QED
    BY <1>1, <1>4, <1>5, FinishedKeeps DEF Follows
<1>6. CASE /\ found # {} /\ UNCHANGED history
           /\ run' = [run EXCEPT !.step = stack[CHOOSE i \in found : TRUE], !.left = Tail(@)]
  <2> DEFINE step == stack[CHOOSE i \in found : TRUE]
             left == Tail(run.left)
  <2>1. step \in AnyEntry
    <3>1. stack \in Seq(AnyEntry) /\ (CHOOSE i \in found : TRUE) \in 1..Len(stack)
      BY <1>3, <1>6, StackFits
    <3> QED
      BY <3>1
  <2>2. left \in Seq(AnyEntry)
    BY <1>1, <1>3 DEF HistoryRuns
  <2>3. run' = [run EXCEPT !.step = step, !.left = left]
    BY <1>3, <1>6 DEF HistoryRuns
  <2> HIDE DEF step, left
  <2>4. run' \in HistoryRuns /\ run'.kind = "history" /\ run'.gen = run.gen
          /\ run'.plan = run.plan /\ run'.shown = run.shown
    BY <1>3, <2>1, <2>2, <2>3 DEF HistoryRuns
  <2> QED
    BY <1>1, <1>3, <1>4, <1>6, <2>4, WorkGoesOn
<1> QED
  BY <1>2, <1>5, <1>6

\* Actions that finish with Current, or, of the same connection, with a newer history.
LEMMA FinishKeeps ==
    ASSUME EditInv, run # None, run.kind = "history", NEW g,
           Follows(history, g, seq), Finished(IF session # run.gen THEN Current ELSE g),
           UNCHANGED <<session, lastGen, engine, seq, ui>>
    PROVE  EditInv'
<1>1. CASE session # run.gen
  <2>1. /\ HistoryFits(Current, seq)
        /\ Current = history \/ Current.rev > history.rev
    BY CurrentFits
  <2>2. Finished(Current)
    BY <1>1
  <2> QED
    BY <2>1, <2>2, FinishedKeeps
<1>2. CASE session = run.gen
  <2>1. Finished(g)
    BY <1>2
  <2> QED
    BY <2>1, FinishedKeeps DEF Follows
<1> QED
  BY <1>1, <1>2

LEMMA SingleAppliedKeeps == EditInv /\ SingleApplied => EditInv'
<1> SUFFICES ASSUME EditInv, SingleApplied PROVE EditInv'
  OBVIOUS
<1> DEFINE g == FinishActionSuccess(Current, run.plan, run.reply)
<1>1. /\ run # None /\ run.kind = "history" /\ run.reply # None
      /\ UNCHANGED <<session, lastGen, engine, seq, ui>>
      /\ Finished(IF session # run.gen THEN Current ELSE g)
  BY DEF SingleApplied, InFlight
<1>2. /\ run \in HistoryRuns /\ run.plan.dir \in Directions
      /\ history.group = None /\ HistoryFits(history, seq)
      /\ session = run.gen => Current = history
  BY <1>1, WorkFacts
<1>3. run.reply \in Replies
  BY <1>1, <1>2 DEF HistoryRuns
<1> DEFINE k == FinishActionSuccess(history, run.plan, run.reply)
<1>4. Follows(history, k, seq)
  BY <1>2, <1>3, FinishActionSuccessFollows
<1>5. Finished(IF session # run.gen THEN Current ELSE k)
  BY <1>1, <1>2
<1> HIDE DEF k
<1> QED
  BY <1>1, <1>4, <1>5, FinishKeeps

LEMMA SingleFailsKeeps == EditInv /\ SingleFails => EditInv'
<1> SUFFICES ASSUME EditInv, SingleFails PROVE EditInv'
  OBVIOUS
<1>1. /\ run # None /\ run.kind = "history"
      /\ UNCHANGED <<session, lastGen, engine, seq, ui>>
      /\ Finished(IF session # run.gen THEN Current ELSE DiscardAction(Current, run.plan))
  BY DEF SingleFails, InFlight
<1>2. /\ run.plan.dir \in Directions /\ history.group = None /\ HistoryFits(history, seq)
      /\ session = run.gen => Current = history
  BY <1>1, WorkFacts
<1> DEFINE k == DiscardAction(history, run.plan)
<1>3. Follows(history, k, seq)
  BY <1>2, DiscardActionFollows
<1>4. Finished(IF session # run.gen THEN Current ELSE k)
  BY <1>1, <1>2
<1> HIDE DEF k
<1> QED
  BY <1>1, <1>3, <1>4, FinishKeeps

LEMMA StepAppliedKeeps == EditInv /\ StepApplied => EditInv'
<1> SUFFICES ASSUME EditInv, StepApplied PROVE EditInv'
  OBVIOUS
<1> DEFINE halted == StartPendingGroup(history, run.plan, run.completed, TRUE, FALSE)
           done == FinishGroupStep(history, run.plan, run.reply)
<1>1. /\ run # None /\ run.kind = "history" /\ run.reply # None
      /\ UNCHANGED <<session, lastGen, engine, seq, ui>>
  BY DEF StepApplied, InFlight
<1>2. /\ run \in HistoryRuns /\ run.plan \in Plans /\ run.plan.dir \in Directions
      /\ history.group = None /\ HistoryFits(history, seq) /\ run.completed \in Nat
      /\ session = run.gen => Current = history
  BY <1>1, WorkFacts
<1>3. \/ Finished(IF session # run.gen THEN Current ELSE halted)
      \/ /\ Stack(history, run.plan.dir) # <<>> /\ history' = done
         /\ run' = [run EXCEPT !.completed = @ + 1, !.step = None, !.reply = None]
  BY <1>2 DEF StepApplied, OnTop
<1>4. Follows(history, halted, seq)
  BY <1>2, StartPendingGroupFollows
<1>5. CASE Finished(IF session # run.gen THEN Current ELSE halted)
  <2> HIDE DEF halted
  <2> QED
    BY <1>1, <1>4, <1>5, FinishKeeps
<1>6. CASE /\ Stack(history, run.plan.dir) # <<>> /\ history' = done
           /\ run' = [run EXCEPT !.completed = @ + 1, !.step = None, !.reply = None]
  <2>1. run.reply \in Replies
    BY <1>1, <1>2 DEF HistoryRuns
  <2>2. Follows(history, history', seq) /\ history'.group = None
    BY <1>2, <1>6, <2>1, FinishGroupStepFollows
  <2>3. run.completed + 1 \in Nat
    BY <1>2
  <2>4. run' \in HistoryRuns /\ run'.kind = "history" /\ run'.gen = run.gen
          /\ run'.plan = run.plan /\ run'.shown = run.shown
    BY <1>2, <1>6, <2>3 DEF HistoryRuns
  <2> QED
    BY <1>1, <2>2, <2>4, WorkGoesOn
<1> QED
  BY <1>3, <1>5, <1>6

LEMMA StepFailsKeeps == EditInv /\ StepFails => EditInv'
<1> SUFFICES ASSUME EditInv, StepFails PROVE EditInv'
  OBVIOUS
<1>1. /\ run # None /\ run.kind = "history"
      /\ UNCHANGED <<session, lastGen, engine, seq, ui>>
  BY DEF StepFails, InFlight
<1>2. PICK answered \in BOOLEAN :
        Finished(IF session # run.gen THEN Current
                 ELSE StartPendingGroup(Current, run.plan, run.completed, ~answered, answered))
  BY DEF StepFails
<1>3. /\ run.plan \in Plans /\ history.group = None /\ HistoryFits(history, seq)
      /\ run.completed \in Nat
      /\ session = run.gen => Current = history
  BY <1>1, WorkFacts
<1> DEFINE k == StartPendingGroup(history, run.plan, run.completed, ~answered, answered)
<1>4. Follows(history, k, seq)
  BY <1>3, StartPendingGroupFollows
<1>5. Finished(IF session # run.gen THEN Current ELSE k)
  BY <1>2, <1>3
<1> HIDE DEF k
<1> QED
  BY <1>1, <1>4, <1>5, FinishKeeps

LEMMA GroupDoneKeeps == EditInv /\ GroupDone => EditInv'
<1> SUFFICES ASSUME EditInv, GroupDone PROVE EditInv'
  OBVIOUS
<1> DEFINE k == IF run.retry THEN ClearCompletedPendingGroup(history, run.plan.key) ELSE history
<1>1. /\ run # None /\ run.kind = "history" /\ Finished(k)
      /\ UNCHANGED <<session, lastGen, engine, seq, ui>>
  BY DEF GroupDone
<1>2. history.group = None /\ HistoryFits(history, seq)
  BY <1>1, WorkFacts
<1>3. Follows(history, k, seq)
  BY <1>2, ClearCompletedPendingGroupFollows DEF Follows
<1> HIDE DEF k
<1> QED
  BY <1>1, <1>3, FinishedKeeps DEF Follows

LEMMA BeginKeeps == EditInv /\ Begin => EditInv'
<1> SUFFICES ASSUME EditInv, Begin PROVE EditInv'
  OBVIOUS
<1>1. /\ run = None /\ run' = None /\ seq \in 1..MaxSequence
      /\ UNCHANGED <<session, lastGen, engine, ui>>
  BY EditAssumption DEF Begin, Free, EditInv
<1>2. /\ HistoryFits(Current, seq)
      /\ Current = history \/ Current.rev > history.rev
  BY CurrentFits
<1>3. CASE Current.pending # None
  BY <1>1, <1>3, CurrentKeeps DEF Begin
<1>4. CASE Current.pending = None
  <2>1. history' = BeginGroup(Current, seq) /\ seq' = seq + 1
    BY <1>4 DEF Begin
  <2>2. Follows(Current, history', seq')
    BY <1>1, <1>2, <1>4, <2>1, BeginGroupFollows
  <2>3. history.rev \in Nat /\ Current.rev \in Nat /\ history'.rev \in Nat
    BY <1>2, <2>2 DEF EditInv, Follows, HistoryFits, HistoryStates
  <2>4. HistoryFits(history', seq') /\ (history' = history \/ history'.rev > history.rev)
    BY <1>2, <2>2, <2>3 DEF Follows
  <2>5. seq' \in 1..MaxSequence + 1
    BY <1>1, <2>1, EditAssumption
  <2> QED
    BY <1>1, <2>4, <2>5, IdleKeeps
<1> QED
  BY <1>3, <1>4

LEMMA DiscardKeeps == EditInv /\ Discard => EditInv'
<1> SUFFICES ASSUME EditInv, Discard PROVE EditInv'
  OBVIOUS
<1>1. /\ run' = None /\ Current.pending # None /\ history' = DiscardPendingGroup(Current)
      /\ UNCHANGED <<session, lastGen, engine, seq, ui>> /\ seq' \in 1..MaxSequence + 1
  BY DEF Discard, Free, EditInv
<1>2. /\ HistoryFits(Current, seq)
      /\ Current = history \/ Current.rev > history.rev
  BY CurrentFits
<1>3. Follows(Current, history', seq)
  BY <1>1, <1>2, DiscardPendingGroupFollows DEF HistoryFits
<1>4. history.rev \in Nat /\ Current.rev \in Nat /\ history'.rev \in Nat
  BY <1>2, <1>3 DEF EditInv, Follows, HistoryFits, HistoryStates
<1>5. HistoryFits(history', seq') /\ (history' = history \/ history'.rev > history.rev)
  BY <1>1, <1>2, <1>3, <1>4 DEF Follows
<1> QED
  BY <1>1, <1>5, IdleKeeps

LEMMA CloseGroupKeeps == EditInv /\ CloseGroup => EditInv'
<1> SUFFICES ASSUME EditInv, CloseGroup PROVE EditInv'
  OBVIOUS
<1>1. /\ run' = None /\ history' = CloseActiveGroup(history)
      /\ UNCHANGED <<session, lastGen, engine, seq, ui>> /\ seq' \in 1..MaxSequence + 1
      /\ HistoryFits(history, seq) /\ seq \in Nat
  BY EditAssumption DEF CloseGroup, EditInv
<1>2. Follows(history, history', seq)
  BY <1>1, CloseFollows
<1> QED
  BY <1>1, <1>2, IdleKeeps DEF Follows

LEMMA AuthRevokedKeeps == EditInv /\ AuthRevoked => EditInv'
<1> SUFFICES ASSUME EditInv, AuthRevoked PROVE EditInv'
  OBVIOUS
<1>1. /\ history' = CloseActiveGroup(history)
      /\ UNCHANGED <<session, lastGen, engine, seq, ui>>
      /\ HistoryFits(history, seq) /\ seq \in Nat
  BY EditAssumption DEF AuthRevoked, EditInv
<1>2. /\ Follows(history, history', seq) /\ history'.group = None
      /\ history'.pending = history.pending
  BY <1>1, CloseFollows
<1>3. CASE run # None /\ run.kind = "history"
  <2>1. run \in HistoryRuns
    BY <1>3, WorkFacts
  <2>2. run' = run \/ run' = [run EXCEPT !.revoked = TRUE]
    BY DEF AuthRevoked
  <2>3. run' \in HistoryRuns /\ run'.kind = "history" /\ run'.gen = run.gen
          /\ run'.plan = run.plan /\ run'.shown = run.shown
    BY <1>3, <2>1, <2>2 DEF HistoryRuns
  <2> QED
    BY <1>1, <1>2, <1>3, <2>3, WorkGoesOn
<1>4. CASE ~(run # None /\ run.kind = "history")
  <2>1. run' = run
    BY <1>4 DEF AuthRevoked
  <2>2. HistoryFits(history', seq') /\ history'.gen = history.gen
          /\ (history' = history \/ history'.rev > history.rev)
    BY <1>1, <1>2 DEF Follows
  <2>3. CursorFits' /\ SceneFits'
    BY <1>1, <2>2, NewerKeeps DEF ui
  <2>4. EditRunFits'
    BY <1>1, <1>2, <2>1 DEF EditInv, EditRunFits
  <2>5. HistoryRunFits' /\ RunIsOfHistory'
    BY <1>1, <1>4, <2>1, <2>2 DEF EditInv, HistoryRunFits, RunIsOfHistory
  <2> QED
    BY <1>1, <2>2, <2>3, <2>4, <2>5 DEF EditInv
<1> QED
  BY <1>3, <1>4

\* The inductive invariant: every step of the actor, the screen, MCP and the engine keeps it.
THEOREM EditServiceInvariance == Spec => []EditInv
<1>1. EditInv /\ [Next]_vars => EditInv'
  <2> SUFFICES ASSUME EditInv, [Next]_vars PROVE EditInv'
    OBVIOUS
  <2>1. CASE Disconnect \/ Connect \/ SessionChanged
    BY <2>1, DisconnectKeeps, ConnectKeeps, SessionChangedKeeps
  <2>2. CASE \/ \E slot \in UiSlots : CaptureValue(slot)
             \/ \E dir \in UiDirections : CaptureCursor(dir)
    BY <2>2, CaptureValueKeeps, CaptureCursorKeeps
  <2>3. CASE \/ EditRefused
             \/ \E slot \in UiSlots, val \in Values : SetFromUi(slot, val)
             \/ \E slot \in Slots, val \in Values, token \in {None} \cup 1..MaxSequence :
                  SetFromMcp(slot, val, token)
    BY <2>3, EditRefusedKeeps, SetFromUiKeeps, SetFromMcpKeeps
  <2>4. CASE \E src \in {"ui", "mcp"}, token \in {None} \cup 1..MaxSequence : Create(src, token)
    BY <2>4, CreateKeeps
  <2>5. CASE \/ \E src \in {"ui", "mcp"}, o \in Objects : Delete(src, o)
             \/ \E src \in {"ui", "mcp"} : OtherEdit(src)
    BY <2>5, DeleteKeeps, OtherEditKeeps
  <2>6. CASE EngineAccepts \/ EngineRefuses \/ EditAnswered \/ EditUnanswered
    BY <2>6, EngineAcceptsKeeps, EngineRefusesKeeps, EditAnsweredKeeps, EditUnansweredKeeps
  <2>7. CASE \/ HistoryFromUi \/ (\E dir \in Directions : HistoryFromMcp(dir))
             \/ StartRetry \/ SendStep
    BY <2>7, HistoryFromUiKeeps, HistoryFromMcpKeeps, StartRetryKeeps, SendStepKeeps
  <2>8. CASE SingleApplied \/ SingleFails \/ StepApplied \/ StepFails \/ GroupDone
    BY <2>8, SingleAppliedKeeps, SingleFailsKeeps, StepAppliedKeeps, StepFailsKeeps, GroupDoneKeeps
  <2>9. CASE Begin \/ CloseGroup \/ Discard \/ AuthRevoked
    BY <2>9, BeginKeeps, CloseGroupKeeps, DiscardKeeps, AuthRevokedKeeps
  <2>10. CASE UNCHANGED vars
    BY <2>10 DEF vars, EditInv, EditRunFits, HistoryRunFits, RunIsOfHistory, CursorFits, SceneFits, ui
  <2> QED
    BY <2>1, <2>2, <2>3, <2>4, <2>5, <2>6, <2>7, <2>8, <2>9, <2>10 DEF Next
<1> QED
  BY <1>1, InitKeeps, PTL DEF Spec

\* An undo, redo or retry acts on exactly the entries its requester was shown
\* (prepare_action's expected_head_id and expected_revision), whatever edits, groups,
\* revocations and connections came in between.
THEOREM ActsAsShown == Spec => []ActsOnWhatWasShown
<1>1. EditInv => ActsOnWhatWasShown
  BY DEF EditInv, HistoryRunFits, ActsOnWhatWasShown
<1> QED
  BY <1>1, EditServiceInvariance, PTL

\* No entry of another connection is in a history: an answer that comes after the
\* connection changed is not recorded in the new one's (synchronize).
THEOREM OneHistoryGeneration == Spec => []OneGeneration
<1>1. EditInv => OneGeneration
  <2> SUFFICES ASSUME EditInv PROVE OneGeneration
    OBVIOUS
  <2> DEFINE group == IF history.group = None THEN <<>> ELSE history.group.entries
  <2>1. /\ history.undo \in Seq(AnyEntry) /\ history.redo \in Seq(AnyEntry) /\ group \in Seq(AnyEntry)
        /\ \A i \in 1..Len(history.undo) : history.undo[i].gen = history.gen
        /\ \A i \in 1..Len(history.redo) : history.redo[i].gen = history.gen
        /\ \A i \in 1..Len(group) : group[i].gen = history.gen
    <3>1. HistoryFits(history, seq)
      BY DEF EditInv
    <3>2. history \in HistoryStates
      BY <3>1 DEF HistoryFits
    <3>3. history.undo \in Seq(AnyEntry) /\ history.redo \in Seq(AnyEntry)
      BY <3>2 DEF HistoryStates
    <3>4. /\ \A i \in 1..Len(history.undo) : history.undo[i].gen = history.gen
          /\ \A i \in 1..Len(history.redo) : history.redo[i].gen = history.gen
      BY <3>1 DEF HistoryFits, Known
    <3>5. CASE history.group = None
      BY <3>3, <3>4, <3>5
    <3>6. CASE history.group # None
      <4>1. history.group.entries \in Seq(AnyEntry)
        BY <3>2, <3>6 DEF HistoryStates
      <4>2. \A i \in 1..Len(history.group.entries) : history.group.entries[i].gen = history.gen
        BY <3>1, <3>6 DEF HistoryFits, GroupFits, Known
      <4> QED
        BY <3>3, <3>4, <3>6, <4>1, <4>2
    <3> QED
      BY <3>5, <3>6
  <2>2. Undoable = history.undo \o group
    BY DEF Undoable
  <2> HIDE DEF group
  <2>3. ASSUME NEW s \in Seq(AnyEntry), NEW t \in Seq(AnyEntry),
               \A i \in 1..Len(s) : s[i].gen = history.gen,
               \A i \in 1..Len(t) : t[i].gen = history.gen
        PROVE  s \o t \in Seq(AnyEntry) /\ \A i \in 1..Len(s \o t) : (s \o t)[i].gen = history.gen
    <3> SUFFICES ASSUME NEW i \in 1..Len(s \o t) PROVE (s \o t)[i].gen = history.gen
      OBVIOUS
    <3>1. CASE i <= Len(s)
      BY <2>3, <3>1
    <3>2. CASE i > Len(s)
      <4>1. i - Len(s) \in 1..Len(t) /\ (s \o t)[i] = t[i - Len(s)]
        BY <3>2
      <4> QED
        BY <2>3, <4>1
    <3> QED
      BY <3>1, <3>2
  <2>4. Undoable \in Seq(AnyEntry) /\ \A i \in 1..Len(Undoable) : Undoable[i].gen = history.gen
    BY <2>1, <2>2, <2>3
  <2>5. \A i \in 1..Len(Undoable \o history.redo) :
           (Undoable \o history.redo)[i].gen = history.gen
    BY <2>1, <2>3, <2>4
  <2> QED
    BY <2>5 DEF OneGeneration
<1> QED
  BY <1>1, EditServiceInvariance, PTL

-----------------------------------------------------------------------------
(* Entries keep apart by their numbers, and a step in work is on top of    *)
(* its stack.                                                              *)

\* The numbers of a sequence of entries, which occur once each and are below next.
IdsOf(s) == {s[i].id : i \in 1..Len(s)}
Single(s) == \A i, j \in 1..Len(s) : s[i].id = s[j].id => i = j
Numbered(s, next) == Single(s) /\ \A id \in IdsOf(s) : id < next

GroupEntries(h) == IF h.group = None THEN <<>> ELSE h.group.entries

\* No number is in a history twice.
Unique(h, next) ==
    /\ Numbered(h.undo, next) /\ Numbered(h.redo, next) /\ Numbered(GroupEntries(h), next)
    /\ IdsOf(h.undo) \cap IdsOf(h.redo) = {}
    /\ IdsOf(h.undo) \cap IdsOf(GroupEntries(h)) = {}
    /\ IdsOf(h.redo) \cap IdsOf(GroupEntries(h)) = {}

\* The number the next entry gets.
NextId == IF run # None /\ run.kind = "edit" THEN run.seq ELSE seq

\* The step an undo or redo has sent is the top of its stack, and the steps it has left lie
\* under it, in order.
StepsFit ==
    run # None /\ run.kind = "history" =>
        LET stack == Stack(history, run.plan.dir)
            sent  == IF run.step = None THEN 0 ELSE 1
        IN  /\ IF run.step = None THEN run.reply = None
               ELSE stack # <<>> /\ run.step = Top(stack) /\ run.step.key = run.plan.key
            /\ Len(run.left) + sent <= Len(stack)
            /\ \A i \in 1..Len(run.left) : run.left[i].id = stack[Len(stack) + 1 - sent - i].id
            /\ ~run.grouped => run.step # None /\ run.left = <<>> /\ run.step = run.plan.steps[1]

StepInv == Unique(history, NextId) /\ StepsFit

-----------------------------------------------------------------------------
(* The correction cache knows the engine.                                  *)

\* The engine has changed the slot and the actor has not heard of it yet.
Moved(slot) ==
    /\ InFlight /\ run.gen = session /\ run.reply # None /\ run.reply.st = "accepted"
    /\ Request(run).op = "set" /\ Request(run).slot = slot

\* Revisions of the cache are of the past.
Past(h) == h.lost <= h.applied /\ \A s \in Cached(h) : h.corr[s].rev <= h.applied

\* A capture is of the value val, or the history knows better: it has the value from
\* after the capture, or it has lost it.
Resolved(h, val) ==
    \/ capture.val = val
    \/ /\ h.corr[capture.slot] = None
       /\ capture.rev < h.lost
    \/ /\ h.corr[capture.slot] # None
       /\ capture.rev < h.corr[capture.slot].rev

Knows(h) ==
    /\ Past(h)
    /\ capture # None /\ capture.gen = session => capture.rev <= h.applied /\ h.gen = session
    /\ session # None /\ h.gen = session =>
         \A s \in Slots : s \in unsure \/ Moved(s) \/
           /\ h.corr[s] # None => h.corr[s].val = engine[s]
           /\ capture # None /\ capture.gen = session /\ capture.slot = s => Resolved(h, engine[s])

\* The engine's answer is of the engine as it is, and a new object has Root for attributes.
AnswerFits ==
    /\ \A s \in Slots : Moved(s) => run.reply.val = engine[s]
    /\ \A o \in Objects : engine[<<o, "object">>] = "unborn" => \A a \in Attributes : engine[<<o, a>>] = Root
    /\ InFlight /\ run.gen = session /\ run.reply # None /\ run.reply.st = "accepted"
         /\ Request(run).op = "create" /\ run.reply.id # None
         => \A a \in Attributes : engine[<<run.reply.id, a>>] = Root

CaptureFits ==
    /\ capture # None => capture.gen <= lastGen /\ capture.val # None
    /\ session # None => session <= lastGen
    /\ history.gen # None => history.gen <= lastGen

CaptureInv == Knows(history) /\ AnswerFits /\ CaptureFits

-----------------------------------------------------------------------------
(* Numbers of sequences of entries.                                        *)

LEMMA SameIds ==
    ASSUME NEW s \in Seq(AnyEntry), NEW t \in Seq(AnyEntry), Len(t) = Len(s),
           \A i \in 1..Len(s) : t[i].id = s[i].id
    PROVE  IdsOf(t) = IdsOf(s) /\ (Single(s) => Single(t)) /\ (\A n : Numbered(s, n) => Numbered(t, n))
BY DEF IdsOf, Single, Numbered

LEMMA PopIds ==
    ASSUME NEW s \in Seq(AnyEntry), s # <<>>, Single(s)
    PROVE  /\ Single(Pop(s)) /\ IdsOf(Pop(s)) = IdsOf(s) \ {Top(s).id} /\ Top(s).id \in IdsOf(s)
<1>1. Len(s) \in 1..Len(s) /\ Len(s) \in Nat
  OBVIOUS
<1>2. /\ Len(Pop(s)) = Len(s) - 1
      /\ \A i \in 1..(Len(s) - 1) : Pop(s)[i] = s[i]
  BY PopFacts
<1>3. Single(Pop(s))
  BY <1>1, <1>2 DEF Single
<1>4. Top(s).id \in IdsOf(s)
  BY <1>1 DEF Top, IdsOf
<1>5. IdsOf(Pop(s)) \subseteq IdsOf(s) \ {Top(s).id}
  <2> SUFFICES ASSUME NEW i \in 1..(Len(s) - 1) PROVE s[i].id \in IdsOf(s) /\ s[i].id # s[Len(s)].id
    BY <1>1, <1>2 DEF IdsOf, Top
  <2>1. i \in 1..Len(s) /\ i # Len(s)
    BY <1>1
  <2> QED
    BY <1>1, <2>1 DEF Single, IdsOf
<1>6. IdsOf(s) \ {Top(s).id} \subseteq IdsOf(Pop(s))
  <2> SUFFICES ASSUME NEW i \in 1..Len(s), s[i].id # Top(s).id PROVE s[i].id \in IdsOf(Pop(s))
    BY DEF IdsOf
  <2>1. i \in 1..(Len(s) - 1)
    BY <1>1 DEF Top
  <2> QED
    BY <1>1, <1>2, <2>1 DEF IdsOf
<1> QED
  BY <1>3, <1>4, <1>5, <1>6

LEMMA AppendIds ==
    ASSUME NEW s \in Seq(AnyEntry), NEW e \in AnyEntry
    PROVE  /\ IdsOf(Append(s, e)) = IdsOf(s) \cup {e.id}
           /\ Single(s) /\ e.id \notin IdsOf(s) => Single(Append(s, e))
<1>1. /\ Append(s, e) \in Seq(AnyEntry) /\ Len(Append(s, e)) = Len(s) + 1 /\ Len(s) \in Nat
      /\ \A i \in 1..Len(s) : Append(s, e)[i] = s[i]
      /\ Append(s, e)[Len(s) + 1] = e
  OBVIOUS
<1>2. \A i \in 1..(Len(s) + 1) : i \in 1..Len(s) \/ i = Len(s) + 1
  BY <1>1
<1>3. Len(s) + 1 \in 1..(Len(s) + 1) /\ \A i \in 1..Len(s) : i \in 1..(Len(s) + 1)
  BY <1>1
<1>4. IdsOf(Append(s, e)) \subseteq IdsOf(s) \cup {e.id}
  BY <1>1, <1>2 DEF IdsOf
<1>5. IdsOf(s) \cup {e.id} \subseteq IdsOf(Append(s, e))
  BY <1>1, <1>3 DEF IdsOf
<1>6. ASSUME Single(s), e.id \notin IdsOf(s) PROVE Single(Append(s, e))
  <2>1. \A i \in 1..Len(s) : s[i].id # e.id
    BY <1>6 DEF IdsOf
  <2> SUFFICES ASSUME NEW i \in 1..(Len(s) + 1), NEW j \in 1..(Len(s) + 1),
                      Append(s, e)[i].id = Append(s, e)[j].id
               PROVE  i = j
    BY <1>1 DEF Single
  <2>2. CASE i \in 1..Len(s) /\ j \in 1..Len(s)
    BY <1>1, <1>6, <2>2 DEF Single
  <2> QED
    BY <1>1, <1>2, <2>1, <2>2
<1> QED
  BY <1>4, <1>5, <1>6

LEMMA ConcatIds ==
    ASSUME NEW s \in Seq(AnyEntry), NEW t \in Seq(AnyEntry)
    PROVE  /\ IdsOf(s \o t) = IdsOf(s) \cup IdsOf(t)
           /\ Single(s) /\ Single(t) /\ IdsOf(s) \cap IdsOf(t) = {} => Single(s \o t)
<1>1. /\ Len(s) \in Nat /\ Len(t) \in Nat /\ Len(s \o t) = Len(s) + Len(t)
      /\ \A i \in 1..Len(s) : (s \o t)[i] = s[i]
      /\ \A i \in 1..Len(t) : (s \o t)[Len(s) + i] = t[i]
  OBVIOUS
<1>2. \A i \in 1..(Len(s) + Len(t)) : i \in 1..Len(s) \/ \E k \in 1..Len(t) : i = Len(s) + k
  <2> TAKE i \in 1..(Len(s) + Len(t))
  <2>1. CASE i > Len(s)
    <3>1. i - Len(s) \in 1..Len(t) /\ i = Len(s) + (i - Len(s))
      BY <1>1, <2>1
    <3> QED
      BY <3>1
  <2> QED
    BY <1>1, <2>1
<1>3. /\ \A i \in 1..Len(s) : i \in 1..(Len(s) + Len(t))
      /\ \A i \in 1..Len(t) : Len(s) + i \in 1..(Len(s) + Len(t))
  BY <1>1
<1>4. IdsOf(s \o t) \subseteq IdsOf(s) \cup IdsOf(t)
  <2> SUFFICES ASSUME NEW i \in 1..(Len(s) + Len(t)) PROVE (s \o t)[i].id \in IdsOf(s) \cup IdsOf(t)
    BY <1>1 DEF IdsOf
  <2> QED
    BY SMTT(30), <1>1, <1>2 DEF IdsOf
<1>5. IdsOf(s) \cup IdsOf(t) \subseteq IdsOf(s \o t)
  <2>1. ASSUME NEW i \in 1..Len(s) PROVE s[i].id \in IdsOf(s \o t)
    <3>1. i \in 1..Len(s \o t) /\ (s \o t)[i] = s[i]
      BY <1>1, <1>3
    <3> QED
      BY <3>1 DEF IdsOf
  <2>2. ASSUME NEW i \in 1..Len(t) PROVE t[i].id \in IdsOf(s \o t)
    <3>1. Len(s) + i \in 1..Len(s \o t) /\ (s \o t)[Len(s) + i] = t[i]
      BY <1>1, <1>3
    <3> QED
      BY <3>1 DEF IdsOf
  <2> QED
    BY <2>1, <2>2 DEF IdsOf
<1>6. ASSUME Single(s), Single(t), IdsOf(s) \cap IdsOf(t) = {},
             NEW i \in 1..(Len(s) + Len(t)), NEW j \in 1..(Len(s) + Len(t)),
             (s \o t)[i].id = (s \o t)[j].id
      PROVE  i = j
  <2>1. \A a \in 1..Len(s), b \in 1..Len(t) : s[a].id # t[b].id
    BY <1>6 DEF IdsOf
  <2>2. CASE i \in 1..Len(s) /\ j \in 1..Len(s)
    BY <1>1, <1>6, <2>2 DEF Single
  <2>3. CASE i \in 1..Len(s) /\ j \notin 1..Len(s)
    <3>1. PICK b \in 1..Len(t) : j = Len(s) + b
      BY <1>2, <2>3
    <3> QED
      BY <1>1, <1>6, <2>1, <2>3, <3>1
  <2>4. CASE i \notin 1..Len(s) /\ j \in 1..Len(s)
    <3>1. PICK a \in 1..Len(t) : i = Len(s) + a
      BY <1>2, <2>4
    <3> QED
      BY <1>1, <1>6, <2>1, <2>4, <3>1
  <2>5. CASE i \notin 1..Len(s) /\ j \notin 1..Len(s)
    <3>1. PICK a \in 1..Len(t) : i = Len(s) + a
      BY <1>2, <2>5
    <3>2. PICK b \in 1..Len(t) : j = Len(s) + b
      BY <1>2, <2>5
    <3>3. t[a].id = t[b].id
      BY <1>1, <1>6, <3>1, <3>2
    <3> QED
      BY <1>6, <3>1, <3>2, <3>3 DEF Single
  <2> QED
    BY <2>2, <2>3, <2>4, <2>5
<1> QED
  BY <1>1, <1>4, <1>5, <1>6 DEF Single

\* What a filter keeps of numbers that occur once.
LEMMA WithoutIds ==
    ASSUME NEW s \in Seq(AnyEntry), Single(s), NEW key
    PROVE  Single(Without(s, key)) /\ IdsOf(Without(s, key)) \subseteq IdsOf(s)
<1>1. PICK kept :
         /\ kept[0] = <<>>
         /\ \A i \in 1..Len(s) : kept[i] = IF s[i].key = key THEN kept[i - 1]
                                           ELSE Append(kept[i - 1], s[i])
         /\ Without(s, key) = kept[Len(s)]
  BY WithoutKept
<1>2. Len(s) \in Nat
  OBVIOUS
<1> DEFINE First(m) == {s[i].id : i \in 1..m}
           Fits(m) == kept[m] \in Seq(AnyEntry) /\ Single(kept[m]) /\ IdsOf(kept[m]) \subseteq First(m)
           Wrong == {m \in Nat : m <= Len(s) /\ ~Fits(m)}
<1>3. ASSUME NEW m \in Wrong, \A k \in Wrong : m <= k PROVE FALSE
  <2>1. m \in 0..Len(s) /\ m \in Nat /\ ~Fits(m)
    BY <1>2, <1>3
  <2>2. CASE m = 0
    <3>1. kept[m] = <<>>
      BY <1>1, <2>2
    <3> QED
      BY <2>1, <3>1 DEF Single, IdsOf
  <2>3. CASE m # 0
    <3>1. m - 1 \in Nat /\ m - 1 <= Len(s) /\ m \in 1..Len(s) /\ ~(m <= m - 1)
      BY <1>2, <2>1, <2>3
    <3>2. Fits(m - 1)
      <4>1. m - 1 \notin Wrong
        <5> HIDE DEF Wrong
        <5> QED
          BY <1>3, <3>1
      <4> QED
        BY <3>1, <4>1
    <3>3. s[m] \in AnyEntry /\ s[m].id \notin First(m - 1) /\ First(m) = First(m - 1) \cup {s[m].id}
      <4>1. \A i \in 1..(m - 1) : i \in 1..Len(s) /\ i # m /\ i \in 1..m
        BY <1>2, <3>1
      <4>2. \A i \in 1..m : i \in 1..(m - 1) \/ i = m
        BY <3>1
      <4>3. m \in 1..m
        BY <3>1
      <4> QED
        BY <3>1, <4>1, <4>2, <4>3 DEF Single
    <3> HIDE DEF First
    <3>4. Single(Append(kept[m - 1], s[m])) /\ Append(kept[m - 1], s[m]) \in Seq(AnyEntry)
            /\ IdsOf(Append(kept[m - 1], s[m])) \subseteq First(m)
      <4>1. s[m].id \notin IdsOf(kept[m - 1])
        BY <3>2, <3>3
      <4> QED
        BY <3>2, <3>3, <4>1, AppendIds
    <3> QED
      BY <1>1, <2>1, <3>1, <3>2, <3>3, <3>4
  <2> QED
    BY <2>2, <2>3
<1>4. Wrong = {}
  <2>1. Wrong \subseteq Nat
    OBVIOUS
  <2> HIDE DEF Wrong
  <2> QED
    BY <1>3, <2>1, Least
<1>5. First(Len(s)) = IdsOf(s)
  BY DEF IdsOf
<1>6. Fits(Len(s))
  <2>1. Len(s) \notin Wrong
    BY <1>4
  <2> QED
    BY <1>2, <2>1
<1> QED
  BY <1>1, <1>5, <1>6

-----------------------------------------------------------------------------
(* The methods of a history keep numbers apart, and those that record no   *)
(* change of the engine leave the cache alone.                             *)

\* The corrections, and what they are counted in.
SameCache(h, g) == g.corr = h.corr /\ g.lost = h.lost /\ g.applied = h.applied

\* Later numbers are free as well, and so is all that does not touch entries.
LEMMA UniqueLater ==
    ASSUME NEW h, NEW n \in Nat, NEW m \in Nat, HistoryFits(h, n), NEW k \in Nat, k <= m, Unique(h, k)
    PROVE  Unique(h, m)
<1>1. \A s \in Seq(AnyEntry) : IdsOf(s) \subseteq Nat
  <2> SUFFICES ASSUME NEW s \in Seq(AnyEntry), NEW i \in 1..Len(s) PROVE s[i].id \in Nat
    BY DEF IdsOf
  <2>1. s[i] \in AnyEntry
    OBVIOUS
  <2>2. s[i].id \in 1..MaxSequence
    BY <2>1 DEF AnyEntry
  <2> QED
    BY <2>2, EditAssumption
<1>2. h.undo \in Seq(AnyEntry) /\ h.redo \in Seq(AnyEntry) /\ GroupEntries(h) \in Seq(AnyEntry)
  BY DEF HistoryFits, HistoryStates, GroupEntries
<1>3. \A s \in Seq(AnyEntry) : Numbered(s, k) => Numbered(s, m)
  BY <1>1 DEF Numbered
<1> QED
  BY <1>2, <1>3 DEF Unique

LEMMA UniqueSame ==
    ASSUME NEW h, NEW m, Unique(h, m), NEW g, g.undo = h.undo, g.redo = h.redo, g.group = h.group
    PROVE  Unique(g, m)
BY DEF Unique, GroupEntries

LEMMA EmptyUnique ==
    ASSUME NEW gen, NEW rev, NEW m
    PROVE  Unique(EmptyHistory(gen, rev), m)
BY DEF Unique, EmptyHistory, GroupEntries, Numbered, Single, IdsOf

\* Closing the active group.
LEMMA CloseUnique ==
    ASSUME NEW h, NEW n \in Nat, HistoryFits(h, n), NEW m, Unique(h, m)
    PROVE  Unique(CloseActiveGroup(h), m) /\ SameCache(h, CloseActiveGroup(h))
<1>1. CASE h.group = None
  BY <1>1 DEF CloseActiveGroup, SameCache
<1>2. CASE h.group # None
  <2>1. /\ CloseActiveGroup(h).undo = h.undo \o Counted(h)
        /\ CloseActiveGroup(h).redo = h.redo /\ CloseActiveGroup(h).group = None
    BY <1>2, CloseLeaves
  <2>2. /\ h.group.entries \in Seq(AnyEntry) /\ h.undo \in Seq(AnyEntry)
        /\ Counted(h) \in Seq(AnyEntry) /\ Len(Counted(h)) = Len(h.group.entries)
        /\ \A i \in 1..Len(h.group.entries) : Counted(h)[i].id = h.group.entries[i].id
    BY <1>2, CountedEntries
  <2>3. IdsOf(Counted(h)) = IdsOf(h.group.entries) /\ Numbered(Counted(h), m)
    BY <1>2, <2>2, SameIds DEF Unique, GroupEntries
  <2>4. Numbered(h.undo \o Counted(h), m)
          /\ IdsOf(h.undo \o Counted(h)) = IdsOf(h.undo) \cup IdsOf(h.group.entries)
    BY <1>2, <2>2, <2>3, ConcatIds DEF Unique, GroupEntries, Numbered
  <2>5. Unique(CloseActiveGroup(h), m)
    <3>1. IdsOf(<<>>) = {} /\ Numbered(<<>>, m)
      BY DEF Numbered, Single, IdsOf
    <3>2. GroupEntries(CloseActiveGroup(h)) = <<>> /\ GroupEntries(h) = h.group.entries
      BY <1>2, <2>1 DEF GroupEntries
    <3> QED
      BY <2>1, <2>4, <3>1, <3>2 DEF Unique
  <2>6. SameCache(h, CloseActiveGroup(h))
    BY <1>2 DEF SameCache, CloseActiveGroup, Bump
  <2> QED
    BY <2>5, <2>6
<1> QED
  BY <1>1, <1>2

LEMMA CloseUnlessUnique ==
    ASSUME NEW h, NEW n \in Nat, HistoryFits(h, n), NEW m, Unique(h, m), NEW token
    PROVE  Unique(CloseGroupUnless(h, token), m) /\ SameCache(h, CloseGroupUnless(h, token))
BY CloseUnique DEF CloseGroupUnless, SameCache

LEMMA BeginUnique ==
    ASSUME NEW h, NEW n \in Nat, HistoryFits(h, n), NEW m, Unique(h, m), NEW token
    PROVE  Unique(BeginGroup(h, token), m) /\ SameCache(h, BeginGroup(h, token))
<1> DEFINE c == CloseActiveGroup(h)
           group == [token |-> token, entries |-> <<>>]
           g == [c EXCEPT !.group = group]
<1>1. Unique(c, m) /\ SameCache(h, c) /\ c \in HistoryStates
  BY CloseUnique, CloseFollows DEF Follows, HistoryFits
<1>2. BeginGroup(h, token) = Bump(g)
  BY DEF BeginGroup
<1> HIDE DEF c
<1>3. GroupEntries(Bump(g)) = <<>> /\ Bump(g).undo = c.undo /\ Bump(g).redo = c.redo
        /\ SameCache(c, Bump(g))
  <2>1. Bump(g).group = group
    BY <1>1 DEF Bump, HistoryStates
  <2>2. group.entries = <<>>
    OBVIOUS
  <2>3. GroupEntries(Bump(g)) = <<>>
    BY <2>1, <2>2 DEF GroupEntries
  <2> HIDE DEF group
  <2> QED
    BY <1>1, <2>3 DEF Bump, HistoryStates, SameCache
<1>4. IdsOf(<<>>) = {} /\ Numbered(<<>>, m)
  BY DEF Numbered, Single, IdsOf
<1> QED
  BY <1>1, <1>2, <1>3, <1>4 DEF Unique, SameCache

\* Methods that touch neither entries nor corrections.
LEMMA BumpUnique ==
    ASSUME NEW h \in HistoryStates, NEW m, Unique(h, m), NEW g \in HistoryStates,
           g.undo = h.undo, g.redo = h.redo, g.group = h.group, SameCache(h, g)
    PROVE  Unique(Bump(g), m) /\ SameCache(h, Bump(g))
           /\ \A dir \in Directions : Stack(Bump(g), dir) = Stack(h, dir)
<1>1. Bump(g).undo = h.undo /\ Bump(g).redo = h.redo /\ Bump(g).group = h.group /\ SameCache(h, Bump(g))
  BY DEF Bump, HistoryStates, SameCache
<1> QED
  BY <1>1, UniqueSame DEF Stack

LEMMA PendingUnique ==
    ASSUME NEW h \in HistoryStates, NEW m, Unique(h, m), NEW p \in PendingGroups \cup {None}
    PROVE  /\ Unique(Bump([h EXCEPT !.pending = p]), m) /\ SameCache(h, Bump([h EXCEPT !.pending = p]))
<1> DEFINE g == [h EXCEPT !.pending = p]
<1>1. g \in HistoryStates /\ g.undo = h.undo /\ g.redo = h.redo /\ g.group = h.group /\ SameCache(h, g)
  BY DEF HistoryStates, PendingGroups, SameCache
<1> HIDE DEF g
<1>2. Unique(Bump(g), m) /\ SameCache(h, Bump(g))
  BY <1>1, BumpUnique
<1> QED
  BY <1>2 DEF g

LEMMA StartPendingGroupUnique ==
    ASSUME NEW h \in HistoryStates, NEW m, Unique(h, m), NEW plan \in Plans,
           NEW completed \in Nat, NEW unknown \in BOOLEAN, NEW retry \in BOOLEAN
    PROVE  /\ Unique(StartPendingGroup(h, plan, completed, unknown, retry), m)
           /\ SameCache(h, StartPendingGroup(h, plan, completed, unknown, retry))
<1>1. [dir |-> plan.dir, key |-> plan.key, count |-> plan.count, completed |-> completed,
       unknown |-> unknown, retry |-> retry] \in PendingGroups
  BY DEF Plans, PendingGroups
<1> QED
  BY <1>1, PendingUnique DEF StartPendingGroup

LEMMA MarkMcpOutcomeUnknownUnique ==
    ASSUME NEW h \in HistoryStates, NEW m, Unique(h, m), NEW key \in 1..MaxSequence
    PROVE  Unique(MarkMcpOutcomeUnknown(h, key), m) /\ SameCache(h, MarkMcpOutcomeUnknown(h, key))
<1>1. [dir |-> "undo", key |-> key, count |-> 1, completed |-> 0, unknown |-> TRUE, retry |-> FALSE]
        \in PendingGroups
  BY DEF PendingGroups, Directions
<1> QED
  BY <1>1, PendingUnique DEF MarkMcpOutcomeUnknown

LEMMA ClearCompletedUnique ==
    ASSUME NEW h \in HistoryStates, NEW m, Unique(h, m), NEW key
    PROVE  Unique(ClearCompletedPendingGroup(h, key), m) /\ SameCache(h, ClearCompletedPendingGroup(h, key))
<1>1. Unique(Bump([h EXCEPT !.pending = None]), m) /\ SameCache(h, Bump([h EXCEPT !.pending = None]))
  BY PendingUnique
<1> QED
  BY <1>1 DEF ClearCompletedPendingGroup, SameCache

LEMMA MarkEditUnsupportedUnique ==
    ASSUME NEW h \in HistoryStates, NEW m, Unique(h, m)
    PROVE  Unique(MarkEditUnsupported(h), m) /\ SameCache(h, MarkEditUnsupported(h))
<1> DEFINE g == [h EXCEPT !.unsup = TRUE]
<1>1. g \in HistoryStates /\ g.undo = h.undo /\ g.redo = h.redo /\ g.group = h.group /\ SameCache(h, g)
  BY DEF HistoryStates, SameCache
<1>2. MarkEditUnsupported(h) = IF h.unsup THEN h ELSE Bump(g)
  BY DEF MarkEditUnsupported
<1> HIDE DEF g
<1>3. Unique(Bump(g), m) /\ SameCache(h, Bump(g))
  BY <1>1, BumpUnique
<1> QED
  BY <1>2, <1>3 DEF SameCache

\* Without an active group, a history is its two stacks.
LEMMA StacksUnique ==
    ASSUME NEW g, g.group = None, NEW m, NEW dir \in Directions
    PROVE  Unique(g, m) <=> /\ Numbered(Stack(g, dir), m) /\ Numbered(Stack(g, Opposite(dir)), m)
                            /\ IdsOf(Stack(g, dir)) \cap IdsOf(Stack(g, Opposite(dir))) = {}
<1>1. IdsOf(<<>>) = {} /\ Numbered(<<>>, m)
  BY DEF Numbered, Single, IdsOf
<1>2. GroupEntries(g) = <<>>
  BY DEF GroupEntries
<1>3. \/ Stack(g, dir) = g.undo /\ Stack(g, Opposite(dir)) = g.redo
      \/ Stack(g, dir) = g.redo /\ Stack(g, Opposite(dir)) = g.undo
  BY DEF Directions, Stack, Opposite
<1> QED
  BY <1>1, <1>2, <1>3 DEF Unique

LEMMA SetStackStacks ==
    ASSUME NEW h \in HistoryStates, NEW dir \in Directions, NEW s \in Seq(AnyEntry)
    PROVE  /\ SetStack(h, dir, s) \in HistoryStates /\ SameCache(h, SetStack(h, dir, s))
           /\ SetStack(h, dir, s).group = h.group /\ SetStack(h, dir, s).pending = h.pending
           /\ Stack(SetStack(h, dir, s), dir) = s
           /\ Stack(SetStack(h, dir, s), Opposite(dir)) = Stack(h, Opposite(dir))
<1>1. CASE dir = "undo"
  BY <1>1 DEF SetStack, Stack, Opposite, HistoryStates, SameCache
<1>2. CASE dir = "redo"
  BY <1>2 DEF SetStack, Stack, Opposite, HistoryStates, SameCache
<1> QED
  BY <1>1, <1>2 DEF Directions

LEMMA DiscardActionUnique ==
    ASSUME NEW h, NEW n, HistoryFits(h, n), h.group = None, NEW m, Unique(h, m),
           NEW plan, plan.dir \in Directions
    PROVE  Unique(DiscardAction(h, plan), m) /\ SameCache(h, DiscardAction(h, plan))
<1> DEFINE s == Stack(h, plan.dir)
           g == SetStack(h, plan.dir, Pop(s))
<1>1. CASE OnTop(h, plan.dir, plan.steps[1].id, plan.key)
  <2>1. s # <<>> /\ s \in Seq(AnyEntry) /\ h \in HistoryStates
    BY <1>1, StackFits DEF OnTop, HistoryFits
  <2>2. Numbered(s, m) /\ Numbered(Stack(h, Opposite(plan.dir)), m)
          /\ IdsOf(s) \cap IdsOf(Stack(h, Opposite(plan.dir))) = {}
    BY StacksUnique
  <2>3. DiscardAction(h, plan) = Bump(g)
    BY <1>1 DEF DiscardAction
  <2> HIDE DEF s
  <2>4. Pop(s) \in Seq(AnyEntry) /\ Numbered(Pop(s), m) /\ IdsOf(Pop(s)) \subseteq IdsOf(s)
    BY <2>1, <2>2, PopIds, PopFacts DEF Numbered
  <2>5. /\ g \in HistoryStates /\ SameCache(h, g) /\ g.group = None
        /\ Stack(g, plan.dir) = Pop(s)
        /\ Stack(g, Opposite(plan.dir)) = Stack(h, Opposite(plan.dir))
    BY <2>1, <2>4, SetStackStacks
  <2> HIDE DEF g
  <2>6. Unique(g, m)
    BY <2>2, <2>4, <2>5, StacksUnique
  <2>7. Unique(Bump(g), m) /\ SameCache(g, Bump(g))
    BY <2>5, <2>6, BumpUnique DEF SameCache
  <2> QED
    BY <2>3, <2>5, <2>7 DEF SameCache
<1>2. CASE ~OnTop(h, plan.dir, plan.steps[1].id, plan.key)
  BY <1>2 DEF DiscardAction, SameCache
<1> QED
  BY <1>1, <1>2

LEMMA DiscardPendingGroupUnique ==
    ASSUME NEW h, NEW n, HistoryFits(h, n), NEW m, Unique(h, m)
    PROVE  Unique(DiscardPendingGroup(h), m) /\ SameCache(h, DiscardPendingGroup(h))
<1> DEFINE u == Without(h.undo, h.pending.key)
           r == Without(h.redo, h.pending.key)
           g == [h EXCEPT !.undo = u, !.redo = r, !.pending = None]
<1>1. h \in HistoryStates /\ h.undo \in Seq(AnyEntry) /\ h.redo \in Seq(AnyEntry)
        /\ Known(h.undo, h.gen, n) /\ Known(h.redo, h.gen, n)
  BY DEF HistoryFits, HistoryStates
<1>2. u \in Seq(AnyEntry) /\ r \in Seq(AnyEntry)
  BY <1>1, WithoutKnown
<1>3. /\ Single(u) /\ IdsOf(u) \subseteq IdsOf(h.undo)
      /\ Single(r) /\ IdsOf(r) \subseteq IdsOf(h.redo)
  BY <1>1, WithoutIds DEF Unique, Numbered
<1>4. DiscardPendingGroup(h) = Bump(g)
  BY <1>1 DEF DiscardPendingGroup, HistoryStates
<1> HIDE DEF u, r
<1>5. g \in HistoryStates /\ g.undo = u /\ g.redo = r /\ g.group = h.group /\ SameCache(h, g)
  BY <1>1, <1>2 DEF HistoryStates, SameCache
<1> HIDE DEF g
<1>6. Unique(g, m)
  BY <1>3, <1>5 DEF Unique, Numbered, GroupEntries
<1>7. Unique(Bump(g), m) /\ SameCache(g, Bump(g))
  BY <1>5, <1>6, BumpUnique DEF SameCache
<1> QED
  BY <1>4, <1>5, <1>7 DEF SameCache

-----------------------------------------------------------------------------
(* What the cache learns and forgets.                                      *)

\* From h to g the cache hears nothing of slot t: its value stays, or is forgotten and
\* counted as lost.
Ages(h, g, t) ==
    \/ g.corr[t] = h.corr[t]
    \/ g.corr[t] = None /\ (h.corr[t] # None => h.corr[t].rev <= g.lost)

\* g has heard at its present revision that slot t has the value val, or has lost it.
Learns(g, t, val) ==
    \/ g.corr[t] = [rev |-> g.applied, val |-> val]
    \/ g.corr[t] = None /\ g.lost = g.applied

Grows(h, g) == Past(g) /\ h.lost <= g.lost /\ h.applied <= g.applied

LEMMA InsertCorrectionTells ==
    ASSUME NEW h \in HistoryStates, Past(h), NEW slot, NEW val \in AnyValue
    PROVE  LET g == InsertCorrection(h, slot, val)
           IN  /\ Grows(h, g)
               /\ \A t \in Slots : IF t = slot THEN Learns(g, t, val) ELSE Ages(h, g, t)
<1> DEFINE rest == [h EXCEPT !.corr[slot] = None]
           room == IF Cardinality(Cached(rest)) < MaxCorrections THEN rest
                   ELSE MarkLostThrough([rest EXCEPT !.corr[Oldest(rest)] = None],
                                        rest.corr[Oldest(rest)].rev)
           c == [rev |-> h.applied, val |-> val]
           g == InsertCorrection(h, slot, val)
           Corrections == [Slots -> [rev : Nat, val : AnyValue] \cup {None}]
<1>1. h.applied \in Nat /\ h.lost \in Nat /\ h.lost <= h.applied /\ h.corr \in Corrections
        /\ \A t \in Slots : h.corr[t] # None => h.corr[t].rev <= h.applied
  BY DEF HistoryStates, Past, Cached
<1>2. c \in [rev : Nat, val : AnyValue] /\ c # None /\ c.rev = h.applied
  BY <1>1, NoneAssumption
<1>3. g = IF val \in Oversized THEN MarkLostThrough(rest, h.applied)
          ELSE [room EXCEPT !.corr[slot] = c]
  BY DEF InsertCorrection
<1>4. /\ rest \in HistoryStates /\ rest.applied = h.applied /\ rest.lost = h.lost
      /\ \A t \in Slots : rest.corr[t] = IF t = slot THEN None ELSE h.corr[t]
  BY SlotChange DEF SameButCorrections, HistoryStates
<1> HIDE DEF rest, c
<1>5. CASE val \in Oversized
  <2>1. g.applied = h.applied /\ g.lost = h.applied /\ g.corr = rest.corr
    BY <1>1, <1>3, <1>4, <1>5 DEF MarkLostThrough, Larger, HistoryStates
  <2> HIDE DEF g
  <2> QED
    BY <1>1, <1>4, <2>1 DEF Grows, Past, Cached, Ages, Learns, g
<1>6. CASE val \notin Oversized
  <2>1. /\ room \in HistoryStates /\ room.applied = h.applied
        /\ h.lost <= room.lost /\ room.lost <= h.applied
        /\ \A t \in Slots : \/ room.corr[t] = rest.corr[t]
                            \/ room.corr[t] = None /\ (rest.corr[t] # None => rest.corr[t].rev <= room.lost)
    <3>1. CASE Cardinality(Cached(rest)) < MaxCorrections
      BY <1>1, <1>4, <3>1
    <3>2. CASE ~(Cardinality(Cached(rest)) < MaxCorrections)
      <4> DEFINE old == Oldest(rest)
                 rev == rest.corr[old].rev
      <4>1. old \in Slots /\ rev \in Nat /\ rest.corr[old] # None
        BY <1>4, <3>2, OldestIsCached DEF Cached
      <4> HIDE DEF old
      <4>2. rev <= h.applied
        BY <1>1, <1>4, <4>1
      <4> DEFINE dr == [rest EXCEPT !.corr[old] = None]
      <4>3. /\ dr \in HistoryStates /\ dr.applied = h.applied /\ dr.lost = h.lost
            /\ \A t \in Slots : dr.corr[t] = IF t = old THEN None ELSE rest.corr[t]
        BY <1>4, SlotChange DEF SameButCorrections, HistoryStates
      <4>4. room = MarkLostThrough(dr, rev)
        BY <3>2 DEF old
      <4> HIDE DEF dr, room
      <4>5. room \in HistoryStates /\ room.applied = dr.applied /\ room.corr = dr.corr
              /\ room.lost = IF dr.lost < rev THEN rev ELSE dr.lost
        <5> HIDE DEF rev
        <5> QED
          BY <4>1, <4>3, <4>4 DEF MarkLostThrough, Larger, HistoryStates
      <4> QED
        BY <1>1, <4>1, <4>2, <4>3, <4>5
    <3> QED
      BY <3>1, <3>2
  <2> HIDE DEF room
  <2>2. /\ g.applied = h.applied /\ g.lost = room.lost
        /\ \A t \in Slots : g.corr[t] = IF t = slot THEN c ELSE room.corr[t]
    BY <1>2, <1>3, <1>6, <2>1, SlotChange DEF SameButCorrections, HistoryStates
  <2>3. room.lost \in Nat
    BY <2>1 DEF HistoryStates
  <2> HIDE DEF g
  <2>4. Grows(h, g)
    <3> SUFFICES ASSUME NEW t \in Slots, g.corr[t] # None PROVE g.corr[t].rev <= h.applied
      BY <1>1, <2>1, <2>2, <2>3 DEF Grows, Past, Cached
    <3> QED
      BY <1>1, <1>2, <1>4, <2>1, <2>2
  <2>5. ASSUME NEW t \in Slots PROVE IF t = slot THEN Learns(g, t, val) ELSE Ages(h, g, t)
    <3>1. CASE t = slot
      BY <2>2, <3>1 DEF Learns, c
    <3>2. CASE t # slot
      BY <1>4, <2>1, <2>2, <3>2 DEF Ages
    <3> QED
      BY <3>1, <3>2
  <2> QED
    BY <2>4, <2>5 DEF g
<1> QED
  BY <1>5, <1>6

LEMMA AgesTrans ==
    ASSUME NEW h \in HistoryStates, NEW k \in HistoryStates, NEW g \in HistoryStates,
           NEW t \in Slots, Ages(h, k, t), Ages(k, g, t), k.lost <= g.lost
    PROVE  Ages(h, g, t)
<1>1. k.lost \in Nat /\ g.lost \in Nat /\ (h.corr[t] # None => h.corr[t].rev \in Nat)
  BY DEF HistoryStates
<1> QED
  BY <1>1 DEF Ages

LEMMA RemoveObjectTells ==
    ASSUME NEW h \in HistoryStates, Past(h), NEW o
    PROVE  /\ Grows(h, RemoveObject(h, o))
           /\ \A t \in Slots : Ages(h, RemoveObject(h, o), t)
<1> DEFINE corr == [s \in Slots |-> IF s[1] = o THEN None ELSE h.corr[s]]
           g == RemoveObject(h, o)
<1>1. h.applied \in Nat /\ h.lost \in Nat /\ h.lost <= h.applied
        /\ \A t \in Slots : h.corr[t] # None => h.corr[t].rev <= h.applied
  BY DEF HistoryStates, Past, Cached
<1>2. CASE \E s \in Cached(h) : s[1] = o
  <2>1. g = MarkLostThrough([h EXCEPT !.corr = corr], h.applied)
    BY <1>2 DEF RemoveObject, HistoryStates
  <2>2. \A t \in Slots : corr[t] = IF t[1] = o THEN None ELSE h.corr[t]
    OBVIOUS
  <2> HIDE DEF corr, g
  <2>3. g.corr = corr /\ g.applied = h.applied /\ g.lost = h.applied
    BY <1>1, <2>1 DEF MarkLostThrough, Larger, HistoryStates
  <2> QED
    BY <1>1, <2>2, <2>3 DEF Grows, Past, Cached, Ages, g
<1>3. CASE ~ \E s \in Cached(h) : s[1] = o
  BY <1>1, <1>3 DEF RemoveObject, Grows, Ages
<1> QED
  BY <1>2, <1>3

LEMMA InsertParentTells ==
    ASSUME NEW h \in HistoryStates, Past(h), NEW o
    PROVE  /\ Grows(h, InsertParent(h, o))
           /\ \A t \in Slots : \/ Ages(h, InsertParent(h, o), t)
                               \/ t = <<o, "parent">> /\ Learns(InsertParent(h, o), t, Root)
<1>1. Root \in AnyValue
  BY EditAssumption DEF AnyValue
<1>2. CASE "parent" \in Attributes
  <2>1. InsertParent(h, o) = InsertCorrection(h, <<o, "parent">>, Root)
    BY <1>2 DEF InsertParent
  <2>2. LET g == InsertCorrection(h, <<o, "parent">>, Root)
        IN  /\ Grows(h, g)
            /\ \A t \in Slots : IF t = <<o, "parent">> THEN Learns(g, t, Root) ELSE Ages(h, g, t)
    BY <1>1, InsertCorrectionTells
  <2> QED
    BY <2>1, <2>2
<1>3. CASE "parent" \notin Attributes
  <2>1. InsertParent(h, o) = h /\ h.applied \in Nat /\ h.lost \in Nat
    BY <1>3 DEF InsertParent, HistoryStates
  <2> QED
    BY <2>1 DEF Grows, Ages
<1> QED
  BY <1>2, <1>3

\* insert_action_corrections, for one accepted step of an undo or redo.
LEMMA UpdateActionCorrectionsTells ==
    ASSUME NEW h \in HistoryStates, Past(h), NEW old, NEW new, NEW dir, NEW reply \in Replies
    PROVE  LET g == UpdateActionCorrections(h, old, new, dir, reply)
           IN  /\ Grows(h, g)
               /\ ~IsCreate(old) =>
                    \A t \in Slots : IF t = old.slot THEN Learns(g, t, reply.val) ELSE Ages(h, g, t)
               /\ IsCreate(old) =>
                    \A t \in Slots : \/ Ages(h, g, t)
                                     \/ dir # "undo" /\ t[1] = new.slot[1] /\ Learns(g, t, Root)
<1> DEFINE g == UpdateActionCorrections(h, old, new, dir, reply)
<1>1. CASE ~IsCreate(old)
  <2>1. g = InsertCorrection(h, old.slot, reply.val) /\ reply.val \in AnyValue
    BY <1>1 DEF UpdateActionCorrections, Replies
  <2> HIDE DEF g
  <2>2. /\ Grows(h, g)
        /\ \A t \in Slots : IF t = old.slot THEN Learns(g, t, reply.val) ELSE Ages(h, g, t)
    BY <2>1, InsertCorrectionTells
  <2> QED
    BY <1>1, <2>2 DEF g
<1>2. CASE IsCreate(old) /\ dir = "undo"
  <2>1. g = RemoveObject(h, old.slot[1])
    BY <1>2 DEF UpdateActionCorrections
  <2> HIDE DEF g
  <2>2. Grows(h, g) /\ \A t \in Slots : Ages(h, g, t)
    BY <2>1, RemoveObjectTells
  <2> QED
    BY <1>2, <2>2 DEF g
<1>3. CASE IsCreate(old) /\ dir # "undo"
  <2> DEFINE k == RemoveObject(h, old.slot[1])
  <2>1. g = InsertParent(k, new.slot[1])
    BY <1>3 DEF UpdateActionCorrections
  <2>2. k \in HistoryStates /\ Grows(h, k) /\ \A t \in Slots : Ages(h, k, t)
    BY RemoveObjectFits, RemoveObjectTells DEF SameButCorrections
  <2> HIDE DEF k, g
  <2>3. /\ Grows(k, g) /\ g \in HistoryStates
        /\ \A t \in Slots : Ages(k, g, t) \/ (t = <<new.slot[1], "parent">> /\ Learns(g, t, Root))
    <3>1. k \in HistoryStates /\ Past(k)
      BY <2>2 DEF Grows
    <3>2. SameButCorrections(k, g)
      BY <2>1, <3>1, InsertParentFits
    <3>3. /\ Grows(k, g)
          /\ \A t \in Slots : Ages(k, g, t) \/ (t = <<new.slot[1], "parent">> /\ Learns(g, t, Root))
      BY <2>1, <3>1, InsertParentTells
    <3> QED
      BY <3>2, <3>3 DEF SameButCorrections
  <2>4. Grows(h, g)
    <3>1. /\ h.lost \in Nat /\ k.lost \in Nat /\ g.lost \in Nat
          /\ h.applied \in Nat /\ k.applied \in Nat /\ g.applied \in Nat
      BY <2>2, <2>3 DEF HistoryStates
    <3> QED
      BY <2>2, <2>3, <3>1 DEF Grows
  <2>5. ASSUME NEW t \in Slots PROVE Ages(h, g, t) \/ (t[1] = new.slot[1] /\ Learns(g, t, Root))
    <3>1. CASE Ages(k, g, t)
      BY <2>2, <2>3, <3>1, AgesTrans DEF Grows
    <3>2. CASE t = <<new.slot[1], "parent">> /\ Learns(g, t, Root)
      BY <3>2
    <3> QED
      BY <2>3, <3>1, <3>2
  <2> QED
    BY <1>3, <2>4, <2>5 DEF g
<1> QED
  BY <1>1, <1>2, <1>3

-----------------------------------------------------------------------------
(* What an accepted request does to entries and cache.                     *)

\* Counting it leaves the entries alone and ages every slot.
LEMMA CountedTells ==
    ASSUME NEW h \in HistoryStates, Past(h), NEW k \in HistoryStates,
           k.applied = h.applied + 1, k.corr = h.corr, k.lost = h.lost
    PROVE  Past(k) /\ Grows(h, k) /\ \A t \in Slots : Ages(h, k, t)
<1>1. h.applied \in Nat /\ h.lost \in Nat /\ h.lost <= h.applied
        /\ \A t \in Slots : h.corr[t] # None => h.corr[t].rev <= h.applied /\ h.corr[t].rev \in Nat
  BY DEF HistoryStates, Past, Cached
<1> QED
  BY <1>1 DEF Past, Grows, Ages, Cached

LEMMA GrowsTrans ==
    ASSUME NEW h \in HistoryStates, NEW k \in HistoryStates, NEW g \in HistoryStates,
           Grows(h, k), Grows(k, g)
    PROVE  Grows(h, g)
<1>1. /\ h.lost \in Nat /\ k.lost \in Nat /\ g.lost \in Nat
      /\ h.applied \in Nat /\ k.applied \in Nat /\ g.applied \in Nat
  BY DEF HistoryStates
<1> QED
  BY <1>1 DEF Grows

LEMMA MoveEntryTells ==
    ASSUME NEW h, NEW n, HistoryFits(h, n), h.group = None, Past(h), NEW m, Unique(h, m),
           NEW dir \in Directions, Stack(h, dir) # <<>>, NEW reply \in Replies
    PROVE  LET g == MoveEntry(h, dir, reply)
               old == Top(Stack(h, dir)).rec
           IN  /\ Unique(g, m) /\ Stack(g, dir) = Pop(Stack(h, dir))
               /\ Stack(g, Opposite(dir))
                    = Append(Stack(h, Opposite(dir)),
                             [Top(Stack(h, dir)) EXCEPT !.rec = UpdatedRecord(old, dir, reply)])
               /\ Grows(h, g) /\ g.applied = h.applied + 1
               /\ ~IsCreate(old) =>
                    \A t \in Slots : IF t = old.slot THEN Learns(g, t, reply.val) ELSE Ages(h, g, t)
               /\ IsCreate(old) =>
                    \A t \in Slots : \/ Ages(h, g, t)
                                     \/ dir # "undo" /\ t[1] = reply.id /\ Learns(g, t, Root)
<1> DEFINE entry == Top(Stack(h, dir))
           rec == UpdatedRecord(entry.rec, dir, reply)
           h0 == SetStack(h, dir, Pop(Stack(h, dir)))
           h1 == [h0 EXCEPT !.applied = @ + 1]
           h2 == UpdateActionCorrections(h1, entry.rec, rec, dir, reply)
           e == [entry EXCEPT !.rec = rec]
           pushed == Append(Stack(h2, Opposite(dir)), e)
           h3 == SetStack(h2, Opposite(dir), pushed)
<1>1. MoveEntry(h, dir, reply) = Bump(h3)
  BY DEF MoveEntry
<1>2. /\ h \in HistoryStates /\ Stack(h, dir) \in Seq(AnyEntry) /\ Opposite(dir) \in Directions
      /\ Stack(h, Opposite(dir)) \in Seq(AnyEntry)
      /\ Numbered(Stack(h, dir), m) /\ Numbered(Stack(h, Opposite(dir)), m)
      /\ IdsOf(Stack(h, dir)) \cap IdsOf(Stack(h, Opposite(dir))) = {}
  <2>1. Opposite(dir) \in Directions
    BY DEF Opposite, Directions
  <2> QED
    BY <2>1, StackFits, StacksUnique DEF HistoryFits
<1>3. Opposite(Opposite(dir)) = dir
  BY DEF Opposite, Directions
<1>4. entry \in AnyEntry
  BY <1>2, PopKnown, StackFits
<1>5. /\ Pop(Stack(h, dir)) \in Seq(AnyEntry) /\ Single(Pop(Stack(h, dir)))
      /\ IdsOf(Pop(Stack(h, dir))) = IdsOf(Stack(h, dir)) \ {entry.id}
      /\ entry.id \in IdsOf(Stack(h, dir))
  BY <1>2, PopIds, PopFacts DEF Numbered
<1>6. rec \in AnyRecord
  BY <1>4, UpdatedRecordType DEF AnyEntry
<1>7. IsCreate(entry.rec) /\ dir # "undo" => rec.slot[1] = reply.id
  BY <1>4 DEF UpdatedRecord, Directions, AnyEntry, AnyRecord
<1> DEFINE rec0 == entry.rec
           id == entry.id
<1> HIDE DEF rec
<1>8. e \in AnyEntry /\ e.id = id
  BY <1>4, <1>6, NewRecordType DEF AnyEntry
<1> HIDE DEF e
<1>9. /\ h0 \in HistoryStates /\ SameCache(h, h0) /\ h0.group = None
      /\ Stack(h0, dir) = Pop(Stack(h, dir))
      /\ Stack(h0, Opposite(dir)) = Stack(h, Opposite(dir))
  BY SMTT(30), <1>2, <1>5, SetStackStacks
<1> HIDE DEF h0
<1>10. /\ h1 \in HistoryStates /\ h1.group = None
       /\ h1.applied = h.applied + 1 /\ h1.corr = h.corr /\ h1.lost = h.lost
       /\ Stack(h1, dir) = Pop(Stack(h, dir))
       /\ Stack(h1, Opposite(dir)) = Stack(h, Opposite(dir))
  <2>1. h1 \in HistoryStates /\ h1.undo = h0.undo /\ h1.redo = h0.redo /\ h1.group = h0.group
          /\ h1.applied = h0.applied + 1 /\ h1.corr = h0.corr /\ h1.lost = h0.lost
    BY <1>9 DEF HistoryStates
  <2> QED
    BY <1>9, <2>1 DEF Stack, SameCache
<1> HIDE DEF h1
<1>11. Past(h1) /\ Grows(h, h1) /\ \A t \in Slots : Ages(h, h1, t)
  BY <1>2, <1>10, CountedTells
<1>12. SameButCorrections(h1, h2) /\ h2 \in HistoryStates /\ h2.group = None /\ h2.applied = h.applied + 1
         /\ Stack(h2, dir) = Pop(Stack(h, dir)) /\ Stack(h2, Opposite(dir)) = Stack(h, Opposite(dir))
  BY <1>10, UpdateActionCorrectionsFits DEF SameButCorrections, Stack
<1>13. /\ Grows(h1, h2)
       /\ ~IsCreate(rec0) =>
            \A t \in Slots : IF t = rec0.slot THEN Learns(h2, t, reply.val) ELSE Ages(h1, h2, t)
       /\ IsCreate(rec0) =>
            \A t \in Slots : Ages(h1, h2, t) \/ (dir # "undo" /\ t[1] = rec.slot[1] /\ Learns(h2, t, Root))
  BY <1>10, <1>11, UpdateActionCorrectionsTells
<1> HIDE DEF h2, entry
<1>14. pushed \in Seq(AnyEntry) /\ Numbered(pushed, m)
         /\ IdsOf(pushed) = IdsOf(Stack(h, Opposite(dir))) \cup {id}
  <2>1. id \notin IdsOf(Stack(h, Opposite(dir))) /\ \A k \in IdsOf(Stack(h, dir)) : k < m
    BY <1>2, <1>5 DEF Numbered
  <2>2. /\ pushed \in Seq(AnyEntry)
        /\ IdsOf(pushed) = IdsOf(Stack(h, Opposite(dir))) \cup {id}
        /\ Single(Stack(h, Opposite(dir))) /\ id \notin IdsOf(Stack(h, Opposite(dir))) => Single(pushed)
    BY <1>2, <1>8, <1>12, AppendIds
  <2> QED
    BY <1>2, <1>5, <2>1, <2>2 DEF Numbered
<1> HIDE DEF pushed
<1>15. /\ h3 \in HistoryStates /\ SameCache(h2, h3) /\ h3.group = None
       /\ Stack(h3, Opposite(dir)) = pushed /\ Stack(h3, dir) = Pop(Stack(h, dir))
  <2> DEFINE other == Opposite(dir)
  <2>1. other \in Directions /\ Opposite(other) = dir
    BY <1>2, <1>3
  <2> HIDE DEF other
  <2>2. LET g == SetStack(h2, other, pushed)
        IN  /\ g \in HistoryStates /\ SameCache(h2, g) /\ g.group = h2.group
            /\ Stack(g, other) = pushed /\ Stack(g, Opposite(other)) = Stack(h2, Opposite(other))
    BY <1>12, <1>14, <2>1, SetStackStacks
  <2>3. h3 = SetStack(h2, other, pushed)
    BY DEF other
  <2> HIDE DEF h3
  <2> QED
    BY <1>12, <2>1, <2>2, <2>3 DEF other
<1> HIDE DEF h3, id
<1>16. Unique(h3, m)
  <2>1. Numbered(Pop(Stack(h, dir)), m) /\ IdsOf(Pop(Stack(h, dir))) \cap IdsOf(pushed) = {}
    BY <1>2, <1>5, <1>14 DEF Numbered, id
  <2> QED
    BY <1>14, <1>15, <2>1, StacksUnique
<1>17. /\ Unique(Bump(h3), m) /\ SameCache(h3, Bump(h3)) /\ Stack(Bump(h3), dir) = Stack(h3, dir)
       /\ Stack(Bump(h3), Opposite(dir)) = Stack(h3, Opposite(dir))
  BY <1>2, <1>15, <1>16, BumpUnique DEF SameCache
<1> DEFINE g == Bump(h3)
<1> HIDE DEF g
<1>18. /\ SameCache(h2, g)
  BY <1>15, <1>17 DEF SameCache, g
<1>19. Grows(h, h2)
  BY <1>2, <1>10, <1>11, <1>12, <1>13, GrowsTrans
<1>20. ASSUME NEW t \in Slots, Ages(h1, h2, t) PROVE Ages(h, g, t)
  <2>1. Ages(h, h2, t)
    BY <1>2, <1>10, <1>11, <1>12, <1>13, <1>20, AgesTrans DEF Grows
  <2> QED
    BY <1>18, <2>1 DEF Ages, SameCache
<1>21. ASSUME NEW t, NEW val, Learns(h2, t, val) PROVE Learns(g, t, val)
  BY <1>18, <1>21 DEF Learns, SameCache
<1>22. Grows(h, g) /\ g.applied = h.applied + 1
  BY <1>12, <1>18, <1>19 DEF Grows, Past, Cached, SameCache
<1>23. MoveEntry(h, dir, reply) = g
  BY <1>1 DEF g
<1>24. /\ Unique(g, m) /\ Stack(g, dir) = Pop(Stack(h, dir))
       /\ Stack(g, Opposite(dir)) = pushed
  BY <1>15, <1>17 DEF g
<1>25. Top(Stack(h, dir)).rec = rec0
  BY DEF entry
<1>26. pushed = Append(Stack(h, Opposite(dir)),
                       [Top(Stack(h, dir)) EXCEPT !.rec = UpdatedRecord(rec0, dir, reply)])
  BY <1>12 DEF pushed, e, entry, rec
<1> HIDE DEF rec0
<1> QED
  BY <1>7, <1>13, <1>20, <1>21, <1>22, <1>23, <1>24, <1>25, <1>26 DEF rec0

LEMMA RemapIds ==
    ASSUME NEW s \in Seq(AnyEntry), NEW key, NEW old, NEW new \in AnyObject
    PROVE  /\ RemapGroupIds(s, key, old, new) \in Seq(AnyEntry)
           /\ Len(RemapGroupIds(s, key, old, new)) = Len(s)
           /\ \A i \in 1..Len(s) : RemapGroupIds(s, key, old, new)[i].id = s[i].id
<1> DEFINE t == RemapGroupIds(s, key, old, new)
<1>1. ASSUME NEW i \in 1..Len(s) PROVE t[i] \in AnyEntry /\ t[i].id = s[i].id
  <2>1. s[i] \in AnyEntry
    OBVIOUS
  <2>2. ReplaceRecordIds(s[i].rec, old, new) \in AnyRecord
    BY <2>1, ReplacedRecordType DEF AnyEntry
  <2>3. t[i] = IF s[i].key = key THEN [s[i] EXCEPT !.rec = ReplaceRecordIds(s[i].rec, old, new)]
               ELSE s[i]
    BY <2>1 DEF RemapGroupIds, AnyEntry
  <2> QED
    BY <2>1, <2>2, <2>3 DEF AnyEntry
<1>2. Len(s) \in Nat /\ t \in Seq(AnyEntry) /\ Len(t) = Len(s)
  BY <1>1 DEF RemapGroupIds
<1> QED
  BY <1>1, <1>2

LEMMA FinishGroupStepTells ==
    ASSUME NEW h, NEW n, HistoryFits(h, n), h.group = None, Past(h), NEW m, Unique(h, m),
           NEW plan \in Plans, Stack(h, plan.dir) # <<>>, NEW reply \in Replies
    PROVE  LET g == FinishGroupStep(h, plan, reply)
               old == Top(Stack(h, plan.dir)).rec
           IN  /\ Unique(g, m) /\ Len(Stack(g, plan.dir)) = Len(Stack(h, plan.dir)) - 1
               /\ \A i \in 1..(Len(Stack(h, plan.dir)) - 1) :
                    Stack(g, plan.dir)[i].id = Stack(h, plan.dir)[i].id
               /\ Grows(h, g) /\ g.applied = h.applied + 1
               /\ ~IsCreate(old) =>
                    \A t \in Slots : IF t = old.slot THEN Learns(g, t, reply.val) ELSE Ages(h, g, t)
               /\ IsCreate(old) =>
                    \A t \in Slots : \/ Ages(h, g, t)
                                     \/ plan.dir # "undo" /\ t[1] = reply.id /\ Learns(g, t, Root)
<1> DEFINE dir == plan.dir
           rec == Top(Stack(h, plan.dir)).rec
           moved == MoveEntry(h, plan.dir, reply)
           remap == IF IsCreate(rec) /\ plan.dir = "redo"
                      THEN [moved EXCEPT
                              !.undo = RemapGroupIds(@, plan.key, rec.slot[1], reply.id),
                              !.redo = RemapGroupIds(@, plan.key, rec.slot[1], reply.id)]
                      ELSE moved
           g == FinishGroupStep(h, plan, reply)
<1>1. moved \in HistoryStates /\ moved.group = None
  BY MoveEntryFollows DEF Follows, Plans, HistoryFits, SameKind
<1>2. /\ Unique(moved, m) /\ Stack(moved, dir) = Pop(Stack(h, dir))
      /\ Grows(h, moved) /\ moved.applied = h.applied + 1
      /\ ~IsCreate(rec) =>
           \A t \in Slots : IF t = rec.slot THEN Learns(moved, t, reply.val) ELSE Ages(h, moved, t)
      /\ IsCreate(rec) =>
           \A t \in Slots : \/ Ages(h, moved, t)
                            \/ dir # "undo" /\ t[1] = reply.id /\ Learns(moved, t, Root)
  BY MoveEntryTells DEF Plans
<1>3. g = IF h.pending = None \/ h.pending.key # plan.key THEN remap
          ELSE IF HasGroupOnStack(remap, h.pending.dir, plan.key)
            THEN [remap EXCEPT !.pending.completed = @ + 1]
            ELSE [remap EXCEPT !.pending = None]
  BY DEF FinishGroupStep
<1>4. dir \in Directions /\ Stack(h, dir) \in Seq(AnyEntry) /\ Len(Pop(Stack(h, dir))) = Len(Stack(h, dir)) - 1
        /\ \A i \in 1..(Len(Stack(h, dir)) - 1) : Pop(Stack(h, dir))[i] = Stack(h, dir)[i]
  BY StackFits, PopFacts DEF Plans
<1> HIDE DEF moved, rec, g
<1>5. /\ SameCache(moved, remap) /\ remap.group = None /\ Unique(remap, m)
      /\ DOMAIN remap = DOMAIN moved
      /\ Len(Stack(remap, dir)) = Len(Stack(moved, dir))
      /\ \A i \in 1..Len(Stack(moved, dir)) : Stack(remap, dir)[i].id = Stack(moved, dir)[i].id
  <2>1. CASE IsCreate(rec) /\ plan.dir = "redo"
    <3> DEFINE u == RemapGroupIds(moved.undo, plan.key, rec.slot[1], reply.id)
               r == RemapGroupIds(moved.redo, plan.key, rec.slot[1], reply.id)
    <3>1. reply.id \in AnyObject /\ moved.undo \in Seq(AnyEntry) /\ moved.redo \in Seq(AnyEntry)
      BY <1>1 DEF HistoryStates, Replies
    <3>2. /\ u \in Seq(AnyEntry) /\ Len(u) = Len(moved.undo)
          /\ \A i \in 1..Len(moved.undo) : u[i].id = moved.undo[i].id
          /\ r \in Seq(AnyEntry) /\ Len(r) = Len(moved.redo)
          /\ \A i \in 1..Len(moved.redo) : r[i].id = moved.redo[i].id
      <4>1. /\ u \in Seq(AnyEntry) /\ Len(u) = Len(moved.undo)
            /\ \A i \in 1..Len(moved.undo) : u[i].id = moved.undo[i].id
        BY <3>1, RemapIds
      <4>2. /\ r \in Seq(AnyEntry) /\ Len(r) = Len(moved.redo)
            /\ \A i \in 1..Len(moved.redo) : r[i].id = moved.redo[i].id
        BY <3>1, RemapIds
      <4> HIDE DEF u, r
      <4> QED
        BY <4>1, <4>2
    <3>3. remap = [moved EXCEPT !.undo = u, !.redo = r]
      BY <1>1, <2>1 DEF HistoryStates
    <3> HIDE DEF u, r, remap
    <3>4. remap.undo = u /\ remap.redo = r /\ remap.group = None /\ SameCache(moved, remap)
            /\ DOMAIN remap = DOMAIN moved
      BY <1>1, <3>3 DEF HistoryStates, SameCache
    <3>5. IdsOf(u) = IdsOf(moved.undo) /\ IdsOf(r) = IdsOf(moved.redo)
            /\ Numbered(u, m) /\ Numbered(r, m)
      BY <1>2, <3>1, <3>2, SameIds DEF Unique
    <3>6. Unique(remap, m)
      BY <1>1, <1>2, <3>4, <3>5 DEF Unique, GroupEntries
    <3> QED
      BY <3>2, <3>4, <3>6 DEF Stack
  <2>2. CASE ~(IsCreate(rec) /\ plan.dir = "redo")
    BY <1>1, <1>2, <2>2 DEF SameCache
  <2> QED
    BY <2>1, <2>2
<1> HIDE DEF remap
<1>6. /\ SameCache(remap, g) /\ g.undo = remap.undo /\ g.redo = remap.redo /\ g.group = remap.group
  <2>1. DOMAIN remap = {"gen", "rev", "applied", "undo", "redo", "corr", "lost", "unsup", "pending", "group"}
    BY <1>1, <1>5 DEF HistoryStates
  <2> QED
    BY <1>3, <2>1 DEF SameCache
<1>7. Unique(g, m)
  BY <1>5, <1>6, UniqueSame
<1>8. Stack(g, dir) = Stack(remap, dir)
  BY <1>6 DEF Stack
<1>9. SameCache(moved, g)
  BY <1>5, <1>6 DEF SameCache
<1>10. Grows(h, g) /\ g.applied = h.applied + 1
  BY <1>2, <1>9 DEF Grows, Past, Cached, SameCache
<1>11. /\ ~IsCreate(rec) =>
            \A t \in Slots : IF t = rec.slot THEN Learns(g, t, reply.val) ELSE Ages(h, g, t)
       /\ IsCreate(rec) =>
            \A t \in Slots : \/ Ages(h, g, t)
                             \/ dir # "undo" /\ t[1] = reply.id /\ Learns(g, t, Root)
  BY <1>2, <1>9 DEF SameCache, Learns, Ages
<1>12. /\ Len(Stack(g, dir)) = Len(Stack(h, dir)) - 1
       /\ \A i \in 1..(Len(Stack(h, dir)) - 1) : Stack(g, dir)[i].id = Stack(h, dir)[i].id
  BY <1>2, <1>4, <1>5, <1>8
<1> QED
  BY <1>7, <1>10, <1>11, <1>12 DEF g, rec

\* A record: the new number is on the undo stack or in the active group.
LEMMA PushRecordUnique ==
    ASSUME NEW h, NEW n \in Nat, HistoryFits(h, n), NEW edit, EditFits(h, edit, n),
           Unique(h, edit.seq), NEW rec \in AnyRecord
    PROVE  /\ Unique(PushRecord(h, edit, rec), n)
           /\ SameCache(h, PushRecord(h, edit, rec))
<1> DEFINE k == edit.seq
<1>1. /\ h \in HistoryStates /\ h.undo \in Seq(AnyEntry) /\ h.redo \in Seq(AnyEntry)
      /\ k \in Nat /\ k < n /\ GroupEntries(h) \in Seq(AnyEntry)
  BY EditAssumption DEF HistoryFits, HistoryStates, EditFits, GroupEntries
<1>0. PICK e \in AnyEntry : Pushed(h, edit, rec, n, e)
  BY PushRecordForms
<1>2. /\ e.id = k
      /\ \/ /\ h.group = None /\ e.gen = h.gen /\ e.key < n
            /\ PushRecord(h, edit, rec) = [h EXCEPT !.undo = Append(h.undo, e), !.redo = <<>>]
         \/ /\ h.group # None /\ HistoryFits(Into(h, e), n)
            /\ PushRecord(h, edit, rec) \in {Into(h, e), CloseActiveGroup(Into(h, e))}
  BY <1>0 DEF Pushed
<1>3. Unique(h, k)
  OBVIOUS
<1> HIDE DEF k
<1>4. IdsOf(<<>>) = {} /\ Numbered(<<>>, n)
  BY DEF Numbered, Single, IdsOf
<1>5. \A s \in Seq(AnyEntry) : Numbered(s, k) => Numbered(s, n) /\ k \notin IdsOf(s)
  <2> SUFFICES ASSUME NEW s \in Seq(AnyEntry), Numbered(s, k) PROVE Numbered(s, n) /\ k \notin IdsOf(s)
    OBVIOUS
  <2>1. IdsOf(s) \subseteq Nat
    <3> SUFFICES ASSUME NEW i \in 1..Len(s) PROVE s[i].id \in Nat
      BY DEF IdsOf
    <3>1. s[i] \in AnyEntry
      OBVIOUS
    <3>2. s[i].id \in 1..MaxSequence
      BY <3>1 DEF AnyEntry
    <3> QED
      BY <3>2, EditAssumption
  <2> QED
    BY <1>1, <2>1 DEF Numbered
\* A sequence of older entries takes a new one.
<1>6. ASSUME NEW s \in Seq(AnyEntry), Numbered(s, k)
      PROVE  Numbered(Append(s, e), n) /\ IdsOf(Append(s, e)) = IdsOf(s) \cup {k}
  <2>1. Numbered(s, n) /\ k \notin IdsOf(s)
    BY <1>5, <1>6
  <2>2. IdsOf(Append(s, e)) = IdsOf(s) \cup {k} /\ Single(Append(s, e))
    BY <1>2, <2>1, AppendIds DEF Numbered
  <2> QED
    BY <1>1, <2>1, <2>2 DEF Numbered
<1>7. CASE h.group = None
  <2> DEFINE u == Append(h.undo, e)
  <2>1. Numbered(u, n)
    BY <1>1, <1>3, <1>6 DEF Unique
  <2>2. PushRecord(h, edit, rec) = [h EXCEPT !.undo = u, !.redo = <<>>]
    BY <1>2, <1>7
  <2> HIDE DEF u
  <2> DEFINE g == [h EXCEPT !.undo = u, !.redo = <<>>]
  <2>3. g.undo = u /\ g.redo = <<>> /\ g.group = None /\ SameCache(h, g)
    BY <1>1, <1>7 DEF HistoryStates, SameCache
  <2> HIDE DEF g
  <2>4. GroupEntries(g) = <<>>
    BY <2>3 DEF GroupEntries
  <2>5. Unique(g, n)
    BY <1>4, <2>1, <2>3, <2>4 DEF Unique
  <2> QED
    BY <2>2, <2>3, <2>5 DEF g
<1>8. CASE h.group # None
  <2> DEFINE w == Append(h.group.entries, e)
             redo == IF h.group.entries = <<>> THEN <<>> ELSE h.redo
             group == [token |-> h.group.token, entries |-> w]
             into == Into(h, e)
  <2>1. HistoryFits(into, n) /\ PushRecord(h, edit, rec) \in {into, CloseActiveGroup(into)}
    BY <1>2, <1>8
  <2>2. GroupEntries(h) = h.group.entries
    BY <1>8 DEF GroupEntries
  <2>3. Numbered(w, n) /\ IdsOf(w) = IdsOf(GroupEntries(h)) \cup {k}
    BY <1>1, <1>3, <1>6, <2>2 DEF Unique
  <2>4. Numbered(redo, n) /\ IdsOf(redo) \subseteq IdsOf(h.redo) /\ k \notin IdsOf(redo)
    BY <1>1, <1>3, <1>4, <1>5 DEF Unique
  <2>5. Numbered(h.undo, n) /\ k \notin IdsOf(h.undo)
    BY <1>1, <1>3, <1>5 DEF Unique
  <2>6. into = [h EXCEPT !.group = group, !.redo = redo]
    BY DEF Into
  <2>7. group.entries = w
    OBVIOUS
  <2> HIDE DEF w, redo, group, into
  <2>8. into.undo = h.undo /\ into.redo = redo /\ into.group = group /\ SameCache(h, into)
    BY <1>1, <2>6 DEF HistoryStates, SameCache
  <2>9. into.group # None
    <3>1. h.group \in [token : 1..MaxSequence, entries : Seq(AnyEntry)]
      BY <1>1, <1>8 DEF HistoryStates
    <3>2. w \in Seq(AnyEntry)
      BY <1>1, <1>8 DEF w, GroupEntries
    <3>3. group \in [token : 1..MaxSequence, entries : Seq(AnyEntry)]
      BY <3>1, <3>2 DEF group
    <3> QED
      BY <2>8, <3>3, NoneAssumption
  <2>10. Unique(into, n)
    <3>1. GroupEntries(into) = w
      BY <2>7, <2>8, <2>9 DEF GroupEntries
    <3> QED
      BY <1>3, <2>3, <2>4, <2>5, <2>8, <3>1 DEF Unique
  <2>11. Unique(CloseActiveGroup(into), n) /\ SameCache(into, CloseActiveGroup(into))
    BY <2>1, <2>10, CloseUnique
  <2> QED
    BY <2>1, <2>8, <2>10, <2>11 DEF SameCache
<1> QED
  BY <1>7, <1>8

\* The end of a single undo or redo whose entry is on top.
LEMMA FinishActionSuccessTells ==
    ASSUME NEW h, NEW n, HistoryFits(h, n), h.group = None, Past(h), NEW m, Unique(h, m),
           NEW plan \in Plans, NEW reply \in Replies, Stack(h, plan.dir) # <<>>,
           plan.steps[1] = Top(Stack(h, plan.dir)), plan.steps[1].key = plan.key
    PROVE  LET g == FinishActionSuccess(h, plan, reply)
               old == plan.steps[1].rec
           IN  /\ Unique(g, m)
               /\ Malformed(old, plan.dir, reply) => SameCache(h, g)
               /\ ~Malformed(old, plan.dir, reply) => Grows(h, g) /\ g.applied = h.applied + 1
               /\ ~IsCreate(old) =>
                    \A t \in Slots : IF t = old.slot THEN Learns(g, t, reply.val) ELSE Ages(h, g, t)
               /\ IsCreate(old) /\ ~Malformed(old, plan.dir, reply) =>
                    \A t \in Slots : \/ Ages(h, g, t)
                                     \/ plan.dir # "undo" /\ t[1] = reply.id /\ Learns(g, t, Root)
<1> DEFINE old == plan.steps[1].rec
           bad == Malformed(old, plan.dir, reply)
<1>1. plan.dir \in Directions
  BY DEF Plans
<1>2. OnTop(h, plan.dir, plan.steps[1].id, plan.key)
  BY DEF OnTop
<1>3. CASE bad
  <2>1. FinishActionSuccess(h, plan, reply) = DiscardAction(h, plan)
    BY <1>3 DEF FinishActionSuccess
  <2>2. Unique(DiscardAction(h, plan), m) /\ SameCache(h, DiscardAction(h, plan))
    BY <1>1, DiscardActionUnique
  <2>3. IsCreate(old)
    BY <1>3 DEF Malformed
  <2> QED
    BY <1>3, <2>1, <2>2, <2>3
<1>4. CASE ~bad
  <2> DEFINE g == MoveEntry(h, plan.dir, reply)
  <2>1. FinishActionSuccess(h, plan, reply) = g
    BY <1>2, <1>4 DEF FinishActionSuccess
  <2> DEFINE top == Top(Stack(h, plan.dir)).rec
             sound == /\ Unique(g, m) /\ Stack(g, plan.dir) = Pop(Stack(h, plan.dir))
                      /\ Stack(g, Opposite(plan.dir))
                           = Append(Stack(h, Opposite(plan.dir)),
                                    [Top(Stack(h, plan.dir)) EXCEPT
                                       !.rec = UpdatedRecord(top, plan.dir, reply)])
                      /\ Grows(h, g) /\ g.applied = h.applied + 1
                      /\ ~IsCreate(top) =>
                           \A t \in Slots :
                             IF t = top.slot THEN Learns(g, t, reply.val) ELSE Ages(h, g, t)
                      /\ IsCreate(top) =>
                           \A t \in Slots : \/ Ages(h, g, t)
                                            \/ plan.dir # "undo" /\ t[1] = reply.id /\ Learns(g, t, Root)
  <2>2. sound
    BY <1>1, MoveEntryTells
  <2>3. top = old
    OBVIOUS
  <2> HIDE DEF g, old, bad, top
  <2>4. /\ Unique(g, m)
        /\ bad => SameCache(h, g)
        /\ ~bad => Grows(h, g) /\ g.applied = h.applied + 1
        /\ ~IsCreate(old) =>
             \A t \in Slots : IF t = old.slot THEN Learns(g, t, reply.val) ELSE Ages(h, g, t)
        /\ IsCreate(old) /\ ~bad =>
             \A t \in Slots : \/ Ages(h, g, t)
                              \/ plan.dir # "undo" /\ t[1] = reply.id /\ Learns(g, t, Root)
    BY <1>4, <2>2, <2>3
  <2> QED
    BY <2>1, <2>4 DEF bad, old
<1> QED
  BY <1>3, <1>4

\* An accepted edit.
LEMMA RecordSuccessTells ==
    ASSUME NEW h, NEW n \in Nat, HistoryFits(h, n), NEW edit \in EditRuns, EditFits(h, edit, n),
           Past(h), Unique(h, edit.seq), NEW reply \in Replies,
           edit.op = "set" => edit.slot \in Slots /\ reply.val \in Values
    PROVE  LET g == RecordSuccess(h, edit, reply)
           IN  /\ Unique(g, n) /\ Grows(h, g) /\ g.applied = h.applied + 1
               /\ \A t \in Slots :
                    \/ Ages(h, g, t) /\ (edit.op = "set" => t # edit.slot)
                    \/ edit.op = "set" /\ t = edit.slot /\ Learns(g, t, reply.val)
                    \/ edit.op = "create" /\ reply.id # None /\ t[1] = reply.id /\ Learns(g, t, Root)
               /\ edit.op = "delete" => g.corr = NoCorrections /\ g.lost = g.applied
<1> DEFINE applied == [h EXCEPT !.applied = @ + 1]
           counted == Bump(applied)
           set == InsertCorrection(counted, edit.slot, reply.val)
           setRec == [slot |-> edit.slot, old |-> edit.old, new |-> reply.val]
           newRec == [slot |-> <<reply.id, "object">>, old |-> "gone", new |-> "alive"]
           parent == InsertParent(counted, reply.id)
           cleared == [counted EXCEPT !.corr = NoCorrections, !.lost = counted.applied,
                                      !.undo = <<>>, !.redo = <<>>]
           g == RecordSuccess(h, edit, reply)
<1>1. h \in HistoryStates /\ h.applied + 1 \in Nat /\ h.rev + 1 \in Nat /\ edit.seq \in Nat
        /\ edit.seq <= n
  BY SMTT(30), EditAssumption DEF HistoryFits, HistoryStates, EditFits
<1>2. \/ g = cleared /\ edit.op = "delete"
      \/ g = set /\ edit.op = "set"
      \/ g = PushRecord(set, edit, setRec) /\ edit.op = "set" /\ edit.old # None
      \/ g = counted /\ edit.op \in {"create", "other"}
      \/ g = PushRecord(parent, edit, newRec) /\ edit.op = "create" /\ reply.id # None
  <2> USE DEF EditRuns
  <2>1. edit.op \in {"set", "create", "delete", "other"}
    OBVIOUS
  <2> HIDE DEF EditRuns, applied, set, setRec, newRec, parent
  <2> QED
    BY <2>1 DEF RecordSuccess, applied, set, setRec, newRec, parent
<1>3. /\ counted \in HistoryStates /\ counted.undo = h.undo /\ counted.redo = h.redo
      /\ counted.group = h.group /\ counted.applied = h.applied + 1 /\ counted.corr = h.corr
      /\ counted.lost = h.lost /\ counted.gen = h.gen /\ counted.pending = h.pending
  BY <1>1 DEF Bump, HistoryStates
<1> HIDE DEF counted
<1>4. HistoryFits(counted, n) /\ Unique(counted, edit.seq)
  BY <1>3, UniqueSame DEF HistoryFits, GroupFits
<1>5. Past(counted) /\ Grows(h, counted) /\ \A t \in Slots : Ages(h, counted, t)
  BY <1>1, <1>3, CountedTells
\* A history that differs from counted in the cache alone, and one with a record more.
<1>6. ASSUME NEW k, SameButCorrections(counted, k), Grows(counted, k)
      PROVE  /\ Unique(k, n) /\ Grows(h, k) /\ k.applied = h.applied + 1
             /\ \A t \in Slots : Ages(counted, k, t) => Ages(h, k, t)
             /\ \A rec \in AnyRecord :
                  /\ Unique(PushRecord(k, edit, rec), n)
                  /\ SameCache(k, PushRecord(k, edit, rec))
  <2>1. HistoryFits(k, n) /\ k \in HistoryStates /\ k.gen = h.gen /\ k.group = h.group
          /\ k.pending = h.pending /\ k.applied = h.applied + 1
          /\ k.undo = counted.undo /\ k.redo = counted.redo
    BY <1>3, <1>4, <1>6, CorrectionsFit DEF SameButCorrections
  <2>2. EditFits(k, edit, n) /\ Unique(k, edit.seq)
    BY <1>3, <1>4, <2>1, UniqueSame DEF EditFits
  <2>3. Unique(k, n)
    BY <1>1, <2>1, <2>2, UniqueLater
  <2>4. Grows(h, k)
    BY <1>1, <1>3, <1>5, <1>6, <2>1, GrowsTrans
  <2>5. ASSUME NEW t \in Slots, Ages(counted, k, t) PROVE Ages(h, k, t)
    BY <1>1, <1>3, <1>5, <1>6, <2>1, <2>5, AgesTrans DEF Grows
  <2> QED
    BY <2>1, <2>2, <2>3, <2>4, <2>5, PushRecordUnique
\* What a record keeps of the cache.
<1>7. ASSUME NEW k, NEW p, SameCache(k, p)
      PROVE  /\ Grows(h, k) => Grows(h, p)
             /\ p.applied = k.applied
             /\ \A t \in Slots : Ages(h, k, t) => Ages(h, p, t)
             /\ \A t, val : Learns(k, t, val) => Learns(p, t, val)
  BY <1>7 DEF SameCache, Grows, Past, Cached, Ages, Learns
<1>8. CASE g = cleared /\ edit.op = "delete"
  <2>1. cleared.undo = <<>> /\ cleared.redo = <<>> /\ cleared.group = h.group
          /\ cleared.corr = NoCorrections /\ cleared.lost = counted.applied
          /\ cleared.applied = counted.applied
    BY <1>3 DEF HistoryStates
  <2> DEFINE c == cleared
  <2> HIDE DEF cleared
  <2>2. Unique(c, n)
    <3>1. Unique(counted, n)
      BY <1>1, <1>4, UniqueLater
    <3>2. IdsOf(<<>>) = {} /\ Numbered(<<>>, n)
      BY DEF Numbered, Single, IdsOf
    <3> QED
      BY <1>3, <2>1, <3>1, <3>2 DEF Unique, GroupEntries
  <2>3. \A t \in Slots : c.corr[t] = None
    BY <2>1 DEF NoCorrections
  <2>4. h.applied \in Nat /\ h.lost \in Nat /\ h.lost <= h.applied
          /\ \A t \in Slots : h.corr[t] # None => h.corr[t].rev <= h.applied /\ h.corr[t].rev \in Nat
    BY <1>1 DEF HistoryStates, Past, Cached
  <2>5. Grows(h, c) /\ c.applied = h.applied + 1
    BY <1>3, <2>1, <2>3, <2>4 DEF Grows, Past, Cached
  <2>6. \A t \in Slots : Ages(h, c, t)
    BY <1>3, <2>1, <2>3, <2>4 DEF Ages
  <2> QED
    BY <1>8, <2>1, <2>2, <2>5, <2>6
<1>9. CASE edit.op = "set"
  <2>1. SameButCorrections(counted, set)
    BY <1>3, <1>9, InsertCorrectionFits DEF Replies
  <2>2. /\ Grows(counted, set)
        /\ \A t \in Slots : IF t = edit.slot THEN Learns(set, t, reply.val) ELSE Ages(counted, set, t)
    BY <1>3, <1>5, InsertCorrectionTells DEF Replies
  <2>3. edit.old # None => setRec \in AnyRecord
    BY <1>9 DEF EditRuns, AnyValue, AnyRecord, Slots, AnyObject
  <2> DEFINE s == set
             r == setRec
  <2> HIDE DEF set, setRec
  <2>4. /\ Unique(s, n) /\ Grows(h, s) /\ s.applied = h.applied + 1
        /\ \A t \in Slots : IF t = edit.slot THEN Learns(s, t, reply.val) ELSE Ages(h, s, t)
        /\ edit.old # None => Unique(PushRecord(s, edit, r), n) /\ SameCache(s, PushRecord(s, edit, r))
    BY <1>6, <2>1, <2>2, <2>3
  <2>5. g = s \/ (g = PushRecord(s, edit, r) /\ edit.old # None)
    BY <1>2, <1>9
  <2> HIDE DEF g, s, r
  <2>6. SameCache(s, g) /\ Unique(g, n)
    BY <2>4, <2>5 DEF SameCache
  <2>7. /\ Grows(h, g) /\ g.applied = h.applied + 1
        /\ \A t \in Slots : IF t = edit.slot THEN Learns(g, t, reply.val) ELSE Ages(h, g, t)
    BY <1>7, <2>4, <2>6
  <2> QED
    BY <1>9, <2>6, <2>7 DEF g
<1>10. CASE edit.op \in {"create", "other"} /\ g = counted
  <2>1. Unique(counted, n)
    BY <1>1, <1>4, UniqueLater
  <2> QED
    BY <1>3, <1>5, <1>10, <2>1
<1>11. CASE g = PushRecord(parent, edit, newRec) /\ edit.op = "create" /\ reply.id # None
  <2>1. newRec \in AnyRecord
    BY DEF Replies, AnyRecord
  <2>2. SameButCorrections(counted, parent)
    BY <1>3, InsertParentFits
  <2>3. /\ Grows(counted, parent)
        /\ \A t \in Slots : Ages(counted, parent, t) \/ (t = <<reply.id, "parent">> /\ Learns(parent, t, Root))
    BY <1>3, <1>5, InsertParentTells
  <2> DEFINE p == parent
             r == newRec
  <2> HIDE DEF parent, newRec, p, r
  <2>4. /\ Unique(PushRecord(p, edit, r), n) /\ SameCache(p, PushRecord(p, edit, r))
        /\ Grows(h, p) /\ p.applied = h.applied + 1
        /\ \A t \in Slots : Ages(h, p, t) \/ (t[1] = reply.id /\ Learns(p, t, Root))
    BY <1>6, <2>1, <2>2, <2>3 DEF p, r
  <2>5. g = PushRecord(p, edit, r)
    BY <1>11 DEF p, r
  <2> HIDE DEF g
  <2>6. /\ Unique(g, n) /\ Grows(h, g) /\ g.applied = h.applied + 1
        /\ \A t \in Slots : Ages(h, g, t) \/ (t[1] = reply.id /\ Learns(g, t, Root))
    BY <1>7, <2>4, <2>5
  <2> QED
    BY <1>11, <2>6 DEF g
<1> HIDE DEF set, setRec, newRec, parent, cleared, g
<1> QED
  BY <1>2, <1>8, <1>9, <1>10, <1>11 DEF g

-----------------------------------------------------------------------------
(* Every step keeps both.                                                  *)

\* What an item the actor has no answer to, or no item, leaves true.
LEMMA AnswerFitsRest ==
    ASSUME AnswerFits, UNCHANGED engine, run' = None \/ run'.reply = None
    PROVE  AnswerFits' /\ \A t \in Slots : ~Moved(t)'
BY DEF AnswerFits, Moved, InFlight

\* A next history g knows what it has to of every slot, but for the slots in lost.
Heard(g, lost) ==
    /\ Past(g)
    /\ \/ /\ history.gen # session /\ g.gen \in {session, history.gen}
          /\ g.gen = session => g.corr = NoCorrections
       \/ /\ g.gen = history.gen /\ Grows(history, g)
          /\ \A t \in Slots :
               \/ t \in lost
               \/ ~Moved(t) /\ Ages(history, g, t)
               \/ Learns(g, t, engine[t]) /\ g.applied > history.applied

\* What is unsure stays so, or the cache is cleared of everything any capture could have seen.
SureAgain == history'.corr = NoCorrections /\ history'.lost > history.applied
StaysUnsure == unsure \subseteq unsure' \/ SureAgain

LEMMA HeardKnows ==
    ASSUME EditInv, Knows(history), UNCHANGED <<session, engine, capture>>,
           run' = None \/ run'.reply = None, StaysUnsure,
           history' \in HistoryStates, Heard(history', unsure')
    PROVE  Knows(history)'
<1>1. CASE history.gen # session
  <2>1. capture # None => capture.gen # session
    BY <1>1 DEF Knows
  <2>2. history'.gen = session => \A t \in Slots : history'.corr[t] = None
    BY <1>1 DEF Heard, NoCorrections
  <2> QED
    BY <2>1, <2>2 DEF Knows, Heard
<1>2. CASE history.gen = session
  <2>1. /\ Past(history') /\ history'.gen = session /\ Grows(history, history')
        /\ \A t \in Slots :
             \/ t \in unsure'
             \/ ~Moved(t) /\ Ages(history, history', t)
             \/ Learns(history', t, engine[t]) /\ history'.applied > history.applied
    BY <1>2 DEF Heard
  <2>2. /\ history.applied \in Nat /\ history'.applied \in Nat
        /\ history.lost \in Nat /\ history'.lost \in Nat
        /\ history.applied <= history'.applied /\ history.lost <= history'.lost
        /\ \A t \in Slots : history.corr[t] # None => history.corr[t].rev \in Nat
        /\ capture # None => capture.rev \in Nat
    BY <2>1 DEF EditInv, SceneFits, HistoryFits, HistoryStates, Grows
  <2>3. capture # None /\ capture.gen = session => capture.rev <= history.applied
    BY DEF Knows
  <2>4. ASSUME unsure \subseteq unsure',
               session # None, NEW t \in Slots, t \notin unsure', ~Moved(t), Ages(history, history', t)
        PROVE  /\ history'.corr[t] # None => history'.corr[t].val = engine[t]
               /\ capture # None /\ capture.gen = session /\ capture.slot = t => Resolved(history', engine[t])
    <3>1. /\ history.corr[t] # None => history.corr[t].val = engine[t]
          /\ capture # None /\ capture.gen = session /\ capture.slot = t => Resolved(history, engine[t])
      BY <1>2, <2>4 DEF Knows
    <3>2. history'.corr[t] # None => history'.corr[t].val = engine[t]
      BY <2>4, <3>1 DEF Ages
    <3>3. ASSUME capture # None, capture.gen = session, capture.slot = t
          PROVE  Resolved(history', engine[t])
      <4>1. Resolved(history, engine[t])
        BY <3>1, <3>3
      <4> QED
        BY <2>2, <2>4, <3>3, <4>1 DEF Resolved, Ages
    <3> QED
      BY <3>2, <3>3
  <2>5. ASSUME NEW t \in Slots, Learns(history', t, engine[t]), history'.applied > history.applied
        PROVE  /\ history'.corr[t] # None => history'.corr[t].val = engine[t]
               /\ capture # None /\ capture.gen = session /\ capture.slot = t => Resolved(history', engine[t])
    <3>1. [rev |-> history'.applied, val |-> engine[t]] # None
      <4>1. engine[t] \in AnyValue
        BY DEF EditInv, SceneFits, AnyValue
      <4> QED
        BY <2>2, <4>1, NoneAssumption
    <3> QED
      BY <2>2, <2>3, <2>5, <3>1 DEF Learns, Resolved
  <2>6. capture # None /\ capture.gen = session => capture.rev <= history'.applied
    BY <2>2, <2>3
  <2>7. ASSUME session # None, NEW t \in Slots, t \notin unsure'
        PROVE  /\ history'.corr[t] # None => history'.corr[t].val = engine[t]
               /\ capture # None /\ capture.gen = session /\ capture.slot = t => Resolved(history', engine[t])
    <3>1. CASE unsure \subseteq unsure'
      BY <2>1, <2>4, <2>5, <2>7, <3>1
    <3>2. CASE SureAgain
      <4>1. history'.corr[t] = None
        BY <3>2 DEF SureAgain, NoCorrections
      <4>2. ASSUME capture # None, capture.gen = session, capture.slot = t
            PROVE  Resolved(history', engine[t])
        <5>1. capture.rev < history'.lost
          BY <2>2, <2>3, <3>2, <4>2 DEF SureAgain
        <5> QED
          BY <4>1, <4>2, <5>1 DEF Resolved
      <4> QED
        BY <4>1, <4>2
    <3> QED
      BY <3>1, <3>2 DEF StaysUnsure
  <2> QED
    BY <2>1, <2>6, <2>7 DEF Knows, Resolved
<1> QED
  BY <1>1, <1>2

LEMMA HeardKeeps ==
    ASSUME EditInv, CaptureInv, UNCHANGED <<session, lastGen, engine, capture>>,
           run' = None \/ run'.reply = None, StaysUnsure,
           history' \in HistoryStates, Heard(history', unsure')
    PROVE  CaptureInv'
<1>1. Knows(history)'
  BY HeardKnows DEF CaptureInv
<1>2. AnswerFits'
  BY AnswerFitsRest DEF CaptureInv
<1>3. CaptureFits'
  BY DEF CaptureInv, CaptureFits, Heard
<1> QED
  BY <1>1, <1>2, <1>3 DEF CaptureInv

\* A history of the same connection whose cache is unchanged, and one synchronized.
LEMMA SameHeard ==
    ASSUME CaptureInv, NEW g, SameCache(history, g), g.gen = history.gen, NEW lost,
           history \in HistoryStates, \A t \in Slots : Moved(t) => t \in lost
    PROVE  Heard(g, lost)
<1>1. history.applied \in Nat /\ history.lost \in Nat /\ Past(history)
  BY DEF CaptureInv, Knows, HistoryStates
<1> QED
  BY <1>1 DEF Heard, SameCache, Past, Cached, Grows, Ages

LEMMA CurrentHeard ==
    ASSUME EditInv, CaptureInv, NEW g, SameCache(Current, g), g.gen = session, NEW lost,
           \A t \in Slots : Moved(t) => t \in lost
    PROVE  Heard(g, lost)
<1>1. history \in HistoryStates
  BY DEF EditInv, HistoryFits
<1>2. CASE history.gen = session
  <2>1. SameCache(history, g) /\ g.gen = history.gen
    BY <1>2 DEF Current, Synchronize
  <2> QED
    BY <1>1, <2>1, SameHeard
<1>3. CASE history.gen # session
  <2>1. g.corr = NoCorrections /\ g.lost = 0 /\ g.applied = 0
    BY <1>3 DEF Current, Synchronize, EmptyHistory, SameCache
  <2>2. Past(g)
    BY <2>1 DEF Past, Cached, NoCorrections
  <2> QED
    BY <1>3, <2>1, <2>2 DEF Heard
<1> QED
  BY <1>2, <1>3

CacheInv == StepInv /\ CaptureInv

\* The next number is one of those to come.
LEMMA NextIdFacts ==
    ASSUME EditInv
    PROVE  seq \in Nat /\ NextId \in Nat /\ NextId <= seq
<1>1. seq \in Nat
  BY EditAssumption DEF EditInv
<1>2. CASE run # None /\ run.kind = "edit"
  BY <1>1, <1>2, EditAssumption DEF EditInv, EditRunFits, EditRuns, NextId
<1>3. CASE ~(run # None /\ run.kind = "edit")
  BY <1>1, <1>3 DEF NextId
<1> QED
  BY <1>1, <1>2, <1>3

LEMMA CurrentUnique ==
    ASSUME EditInv, StepInv
    PROVE  Unique(Current, NextId) /\ Unique(Current, seq) /\ Unique(history, seq)
<1>1. Unique(Current, NextId)
  BY EmptyUnique DEF StepInv, Current, Synchronize
<1>2. HistoryFits(Current, seq) /\ HistoryFits(history, seq)
  BY CurrentFits DEF EditInv
<1> QED
  BY <1>1, <1>2, NextIdFacts, UniqueLater DEF StepInv

\* The actor rests, or has sent an edit.
LEMMA RestKeeps ==
    ASSUME EditInv, EditInv', CacheInv, UNCHANGED <<session, lastGen, engine, capture>>,
           run' = None \/ (run'.kind = "edit" /\ run'.reply = None), StaysUnsure,
           Heard(history', unsure'), NEW k \in Nat, k <= NextId', Unique(history', k)
    PROVE  CacheInv'
<1>1. HistoryFits(history', seq') /\ history' \in HistoryStates /\ seq' \in Nat /\ NextId' \in Nat
  <2>1. HistoryFits(history', seq') /\ history' \in HistoryStates /\ seq' \in Nat
    BY EditAssumption DEF EditInv, HistoryFits
  <2>2. CASE run' # None /\ run'.kind = "edit"
    <3>1. run' \in EditRuns
      BY <2>2 DEF EditInv, EditRunFits
    <3>2. run'.seq \in 1..MaxSequence
      BY <3>1 DEF EditRuns
    <3>3. NextId' = run'.seq
      BY <2>2 DEF NextId
    <3> QED
      BY <2>1, <3>2, <3>3, EditAssumption
  <2>3. CASE ~(run' # None /\ run'.kind = "edit")
    BY <2>1, <2>3 DEF NextId
  <2> QED
    BY <2>1, <2>2, <2>3
<1>2. Unique(history', NextId')
  BY <1>1, UniqueLater
<1>3. StepsFit'
  BY DEF StepsFit
<1>4. CaptureInv'
  BY <1>1, HeardKeeps DEF CacheInv
<1> QED
  BY <1>2, <1>3, <1>4 DEF CacheInv, StepInv

\* The end of an item.
LEMMA FinishedTells ==
    ASSUME EditInv, EditInv', CacheInv, UNCHANGED <<session, lastGen, engine, seq, capture>>,
           unsure \subseteq unsure', NEW g, Finished(g),
           g.gen = history.gen \/ g = Current,
           session = history.gen => g.gen = history.gen /\ Heard(g, unsure') /\ Unique(g, seq)
    PROVE  CacheInv'
<1>1. run' = None /\ history' = Synchronize(g, session) /\ NextId' = seq /\ seq \in Nat
  BY NextIdFacts DEF Finished, NextId
<1>2. CASE session = history.gen
  <2>1. history' = g
    BY <1>1, <1>2 DEF Synchronize
  <2> QED
    BY <1>1, <1>2, <2>1, RestKeeps DEF StaysUnsure
<1>3. CASE session # history.gen
  <2>1. PICK rev : history' = EmptyHistory(session, rev)
    <3>1. EmptyHistory(session, history.rev + 1).gen = session
      BY DEF EmptyHistory
    <3>2. Current = EmptyHistory(session, history.rev + 1)
      BY <1>3 DEF Current, Synchronize
    <3> QED
      BY <1>1, <1>3, <3>1, <3>2 DEF Synchronize
  <2>2. history'.gen = session /\ history'.corr = NoCorrections /\ history'.lost = 0 /\ history'.applied = 0
    BY <2>1 DEF EmptyHistory
  <2>3. Heard(history', unsure')
    BY <1>3, <2>2 DEF Heard, Past, Cached, NoCorrections
  <2>4. Unique(history', seq)
    BY <2>1, EmptyUnique
  <2> QED
    BY <1>1, <2>3, <2>4, RestKeeps DEF StaysUnsure
<1> QED
  BY <1>2, <1>3

\* An item that ends with what it has done to the history, or with nothing when the
\* connection has changed.
LEMMA FinishTells ==
    ASSUME EditInv, EditInv', CacheInv, UNCHANGED <<session, lastGen, engine, seq, capture>>,
           unsure \subseteq unsure', run # None, NEW g,
           Finished(IF session # run.gen THEN Current ELSE g), g.gen = history.gen,
           session = run.gen => Heard(g, unsure') /\ Unique(g, seq)
    PROVE  CacheInv'
<1>1. run.gen = history.gen
  BY DEF EditInv, RunIsOfHistory
<1>2. CASE session # run.gen
  <2>1. Finished(Current)
    BY <1>2
  <2> QED
    BY <1>1, <1>2, <2>1, FinishedTells
<1>3. CASE session = run.gen
  <2>1. Finished(g)
    BY <1>3
  <2> QED
    BY <1>1, <1>3, <2>1, FinishedTells
<1> QED
  BY <1>2, <1>3

-----------------------------------------------------------------------------
(* Connections and the screen.                                             *)

LEMMA InitTells == Init => CacheInv
<1> SUFFICES ASSUME Init PROVE CacheInv
  OBVIOUS
<1>1. history = EmptyHistory(1, 0) /\ run = None /\ capture = None /\ session = 1 /\ lastGen = 1
        /\ engine = NewScene /\ 1 # None
  BY EditAssumption DEF Init
<1>2. StepInv
  BY <1>1, EmptyUnique DEF StepInv, StepsFit
<1>3. history.gen = 1 /\ history.corr = NoCorrections /\ history.lost = 0 /\ history.applied = 0
  BY <1>1 DEF EmptyHistory
<1>4. Knows(history)
  BY <1>1, <1>3 DEF Knows, Past, Cached, NoCorrections
<1>5. AnswerFits
  BY <1>1, EditAssumption DEF AnswerFits, Moved, InFlight, NewScene, AllSlots
<1>6. CaptureFits
  BY <1>1, <1>3 DEF CaptureFits
<1> QED
  BY <1>2, <1>4, <1>5, <1>6 DEF CacheInv, CaptureInv

LEMMA DisconnectTells == EditInv /\ CacheInv /\ Disconnect => CacheInv'
<1> SUFFICES ASSUME EditInv, CacheInv, Disconnect PROVE CacheInv'
  OBVIOUS
<1>1. session' = None /\ UNCHANGED <<lastGen, engine, history, run, seq, capture, unsure>>
  BY DEF Disconnect, ui, aux
<1>2. capture # None => capture.gen \in 1..MaxGeneration
  BY DEF EditInv, SceneFits
<1>3. run # None => run.gen \in 1..MaxGeneration
  BY DEF EditInv, EditRunFits, HistoryRunFits, RunIsOfHistory, EditRuns, HistoryRuns
<1>4. None \notin 1..MaxGeneration
  BY EditAssumption
<1>5. StepInv'
  BY <1>1 DEF CacheInv, StepInv, StepsFit, NextId
<1>6. Knows(history)'
  BY <1>1, <1>2, <1>4 DEF CacheInv, CaptureInv, Knows
<1>7. AnswerFits'
  BY <1>1, <1>3, <1>4 DEF CacheInv, CaptureInv, AnswerFits, Moved, InFlight
<1>8. CaptureFits'
  BY <1>1 DEF CacheInv, CaptureInv, CaptureFits
<1> QED
  BY <1>5, <1>6, <1>7, <1>8 DEF CacheInv, CaptureInv

LEMMA ConnectTells == EditInv /\ CacheInv /\ Connect => CacheInv'
<1> SUFFICES ASSUME EditInv, CacheInv, Connect PROVE CacheInv'
  OBVIOUS
<1>1. /\ session' = lastGen + 1 /\ lastGen' = lastGen + 1 /\ engine' = NewScene
      /\ UNCHANGED <<history, run, seq, capture>> /\ lastGen \in Nat
  BY EditAssumption DEF Connect, EditInv, RunIsOfHistory, ui
<1>2. capture # None => capture.gen \in Nat /\ capture.gen <= lastGen /\ capture.val # None
  BY EditAssumption DEF EditInv, SceneFits, CacheInv, CaptureInv, CaptureFits
<1>3. history.gen # None => history.gen \in Nat /\ history.gen <= lastGen
  BY EditAssumption DEF EditInv, HistoryFits, HistoryStates, CacheInv, CaptureInv, CaptureFits
<1>4. history.gen # session' /\ (capture # None => capture.gen # session')
  BY <1>1, <1>2, <1>3, EditAssumption
<1>5. run # None => run.gen = history.gen
  BY DEF EditInv, RunIsOfHistory
<1>6. StepInv'
  BY <1>1 DEF CacheInv, StepInv, StepsFit, NextId
<1>7. Knows(history)'
  BY <1>1, <1>4 DEF CacheInv, CaptureInv, Knows
<1>8. AnswerFits'
  <2>1. \A o \in Objects, a \in Attributes : engine'[<<o, a>>] = Root
    BY <1>1, EditAssumption DEF NewScene, AllSlots
  <2>2. ~(InFlight' /\ run'.gen = session')
    BY <1>1, <1>4, <1>5 DEF InFlight
  <2> QED
    BY <2>1, <2>2 DEF AnswerFits, Moved
<1>9. CaptureFits'
  BY <1>1, <1>2, <1>3 DEF CaptureFits
<1> QED
  BY <1>6, <1>7, <1>8, <1>9 DEF CacheInv, CaptureInv

LEMMA SessionChangedTells == EditInv /\ CacheInv /\ SessionChanged => CacheInv'
<1> SUFFICES ASSUME EditInv, CacheInv, SessionChanged PROVE CacheInv'
  OBVIOUS
<1>1. /\ history' = Current /\ run' = None
      /\ UNCHANGED <<session, lastGen, engine, seq, capture, unsure>>
      /\ history.gen # session
  BY DEF SessionChanged, EditInv, RunIsOfHistory, ui, aux
<1>2. EditInv'
  BY SessionChangedKeeps
<1>3. Current.gen = session /\ seq \in Nat
  BY CurrentFits
<1>4. \A t \in Slots : ~Moved(t)
  BY <1>1 DEF Moved, InFlight, EditInv, RunIsOfHistory
<1>5. Heard(history', unsure')
  BY <1>1, <1>3, <1>4, CurrentHeard DEF SameCache, CacheInv
<1>6. Unique(history', seq) /\ NextId' = seq
  BY <1>1, CurrentUnique DEF CacheInv, NextId
<1> QED
  BY <1>1, <1>2, <1>3, <1>5, <1>6, RestKeeps DEF StaysUnsure

LEMMA CaptureValueTells ==
    ASSUME NEW slot \in UiSlots, EditInv, CacheInv, CaptureValue(slot)
    PROVE  CacheInv'
<1>1. slot \in Slots
  BY EditAssumption
<1>2. /\ session # None /\ history.gen = session
      /\ UNCHANGED <<session, lastGen, engine, history, run, seq, unsure>>
  BY DEF CaptureValue, aux
<1>3. PICK rev \in 0..history.applied :
         capture' = [gen |-> session, rev |-> rev, slot |-> slot, val |-> engine[slot]]
  BY DEF CaptureValue
<1>4. /\ capture'.gen = session /\ capture'.rev <= history.applied /\ capture'.slot = slot
      /\ capture'.val = engine[slot] /\ engine[slot] # None
  <2>1. history.applied \in Nat /\ engine[slot] \in Values
    BY <1>1 DEF EditInv, HistoryFits, HistoryStates, SceneFits
  <2>2. rev <= history.applied
    BY <2>1
  <2>3. engine[slot] # None
    BY <2>1, EditAssumption
  <2> QED
    BY <1>3, <2>2, <2>3
<1>5. StepInv'
  BY <1>2 DEF CacheInv, StepInv, StepsFit, NextId
<1>6. \A t : Moved(t)' <=> Moved(t)
  BY <1>2 DEF Moved, InFlight, Request
<1>7. Knows(history)'
  BY <1>2, <1>4, <1>6 DEF CacheInv, CaptureInv, Knows, Resolved
<1>8. AnswerFits'
  BY <1>2, <1>6 DEF CacheInv, CaptureInv, AnswerFits, InFlight, Request
<1>9. CaptureFits'
  BY <1>2, <1>4 DEF CacheInv, CaptureInv, CaptureFits
<1> QED
  BY <1>5, <1>7, <1>8, <1>9 DEF CacheInv, CaptureInv

LEMMA CaptureCursorTells ==
    ASSUME NEW dir \in UiDirections, CacheInv, CaptureCursor(dir)
    PROVE  CacheInv'
<1>1. UNCHANGED <<session, lastGen, engine, history, run, seq, capture, unsure>>
  BY DEF CaptureCursor, aux
<1>2. \A t : Moved(t)' <=> Moved(t)
  BY <1>1 DEF Moved, InFlight, Request
<1>3. StepInv'
  BY <1>1 DEF CacheInv, StepInv, StepsFit, NextId
<1>4. Knows(history)' /\ CaptureFits'
  BY <1>1, <1>2 DEF CacheInv, CaptureInv, Knows, Resolved, CaptureFits
<1>5. AnswerFits'
  BY <1>1, <1>2 DEF CacheInv, CaptureInv, AnswerFits, InFlight, Request
<1> QED
  BY <1>3, <1>4, <1>5 DEF CacheInv, CaptureInv

-----------------------------------------------------------------------------
(* Edits.                                                                  *)

\* What the actor does to the history when it is free: the cache is that of the connection.
LEMMA FreeTells ==
    ASSUME EditInv, EditInv', CacheInv, run = None,
           UNCHANGED <<session, lastGen, engine, capture>>, unsure \subseteq unsure',
           run' = None \/ (run'.kind = "edit" /\ run'.reply = None),
           NEW g, SameCache(Current, g), g.gen = session, history' = g,
           NEW k \in Nat, k <= NextId', Unique(g, k)
    PROVE  CacheInv'
<1>1. \A t \in Slots : ~Moved(t)
  BY DEF Moved, InFlight
<1>2. Heard(history', unsure')
  BY <1>1, CurrentHeard DEF CacheInv
<1> QED
  BY <1>2, RestKeeps DEF StaysUnsure

LEMMA PreparedTells ==
    ASSUME EditInv, CacheInv, run = None, NEW token
    PROVE  /\ SameCache(Current, Current) /\ SameCache(Current, Prepared(token))
           /\ Current.gen = session /\ Prepared(token).gen = session
           /\ Unique(Current, seq) /\ Unique(Prepared(token), seq) /\ seq \in Nat
<1>1. HistoryFits(Current, seq) /\ seq \in Nat /\ Current.gen = session
  BY CurrentFits
<1>2. Unique(Current, seq)
  BY CurrentUnique DEF CacheInv
<1>3. Unique(Prepared(token), seq) /\ SameCache(Current, Prepared(token))
  BY <1>1, <1>2, CloseUnlessUnique DEF Prepared
<1>4. Prepared(token).gen = session
  BY <1>1, CloseGroupUnlessFollows DEF Prepared, Follows
<1> QED
  BY <1>1, <1>2, <1>3, <1>4 DEF SameCache

LEMMA EditRefusedTells == EditInv /\ CacheInv /\ EditRefused => CacheInv'
<1> SUFFICES ASSUME EditInv, CacheInv, EditRefused PROVE CacheInv'
  OBVIOUS
<1>1. run = None /\ run' = None /\ UNCHANGED <<session, lastGen, engine, capture, seq, unsure>>
  BY DEF EditRefused, Free, ui, aux
<1>2. history' = Current \/ \E token : history' = Prepared(token)
  BY DEF EditRefused
<1>3. EditInv'
  BY EditRefusedKeeps
<1>4. NextId' = seq /\ seq \in Nat
  BY <1>1, NextIdFacts DEF NextId
<1> QED
  BY <1>1, <1>2, <1>3, <1>4, PreparedTells, FreeTells

LEMMA StartEditTells ==
    ASSUME EditInv, EditInv', CacheInv, NEW src, NEW op, NEW slot, NEW val, NEW old, NEW token,
           Accepted(token), StartEdit(src, op, slot, val, old, token)
    PROVE  CacheInv'
<1>1. /\ run = None /\ history' = Prepared(token)
      /\ UNCHANGED <<session, lastGen, engine, capture, unsure>>
  BY DEF Accepted, Free, ui, aux
<1>2. run'.kind = "edit" /\ run'.reply = None /\ run'.seq = seq
  BY DEF StartEdit
<1>3. seq' = seq + 1 /\ seq \in Nat
  BY NextIdFacts DEF Accepted
<1>4. seq <= NextId'
  BY <1>2, <1>3 DEF NextId
<1> QED
  BY <1>1, <1>2, <1>4, PreparedTells, FreeTells

LEMMA SetFromUiTells ==
    ASSUME NEW slot \in UiSlots, NEW val \in Values, EditInv, CacheInv, SetFromUi(slot, val)
    PROVE  CacheInv'
<1>1. EditInv'
  BY SetFromUiKeeps
<1>2. \/ /\ Free /\ history' = Prepared(None)
         /\ UNCHANGED <<session, lastGen, engine, run, seq, ui, aux>>
      \/ \E old : Accepted(None) /\ StartEdit("ui", "set", slot, val, old, None)
  BY DEF SetFromUi
<1>3. CASE /\ Free /\ history' = Prepared(None)
           /\ UNCHANGED <<session, lastGen, engine, run, seq, ui, aux>>
  <2>1. run = None /\ run' = None /\ UNCHANGED <<session, lastGen, engine, capture, seq, unsure>>
    BY <1>3 DEF Free, ui, aux
  <2>2. NextId' = seq /\ seq \in Nat
    BY <2>1, NextIdFacts DEF NextId
  <2> QED
    BY <1>1, <1>3, <2>1, <2>2, PreparedTells, FreeTells
<1>4. CASE \E old : Accepted(None) /\ StartEdit("ui", "set", slot, val, old, None)
  BY <1>1, <1>4, StartEditTells
<1> QED
  BY <1>2, <1>3, <1>4

LEMMA SetFromMcpTells ==
    ASSUME NEW slot \in Slots, NEW val \in Values, NEW token \in {None} \cup 1..MaxSequence,
           EditInv, CacheInv, SetFromMcp(slot, val, token)
    PROVE  CacheInv'
BY SetFromMcpKeeps, StartEditTells DEF SetFromMcp

LEMMA CreateTells ==
    ASSUME NEW src \in {"ui", "mcp"}, NEW token \in {None} \cup 1..MaxSequence,
           EditInv, CacheInv, Create(src, token)
    PROVE  CacheInv'
BY CreateKeeps, StartEditTells DEF Create

LEMMA DeleteTells ==
    ASSUME NEW src \in {"ui", "mcp"}, NEW o \in Objects, EditInv, CacheInv, Delete(src, o)
    PROVE  CacheInv'
BY DeleteKeeps, StartEditTells DEF Delete

LEMMA OtherEditTells ==
    ASSUME NEW src \in {"ui", "mcp"}, EditInv, CacheInv, OtherEdit(src)
    PROVE  CacheInv'
BY OtherEditKeeps, StartEditTells DEF OtherEdit

-----------------------------------------------------------------------------
(* The engine.                                                             *)

\* An answer leaves the rest of the item as it is.
LEMMA ReplyLeaves ==
    ASSUME EditInv, StepInv, InFlight, NEW reply \in Replies, run' = [run EXCEPT !.reply = reply],
           UNCHANGED <<history, seq>>
    PROVE  /\ run' # None /\ run'.kind = run.kind /\ run'.gen = run.gen /\ run'.reply = reply
           /\ reply # None /\ InFlight' /\ Request(run)' = Request(run) /\ StepInv'
<1>1. run # None /\ run.kind \in {"edit", "history"} /\ (run.kind = "history" => run.step # None)
  BY DEF InFlight, EditInv, RunIsOfHistory
<1>2. reply # None
  BY NoneAssumption
<1>3. CASE run.kind = "edit"
  <2>1. run \in EditRuns
    BY <1>1, <1>3 DEF EditInv, EditRunFits
  <2>2. /\ run' \in EditRuns /\ run'.kind = "edit" /\ run'.gen = run.gen /\ run'.reply = reply
        /\ run'.seq = run.seq /\ run'.op = run.op /\ run'.slot = run.slot /\ run'.val = run.val
    BY <2>1 DEF EditRuns
  <2>3. run' # None
    BY <2>2, NoneAssumption
  <2>4. InFlight' /\ Request(run)' = Request(run)
    BY <1>3, <2>2, <2>3 DEF InFlight, Request
  <2>5. StepInv'
    BY <1>1, <1>3, <2>2, <2>3 DEF StepInv, StepsFit, NextId
  <2> QED
    BY <1>2, <1>3, <2>2, <2>3, <2>4, <2>5
<1>4. CASE run.kind = "history"
  <2>1. run \in HistoryRuns
    BY <1>1, <1>4 DEF EditInv, HistoryRunFits
  <2>2. /\ run' \in HistoryRuns /\ run'.kind = "history" /\ run'.gen = run.gen /\ run'.reply = reply
        /\ run'.plan = run.plan /\ run'.step = run.step /\ run'.left = run.left
        /\ run'.grouped = run.grouped
    BY <2>1 DEF HistoryRuns
  <2>3. run' # None
    BY <2>2, NoneAssumption
  <2>4. InFlight' /\ Request(run)' = Request(run)
    BY <1>1, <1>4, <2>2, <2>3 DEF InFlight, Request
  <2>5. StepInv'
    BY <1>1, <1>4, <2>2, <2>3 DEF StepInv, StepsFit, NextId
  <2> QED
    BY <1>2, <1>4, <2>2, <2>3, <2>4, <2>5
<1> QED
  BY <1>1, <1>3, <1>4

\* What a request sets is an attribute.
LEMMA SetIsOfSlot ==
    ASSUME EditInv, InFlight, Request(run).op = "set", NEW o
    PROVE  Request(run).slot # <<o, "object">>
<1>1. Attributes \subseteq {"property", "parent"}
  BY EditAssumption
<1>2. CASE run.kind = "edit"
  <2>1. run.op = "set" /\ Request(run).slot = run.slot
    BY <1>2 DEF Request
  <2>2. run.slot \in Slots
    BY <1>2, <2>1 DEF InFlight, EditInv, EditRunFits
  <2> QED
    BY <1>1, <2>1, <2>2 DEF Slots
<1>3. CASE run.kind = "history"
  <2>1. ~IsCreate(run.step.rec) /\ Request(run).slot = run.step.rec.slot
    BY <1>3 DEF Request
  <2> QED
    BY <2>1 DEF IsCreate
<1> QED
  BY <1>2, <1>3 DEF InFlight, EditInv, RunIsOfHistory

LEMMA EngineAcceptsTells == EditInv /\ CacheInv /\ EngineAccepts => CacheInv'
<1> SUFFICES ASSUME EditInv, CacheInv, EngineAccepts PROVE CacheInv'
  OBVIOUS
<1> DEFINE rq == Request(run)
<1>1. /\ InFlight /\ run.reply = None /\ session = run.gen
      /\ UNCHANGED <<session, lastGen, history, seq, capture, unsure>>
  BY DEF EngineAccepts, ui, aux
<1>2. engine \in [AllSlots -> Values \cup {"unborn", "alive", "gone"}]
        /\ \A s \in Slots : engine[s] \in Values
  BY DEF EditInv, SceneFits
<1>3. Slots \subseteq AllSlots /\ (\A o : <<o, "object">> \notin Slots)
        /\ (\A o \in Objects : <<o, "object">> \in AllSlots)
        /\ (\A o \in Objects, a \in Attributes : <<o, a>> \in Slots)
  BY EditAssumption DEF Slots, AllSlots
<1>4. /\ Knows(history) /\ AnswerFits /\ CaptureFits /\ StepInv
  BY DEF CacheInv, CaptureInv
\* What the engine did to the slots, and what it answered.
<1>5. \E reply \in Replies :
        /\ run' = [run EXCEPT !.reply = reply] /\ reply.st = "accepted"
        /\ \A s \in Slots : \/ engine'[s] = engine[s] /\ ~(rq.op = "set" /\ s = rq.slot)
                            \/ engine'[s] = reply.val /\ rq.op = "set" /\ s = rq.slot
        /\ \A o \in Objects : engine'[<<o, "object">>] = "unborn" =>
             /\ engine[<<o, "object">>] = "unborn"
             /\ \A a \in Attributes : engine'[<<o, a>>] = engine[<<o, a>>]
        /\ rq.op = "create" /\ reply.id # None =>
             /\ reply.id \in Objects /\ engine[<<reply.id, "object">>] = "unborn"
             /\ \A a \in Attributes : engine'[<<reply.id, a>>] = engine[<<reply.id, a>>]
  <2>1. CASE rq.op = "set"
    <3> DEFINE v == Clamp(rq.slot, rq.val)
               reply == [st |-> "accepted", id |-> None, val |-> v]
    <3>1. v \in Values
      BY <1>1, <2>1, RequestType
    <3>2. engine' = [engine EXCEPT ![rq.slot] = v] /\ run' = [run EXCEPT !.reply = reply]
            /\ engine[<<rq.slot[1], "object">>] = "alive"
      BY <2>1 DEF EngineAccepts, Alive
    <3> HIDE DEF v
    <3>3. reply \in Replies /\ reply.val = v /\ reply.st = "accepted"
      BY <3>1 DEF Replies, AnyValue, AnyObject
    <3> HIDE DEF rq, reply
    <3>4. \A s \in Slots : engine'[s] = IF s = rq.slot THEN v ELSE engine[s]
      BY <1>2, <1>3, <3>2
    <3>5. \A o \in Objects : engine'[<<o, "object">>] = "unborn" =>
            /\ engine[<<o, "object">>] = "unborn"
            /\ \A a \in Attributes : engine'[<<o, a>>] = engine[<<o, a>>]
      <4> SUFFICES ASSUME NEW o \in Objects, engine'[<<o, "object">>] = "unborn"
                   PROVE  /\ engine[<<o, "object">>] = "unborn"
                          /\ \A a \in Attributes : engine'[<<o, a>>] = engine[<<o, a>>]
        OBVIOUS
      <4>1. engine[<<o, "object">>] = "unborn"
        <5>1. CASE rq.slot = <<o, "object">>
          <6>1. engine'[<<o, "object">>] = v
            BY <1>2, <1>3, <3>2, <5>1
          <6>2. rq.slot \notin Slots
            BY <1>3, <5>1
          <6> QED
            BY <1>1, <2>1, <5>1, SetIsOfSlot DEF rq
        <5>2. CASE rq.slot # <<o, "object">>
          BY <1>2, <1>3, <3>2, <5>2
        <5> QED
          BY <5>1, <5>2
      <4>2. rq.slot[1] # o
        BY <3>2, <4>1
      <4>3. ASSUME NEW a \in Attributes PROVE engine'[<<o, a>>] = engine[<<o, a>>]
        <5>1. <<o, a>> # rq.slot /\ <<o, a>> \in Slots
          BY <1>3, <4>2
        <5> QED
          BY <3>4, <5>1
      <4> QED
        BY <4>1, <4>3
    <3> QED
      BY <2>1, <3>2, <3>3, <3>4, <3>5
  <2>2. CASE rq.op # "set"
    <3>1. PICK id \in AnyObject :
             /\ run' = [run EXCEPT !.reply = [st |-> "accepted", id |-> id, val |-> None]]
             /\ rq.op = "create" /\ id # None => id \in Objects /\ engine[<<id, "object">>] = "unborn"
      BY <2>2 DEF EngineAccepts, AnyObject
    <3>2. engine' = engine \/ \E o, v : v \in {"alive", "gone"}
                                   /\ engine' = [engine EXCEPT ![<<o, "object">>] = v]
      BY <2>2 DEF EngineAccepts
    <3> DEFINE reply == [st |-> "accepted", id |-> id, val |-> None]
    <3>3. reply \in Replies /\ reply.st = "accepted" /\ reply.id = id /\ run' = [run EXCEPT !.reply = reply]
      BY <3>1 DEF Replies, AnyValue
    <3> HIDE DEF rq, reply
    <3>4. /\ \A s \in Slots : engine'[s] = engine[s]
          /\ \A o \in Objects : engine'[<<o, "object">>] = "unborn" => engine[<<o, "object">>] = "unborn"
      <4>1. CASE engine' = engine
        BY <4>1
      <4>2. ASSUME NEW o, NEW v \in {"alive", "gone"}, engine' = [engine EXCEPT ![<<o, "object">>] = v]
            PROVE  /\ \A s \in Slots : engine'[s] = engine[s]
                   /\ \A p \in Objects : engine'[<<p, "object">>] = "unborn" => engine[<<p, "object">>] = "unborn"
        <5> DEFINE slot == <<o, "object">>
        <5>1. slot \notin Slots
          BY <1>3
        <5>2. engine' = [engine EXCEPT ![slot] = v]
          BY <4>2
        <5> HIDE DEF slot
        <5> QED
          BY <1>2, <1>3, <4>2, <5>1, <5>2
      <4> QED
        BY <3>2, <4>1, <4>2
    <3>5. \A o \in Objects, a \in Attributes : engine'[<<o, a>>] = engine[<<o, a>>]
      BY <1>3, <3>4
    <3> QED
      BY <2>2, <3>1, <3>3, <3>4, <3>5
  <2> QED
    BY <2>1, <2>2
<1>6. PICK reply \in Replies :
        /\ run' = [run EXCEPT !.reply = reply] /\ reply.st = "accepted"
        /\ \A s \in Slots : \/ engine'[s] = engine[s] /\ ~(rq.op = "set" /\ s = rq.slot)
                            \/ engine'[s] = reply.val /\ rq.op = "set" /\ s = rq.slot
        /\ \A o \in Objects : engine'[<<o, "object">>] = "unborn" =>
             /\ engine[<<o, "object">>] = "unborn"
             /\ \A a \in Attributes : engine'[<<o, a>>] = engine[<<o, a>>]
        /\ rq.op = "create" /\ reply.id # None =>
             /\ reply.id \in Objects /\ engine[<<reply.id, "object">>] = "unborn"
             /\ \A a \in Attributes : engine'[<<reply.id, a>>] = engine[<<reply.id, a>>]
  BY <1>5
<1>7. /\ run' # None /\ run'.gen = run.gen /\ run'.reply = reply /\ reply # None
      /\ InFlight' /\ Request(run)' = rq /\ StepInv'
  BY <1>1, <1>4, <1>6, ReplyLeaves
<1>8. \A s \in Slots : ~Moved(s)
  BY <1>1 DEF Moved
<1>9. \A s : Moved(s)' <=> rq.op = "set" /\ rq.slot = s
  BY <1>1, <1>6, <1>7 DEF Moved
<1> HIDE DEF rq
<1>10. Knows(history)'
  BY <1>1, <1>4, <1>6, <1>8, <1>9 DEF Knows, Resolved
<1>11. AnswerFits'
  <2>1. \A s \in Slots : Moved(s)' => run'.reply.val = engine'[s]
    BY <1>6, <1>7, <1>9
  <2>2. \A o \in Objects : engine'[<<o, "object">>] = "unborn" => \A a \in Attributes : engine'[<<o, a>>] = Root
    BY <1>4, <1>6 DEF AnswerFits
  <2>3. rq.op = "create" /\ reply.id # None => \A a \in Attributes : engine'[<<reply.id, a>>] = Root
    BY <1>4, <1>6 DEF AnswerFits
  <2> QED
    BY <1>6, <1>7, <2>1, <2>2, <2>3 DEF AnswerFits
<1>12. CaptureFits'
  BY <1>1, <1>4 DEF CaptureFits
<1> QED
  BY <1>7, <1>10, <1>11, <1>12 DEF CacheInv, CaptureInv

LEMMA EngineRefusesTells == EditInv /\ CacheInv /\ EngineRefuses => CacheInv'
<1> SUFFICES ASSUME EditInv, CacheInv, EngineRefuses PROVE CacheInv'
  OBVIOUS
<1>1. /\ InFlight /\ run.reply = None
      /\ UNCHANGED <<session, lastGen, engine, history, seq, capture, unsure>>
  BY DEF EngineRefuses, ui, aux
<1>2. PICK st \in {"refused", "error", "unsupported"} :
         run' = [run EXCEPT !.reply = [st |-> st, id |-> None, val |-> None]]
  BY DEF EngineRefuses
<1> DEFINE reply == [st |-> st, id |-> None, val |-> None]
<1>3. reply \in Replies /\ reply.st # "accepted"
  BY DEF Replies, AnyValue, AnyObject
<1>4. run' = [run EXCEPT !.reply = reply]
  BY <1>2
<1> HIDE DEF reply
<1>5. run'.reply = reply /\ StepInv'
  BY <1>1, <1>3, <1>4, ReplyLeaves DEF CacheInv
<1>6. \A t \in Slots : ~Moved(t) /\ ~Moved(t)'
  BY <1>1, <1>3, <1>5 DEF Moved
<1>7. Knows(history)' /\ CaptureFits'
  BY <1>1, <1>6 DEF CacheInv, CaptureInv, Knows, Resolved, CaptureFits
<1>8. AnswerFits'
  BY <1>1, <1>3, <1>5, <1>6 DEF CacheInv, CaptureInv, AnswerFits
<1> QED
  BY <1>5, <1>7, <1>8 DEF CacheInv, CaptureInv

-----------------------------------------------------------------------------
(* The end of an edit.                                                     *)

LEMMA CloseIfGroupedUnique ==
    ASSUME EditInv, NEW m, Unique(history, m)
    PROVE  Unique(CloseIfGrouped(history), m) /\ SameCache(history, CloseIfGrouped(history))
<1>1. HistoryFits(history, seq) /\ seq \in Nat
  BY EditAssumption DEF EditInv
<1> QED
  BY <1>1, CloseUnique DEF CloseIfGrouped, SameCache

\* What is known of an edit whose answer is here, or not.
LEMMA EditFacts ==
    ASSUME EditInv, CacheInv, run # None, run.kind = "edit"
    PROVE  /\ run \in EditRuns /\ EditFits(history, run, seq) /\ run.gen = history.gen
           /\ HistoryFits(history, seq) /\ history \in HistoryStates /\ seq \in Nat
           /\ NextId = run.seq /\ Unique(history, run.seq) /\ Unique(history, seq)
           /\ \A t \in Slots : Moved(t) <=> /\ run.gen = session /\ run.reply # None
                                            /\ run.reply.st = "accepted"
                                            /\ run.op = "set" /\ run.slot = t
<1>1. run \in EditRuns /\ run.gen = history.gen /\ HistoryFits(history, seq) /\ seq \in Nat
        /\ history \in HistoryStates
  BY EditAssumption DEF EditInv, EditRunFits, RunIsOfHistory, HistoryFits
<1>2. EditFits(history, run, seq)
  BY <1>1 DEF EditInv, EditFits, EditRunFits, EditRuns
<1>3. NextId = run.seq /\ Unique(history, run.seq) /\ Unique(history, seq)
  BY CurrentUnique DEF CacheInv, StepInv, NextId
<1>4. \A t \in Slots : Moved(t) <=> /\ run.gen = session /\ run.reply # None
                                    /\ run.reply.st = "accepted"
                                    /\ run.op = "set" /\ run.slot = t
  BY DEF Moved, InFlight, Request
<1> QED
  BY <1>1, <1>2, <1>3, <1>4

LEMMA EditAnsweredTells == EditInv /\ CacheInv /\ EditAnswered => CacheInv'
<1> SUFFICES ASSUME EditInv, CacheInv, EditAnswered PROVE CacheInv'
  OBVIOUS
<1>1. /\ InFlight /\ run # None /\ run.kind = "edit" /\ run.reply # None /\ run' = None
      /\ UNCHANGED <<session, lastGen, engine, seq, capture>>
      /\ unsure' = IF session = run.gen /\ run.reply.st = "accepted" /\ run.op = "delete" THEN {}
                   ELSE unsure
  BY DEF EditAnswered, InFlight, ui
<1>2. EditInv'
  BY EditAnsweredKeeps
<1>3. /\ run \in EditRuns /\ EditFits(history, run, seq) /\ run.gen = history.gen
      /\ HistoryFits(history, seq) /\ history \in HistoryStates /\ seq \in Nat
      /\ Unique(history, run.seq) /\ Unique(history, seq)
      /\ \A t \in Slots : Moved(t) <=> /\ run.gen = session /\ run.reply # None
                                       /\ run.reply.st = "accepted"
                                       /\ run.op = "set" /\ run.slot = t
  BY <1>1, EditFacts
<1>4. NextId' = seq
  BY <1>1 DEF NextId
<1>5. CASE session # run.gen
  <2>1. history' = Current /\ Current.gen = session
    BY <1>5, CurrentFits DEF EditAnswered
  <2>2. Heard(history', unsure')
    BY <1>3, <1>5, <2>1, CurrentHeard DEF SameCache, CacheInv
  <2>3. Unique(history', seq)
    BY <2>1, CurrentUnique DEF CacheInv
  <2> QED
    BY <1>1, <1>2, <1>3, <1>4, <1>5, <2>2, <2>3, RestKeeps DEF StaysUnsure
<1>6. CASE session = run.gen /\ run.reply.st = "accepted"
  <2> DEFINE g == RecordSuccess(history, run, run.reply)
  <2>1. history' = g
    BY <1>3, <1>6, CurrentFits DEF EditAnswered
  <2>2. run.reply \in Replies
    BY <1>1, <1>3 DEF EditRuns
  <2>3. run.op = "set" => run.slot \in Slots /\ run.reply.val \in Values
    BY <1>1, <1>6 DEF EditInv, EditRunFits
  <2>4. Past(history) /\ AnswerFits
    BY DEF CacheInv, CaptureInv, Knows
  <2>5. /\ Unique(g, seq) /\ Grows(history, g) /\ g.applied = history.applied + 1
        /\ \A t \in Slots :
             \/ Ages(history, g, t) /\ (run.op = "set" => t # run.slot)
             \/ run.op = "set" /\ t = run.slot /\ Learns(g, t, run.reply.val)
             \/ run.op = "create" /\ run.reply.id # None /\ t[1] = run.reply.id /\ Learns(g, t, Root)
        /\ run.op = "delete" => g.corr = NoCorrections /\ g.lost = g.applied
    BY <1>3, <2>2, <2>3, <2>4, RecordSuccessTells
  <2>6. g.gen = history.gen
    BY <1>3, <2>2, <2>3, RecordSuccessFollows DEF Follows
  <2> HIDE DEF g
  <2>7. history.applied \in Nat
    BY <1>3 DEF HistoryStates
  <2>8. ASSUME NEW t \in Slots
        PROVE  \/ ~Moved(t) /\ Ages(history, g, t)
               \/ Learns(g, t, engine[t]) /\ g.applied > history.applied
    <3>1. CASE Ages(history, g, t) /\ (run.op = "set" => t # run.slot)
      BY <1>3, <3>1
    <3>2. CASE run.op = "set" /\ t = run.slot /\ Learns(g, t, run.reply.val)
      <4>1. Moved(t)
        BY <1>1, <1>3, <1>6, <3>2
      <4>2. run.reply.val = engine[t]
        BY <2>4, <4>1 DEF AnswerFits
      <4> QED
        BY <2>5, <2>7, <3>2, <4>2
    <3>3. CASE run.op = "create" /\ run.reply.id # None /\ t[1] = run.reply.id /\ Learns(g, t, Root)
      <4>1. Request(run).op = "create"
        BY <1>1, <3>3 DEF Request
      <4>2. \A a \in Attributes : engine[<<run.reply.id, a>>] = Root
        BY <1>1, <1>6, <2>4, <3>3, <4>1 DEF AnswerFits
      <4>3. t = <<run.reply.id, t[2]>> /\ t[2] \in Attributes
        BY <3>3 DEF Slots
      <4>4. engine[t] = Root
        BY <4>2, <4>3
      <4> QED
        BY <2>5, <2>7, <3>3, <4>4
    <3> QED
      BY <2>5, <3>1, <3>2, <3>3
  <2>9. Heard(g, unsure')
    BY <2>5, <2>6, <2>8 DEF Heard, Grows
  <2>10. StaysUnsure
    BY <1>1, <2>1, <2>5, <2>7 DEF StaysUnsure, SureAgain
  <2> QED
    BY <1>1, <1>2, <1>3, <1>4, <2>1, <2>5, <2>9, <2>10, RestKeeps
<1>7. CASE session = run.gen /\ run.reply.st # "accepted"
  <2> DEFINE c == CloseIfGrouped(history)
  <2>1. history' = c \/ history' = MarkEditUnsupported(c)
    BY <1>3, <1>7, CurrentFits DEF EditAnswered
  <2>2. Unique(c, seq) /\ SameCache(history, c)
    BY <1>3, CloseIfGroupedUnique
  <2>3. HistoryFits(c, seq) /\ c \in HistoryStates /\ c.gen = history.gen
    BY <1>1, CloseIfGroupedFollows DEF Follows, HistoryFits
  <2> HIDE DEF c
  <2>4. /\ Unique(MarkEditUnsupported(c), seq) /\ SameCache(c, MarkEditUnsupported(c))
        /\ MarkEditUnsupported(c).gen = c.gen
    BY <1>3, <2>2, <2>3, MarkEditUnsupportedUnique, MarkEditUnsupportedFollows DEF Follows
  <2>5. Unique(history', seq) /\ SameCache(history, history') /\ history'.gen = history.gen
    BY <2>1, <2>2, <2>3, <2>4 DEF SameCache
  <2>6. Heard(history', unsure')
    BY <1>3, <1>7, <2>5, SameHeard DEF CacheInv
  <2> QED
    BY <1>1, <1>2, <1>3, <1>4, <1>7, <2>5, <2>6, RestKeeps DEF StaysUnsure
<1> QED
  BY <1>5, <1>6, <1>7

LEMMA EditUnansweredTells == EditInv /\ CacheInv /\ EditUnanswered => CacheInv'
<1> SUFFICES ASSUME EditInv, CacheInv, EditUnanswered PROVE CacheInv'
  OBVIOUS
<1>1. /\ run # None /\ run.kind = "edit" /\ run' = None
      /\ UNCHANGED <<session, lastGen, engine, seq, capture>>
      /\ unsure' = IF run.op = "set" THEN unsure \cup {run.slot} ELSE unsure
  BY DEF EditUnanswered, InFlight, ui
<1>2. EditInv'
  BY EditUnansweredKeeps
<1>3. /\ run \in EditRuns /\ run.gen = history.gen
      /\ HistoryFits(history, seq) /\ history \in HistoryStates /\ seq \in Nat
      /\ Unique(history, seq)
      /\ \A t \in Slots : Moved(t) => run.gen = session /\ t \in unsure'
  BY <1>1, EditFacts
<1>4. NextId' = seq /\ unsure \subseteq unsure'
  BY <1>1 DEF NextId
<1>5. CASE session # run.gen
  <2>1. history' = Current /\ Current.gen = session
    BY <1>5, CurrentFits DEF EditUnanswered
  <2>2. Heard(history', unsure')
    BY <1>3, <1>5, <2>1, CurrentHeard DEF SameCache, CacheInv
  <2>3. Unique(history', seq)
    BY <2>1, CurrentUnique DEF CacheInv
  <2> QED
    BY <1>1, <1>2, <1>3, <1>4, <2>2, <2>3, RestKeeps DEF StaysUnsure
<1>6. CASE session = run.gen
  <2> DEFINE c == CloseIfGrouped(history)
  <2>1. history' = c \/ history' = MarkMcpOutcomeUnknown(c, run.seq)
    BY <1>3, <1>6, CurrentFits DEF EditUnanswered
  <2>2. Unique(c, seq) /\ SameCache(history, c)
    BY <1>3, CloseIfGroupedUnique
  <2>3. HistoryFits(c, seq) /\ c \in HistoryStates /\ c.gen = history.gen /\ c.group = None
          /\ run.seq \in 1..MaxSequence
    BY <1>1, <1>3, CloseIfGroupedFollows DEF Follows, HistoryFits, EditRuns
  <2> HIDE DEF c
  <2>4. /\ Unique(MarkMcpOutcomeUnknown(c, run.seq), seq)
        /\ SameCache(c, MarkMcpOutcomeUnknown(c, run.seq))
        /\ MarkMcpOutcomeUnknown(c, run.seq).gen = c.gen
    BY <1>3, <2>2, <2>3, MarkMcpOutcomeUnknownUnique, MarkMcpOutcomeUnknownFollows DEF Follows
  <2>5. Unique(history', seq) /\ SameCache(history, history') /\ history'.gen = history.gen
    BY <2>1, <2>2, <2>3, <2>4 DEF SameCache
  <2>6. Heard(history', unsure')
    BY <1>3, <2>5, SameHeard DEF CacheInv
  <2> QED
    BY <1>1, <1>2, <1>3, <1>4, <2>5, <2>6, RestKeeps DEF StaysUnsure
<1> QED
  BY <1>5, <1>6

-----------------------------------------------------------------------------
(* Undo and redo.                                                          *)

\* A run on top of a stack begins with the top entry and goes down.
LEMMA TopRunFits ==
    ASSUME NEW s \in Seq(AnyEntry), NEW key, TopRun(s, key) # <<>>
    PROVE  /\ s # <<>> /\ Top(s).key = key /\ TopRun(s, key)[1] = Top(s)
           /\ TopRun(s, key) \in Seq(AnyEntry) /\ Len(TopRun(s, key)) <= Len(s)
           /\ \A i \in 1..Len(TopRun(s, key)) : TopRun(s, key)[i] = s[Len(s) + 1 - i]
<1>1. PICK n \in 1..Len(s) + 1 :
         /\ \A i \in n..Len(s) : s[i].key = key
         /\ n = 1 \/ s[n - 1].key # key
  BY RunBegins
<1>2. TopRun(s, key) = [i \in 1..(Len(s) + 1 - n) |-> s[Len(s) + 1 - i]]
  BY <1>1, TopRunFrom
<1>3. TopRun(s, key) \in Seq(AnyEntry)
  BY TopRunType
<1>4. Len(s) \in Nat /\ Len(s) + 1 - n \in Nat
  OBVIOUS
<1>5. Len(TopRun(s, key)) = Len(s) + 1 - n
  BY <1>2, <1>4
<1>6. Len(s) + 1 - n > 0
  BY <1>3, <1>4, <1>5
<1>7. Len(s) \in n..Len(s) /\ 1 \in 1..(Len(s) + 1 - n) /\ s # <<>> /\ Len(s) + 1 - n <= Len(s)
  BY <1>4, <1>6
<1>8. s[Len(s)].key = key
  BY <1>1, <1>7
<1>9. TopRun(s, key)[1] = s[Len(s)]
  BY <1>2, <1>4, <1>7
<1> QED
  BY <1>2, <1>3, <1>5, <1>7, <1>8, <1>9 DEF Top

\* An item starts with the top entries of its stack.
LEMMA WorkFits ==
    ASSUME NEW src, NEW plan \in Plans, plan.steps # <<>>, NEW completed, NEW retry, NEW shown,
           history' \in HistoryStates, plan.steps = TopRun(Stack(history', plan.dir), plan.key),
           run' = Work(src, plan, completed, retry, shown)
    PROVE  StepsFit' /\ run'.reply = None /\ run'.kind = "history"
<1> DEFINE s == Stack(history', plan.dir)
<1>1. s \in Seq(AnyEntry)
  BY DEF Stack, HistoryStates
<1> HIDE DEF s
<1>2. /\ s # <<>> /\ Top(s).key = plan.key /\ plan.steps[1] = Top(s)
      /\ plan.steps \in Seq(AnyEntry) /\ Len(plan.steps) <= Len(s)
      /\ \A i \in 1..Len(plan.steps) : plan.steps[i] = s[Len(s) + 1 - i]
  BY <1>1, TopRunFits DEF s
<1>3. Len(s) \in Nat /\ Len(s) # 0 /\ Len(plan.steps) \in Nat /\ Top(s) # None
  <2>1. Len(s) \in 1..Len(s)
    BY <1>1, <1>2
  <2>2. s[Len(s)] \in AnyEntry
    BY <1>1, <2>1
  <2> QED
    BY <1>1, <1>2, <2>2, NoneAssumption DEF Top
<1>4. /\ run'.kind = "history" /\ run'.plan = plan /\ run'.reply = None
      /\ \/ run'.grouped = TRUE /\ run'.step = None /\ run'.left = plan.steps
         \/ run'.grouped = FALSE /\ run'.step = plan.steps[1] /\ run'.left = <<>>
  BY DEF Work
<1>5. Stack(history', run'.plan.dir) = s
  BY <1>4 DEF s
<1>6. CASE run'.grouped = TRUE /\ run'.step = None /\ run'.left = plan.steps
  <2>1. Len(run'.left) + 0 <= Len(s)
    BY <1>2, <1>3, <1>6
  <2>2. \A i \in 1..Len(run'.left) : Len(s) + 1 - 0 - i = Len(s) + 1 - i
    BY <1>2, <1>3, <1>6
  <2>3. \A i \in 1..Len(run'.left) : run'.left[i].id = s[Len(s) + 1 - 0 - i].id
    BY <1>2, <1>6, <2>2
  <2> QED
    BY <1>4, <1>5, <1>6, <2>1, <2>3 DEF StepsFit
<1>7. CASE run'.grouped = FALSE /\ run'.step = plan.steps[1] /\ run'.left = <<>>
  <2>1. Len(<<>>) + 1 <= Len(s) /\ 1..Len(<<>>) = {}
    BY <1>3
  <2> QED
    BY <1>2, <1>3, <1>4, <1>5, <1>7, <2>1 DEF StepsFit
<1> QED
  BY <1>4, <1>6, <1>7

\* An item starts with a history that has the cache of the connection.
LEMMA WorkTells ==
    ASSUME EditInv, EditInv', CacheInv, run = None,
           UNCHANGED <<session, lastGen, engine, seq, capture, unsure>>,
           history' \in HistoryStates, SameCache(Current, history'), history'.gen = session,
           Unique(history', seq),
           NEW src, NEW plan \in Plans, plan.steps # <<>>, NEW completed, NEW retry, NEW shown,
           plan.steps = TopRun(Stack(history', plan.dir), plan.key),
           run' = Work(src, plan, completed, retry, shown)
    PROVE  CacheInv'
<1>1. StepsFit' /\ run'.reply = None /\ run'.kind = "history"
  BY WorkFits
<1>2. NextId' = seq
  BY <1>1 DEF NextId
<1>3. \A t \in Slots : ~Moved(t)
  BY DEF Moved, InFlight
<1>4. Heard(history', unsure')
  BY <1>3, CurrentHeard DEF CacheInv
<1>5. CaptureInv'
  BY <1>1, <1>4, HeardKeeps DEF CacheInv, StaysUnsure
<1> QED
  BY <1>1, <1>2, <1>5 DEF CacheInv, StepInv

\* What a plan of a closed history takes.
LEMMA PlanTakes ==
    ASSUME NEW h, NEW n, HistoryFits(h, n), h.group = None, NEW dir \in Directions, NEW now,
           PrepareAction(h, dir, now) # None
    PROVE  LET plan == PrepareAction(h, dir, now)
           IN  plan.dir = dir /\ plan.steps = TopRun(Stack(h, dir), plan.key)
<1>1. VisibleStack(h, dir) = Stack(h, dir)
  BY DEF VisibleStack
<1> QED
  BY <1>1 DEF PrepareAction

LEMMA StartHistoryTells ==
    ASSUME NEW src \in {"ui", "mcp"}, NEW dir \in Directions, NEW at, NEW shown,
           EditInv, EditInv', CacheInv, StartHistory(src, dir, at, shown)
    PROVE  CacheInv'
<1> DEFINE closed == CloseActiveGroup(Current)
           now == IF at = HistoryCursor(Current, dir) THEN HistoryCursor(closed, dir) ELSE at
           plan == PrepareAction(closed, dir, now)
<1>1. /\ run = None /\ session # None
      /\ IF Current.pending # None
           THEN history' = Current /\ run' = run
           ELSE /\ history' = closed
                /\ run' = IF plan = None THEN run ELSE Work(src, plan, 0, FALSE, shown)
      /\ UNCHANGED <<session, lastGen, engine, seq, capture, unsure>>
  BY DEF StartHistory, Free, ui, aux
<1>2. HistoryFits(Current, seq) /\ Current.gen = session /\ seq \in Nat
  BY CurrentFits
<1>3. /\ HistoryFits(closed, seq) /\ closed.gen = session /\ closed.group = None
      /\ closed \in HistoryStates
  BY <1>2, CloseFollows DEF Follows, HistoryFits
<1>4. Unique(Current, seq) /\ Unique(closed, seq) /\ SameCache(Current, closed)
  BY <1>2, CurrentUnique, CloseUnique DEF CacheInv
<1>5. CASE Current.pending # None \/ plan = None
  <2>1. run' = None /\ (history' = Current \/ history' = closed)
    BY <1>1, <1>5
  <2>2. NextId' = seq /\ SameCache(Current, Current)
    BY <1>1, <2>1 DEF NextId, SameCache
  <2> HIDE DEF closed, plan
  <2> QED
    BY <1>1, <1>2, <1>3, <1>4, <2>1, <2>2, FreeTells
<1>6. CASE Current.pending = None /\ plan # None
  <2>1. history' = closed /\ run' = Work(src, plan, 0, FALSE, shown)
    BY <1>1, <1>6
  <2>2. plan.dir = dir /\ plan.steps = TopRun(Stack(closed, dir), plan.key)
    <3> HIDE DEF closed, now
    <3> QED
      BY <1>3, <1>6, PlanTakes
  <2>3. plan \in Plans /\ plan.steps # <<>>
    <3> HIDE DEF closed, now
    <3> QED
      BY <1>3, <1>6, PrepareActionPlan
  <2> HIDE DEF closed, plan
  <2> QED
    BY <1>1, <1>3, <1>4, <2>1, <2>2, <2>3, WorkTells
<1> QED
  BY <1>5, <1>6

LEMMA HistoryFromUiTells == EditInv /\ CacheInv /\ HistoryFromUi => CacheInv'
<1> SUFFICES ASSUME EditInv, CacheInv, HistoryFromUi PROVE CacheInv'
  OBVIOUS
<1>1. cursor.dir \in Directions
  BY DEF HistoryFromUi, EditInv, CursorFits
<1>2. EditInv'
  BY HistoryFromUiKeeps
<1> QED
  BY <1>1, <1>2, StartHistoryTells DEF HistoryFromUi

LEMMA HistoryFromMcpTells ==
    ASSUME NEW dir \in Directions, EditInv, CacheInv, HistoryFromMcp(dir)
    PROVE  CacheInv'
<1>1. EditInv'
  BY HistoryFromMcpKeeps
<1> QED
  BY <1>1, StartHistoryTells DEF HistoryFromMcp

LEMMA StartRetryTells == EditInv /\ CacheInv /\ StartRetry => CacheInv'
<1> SUFFICES ASSUME EditInv, CacheInv, StartRetry PROVE CacheInv'
  OBVIOUS
<1> DEFINE plan == PrepareRetry(Current)
<1>1. /\ run = None /\ plan # None /\ history' = Current
      /\ run' = Work("ui", plan, Current.pending.completed, TRUE, Shown(plan.steps))
      /\ UNCHANGED <<session, lastGen, engine, seq, capture, unsure>>
  BY DEF StartRetry, Free, ui, aux
<1>2. HistoryFits(Current, seq) /\ Current.gen = session /\ Current \in HistoryStates
        /\ Unique(Current, seq) /\ SameCache(Current, Current)
  BY CurrentFits, CurrentUnique DEF CacheInv, HistoryFits, SameCache
<1>3. plan \in Plans /\ plan.steps # <<>>
  BY <1>1, <1>2, PrepareRetryPlan
<1>4. plan.steps = TopRun(Stack(Current, plan.dir), plan.key)
  BY <1>1 DEF PrepareRetry
<1>5. EditInv'
  BY StartRetryKeeps
<1> HIDE DEF plan
<1> QED
  BY <1>1, <1>2, <1>3, <1>4, <1>5, WorkTells

-----------------------------------------------------------------------------
(* The steps of an undo or redo.                                           *)

\* What is known of an undo or redo in work and of the step it has sent.
LEMMA StepFacts ==
    ASSUME EditInv, CacheInv, run # None, run.kind = "history"
    PROVE  /\ history \in HistoryStates /\ Unique(history, seq) /\ NextId = seq /\ Past(history)
           /\ run.step = None => run.reply = None /\ \A t \in Slots : ~Moved(t)
           /\ run.step # None =>
                /\ Stack(history, run.plan.dir) # <<>> /\ run.step = Top(Stack(history, run.plan.dir))
                /\ run.step.key = run.plan.key
                /\ OnTop(history, run.plan.dir, run.step.id, run.plan.key)
                /\ \A t \in Slots : Moved(t) <=> /\ run.gen = session /\ run.reply # None
                                                 /\ run.reply.st = "accepted"
                                                 /\ ~IsCreate(run.step.rec) /\ run.step.rec.slot = t
           /\ ~run.grouped => run.step # None /\ run.step = run.plan.steps[1]
<1>1. history \in HistoryStates /\ Unique(history, seq) /\ NextId = seq /\ Past(history)
  BY CurrentUnique DEF CacheInv, CaptureInv, Knows, NextId, EditInv, HistoryFits
<1>2. run.step = None => run.reply = None /\ \A t \in Slots : ~Moved(t)
  BY DEF CacheInv, StepInv, StepsFit, Moved, InFlight
<1>3. run.step # None =>
        /\ Stack(history, run.plan.dir) # <<>> /\ run.step = Top(Stack(history, run.plan.dir))
        /\ run.step.key = run.plan.key
  BY DEF CacheInv, StepInv, StepsFit
<1>4. run.step # None => OnTop(history, run.plan.dir, run.step.id, run.plan.key)
  BY <1>3 DEF OnTop
<1>5. ASSUME run.step # None, NEW t \in Slots
      PROVE  Moved(t) <=> /\ run.gen = session /\ run.reply # None
                          /\ run.reply.st = "accepted"
                          /\ ~IsCreate(run.step.rec) /\ run.step.rec.slot = t
  <2>1. InFlight
    BY <1>5 DEF InFlight
  <2>2. Request(run).op = "set" /\ Request(run).slot = t
          <=> ~IsCreate(run.step.rec) /\ run.step.rec.slot = t
    <3>1. CASE IsCreate(run.step.rec)
      BY <3>1 DEF Request
    <3>2. CASE ~IsCreate(run.step.rec)
      BY <3>2 DEF Request
    <3> QED
      BY <3>1, <3>2
  <2> QED
    BY <2>1, <2>2 DEF Moved
<1>6. ~run.grouped => run.step # None /\ run.step = run.plan.steps[1]
  BY DEF CacheInv, StepInv, StepsFit
<1> QED
  BY <1>1, <1>2, <1>3, <1>4, <1>5, <1>6

\* An answered step whose effect the history has recorded.
LEMMA StepHeard ==
    ASSUME EditInv, CacheInv, run # None, run.kind = "history", run.step # None, session = run.gen,
           run.reply # None, run.reply.st = "accepted",
           ~Malformed(run.step.rec, run.plan.dir, run.reply),
           NEW g, g.gen = history.gen, Grows(history, g), g.applied = history.applied + 1,
           ~IsCreate(run.step.rec) =>
             \A t \in Slots : IF t = run.step.rec.slot THEN Learns(g, t, run.reply.val)
                              ELSE Ages(history, g, t),
           IsCreate(run.step.rec) =>
             \A t \in Slots : \/ Ages(history, g, t)
                              \/ run.plan.dir # "undo" /\ t[1] = run.reply.id /\ Learns(g, t, Root),
           NEW lost
    PROVE  Heard(g, lost)
<1>1. /\ run.plan.dir \in Directions /\ history \in HistoryStates
      /\ \A t \in Slots : Moved(t) <=> ~IsCreate(run.step.rec) /\ run.step.rec.slot = t
  BY WorkFacts, StepFacts
<1>2. history.applied \in Nat /\ g.applied > history.applied
  BY <1>1 DEF HistoryStates
<1>3. AnswerFits
  BY DEF CacheInv, CaptureInv
<1>4. ASSUME NEW t \in Slots
      PROVE  \/ ~Moved(t) /\ Ages(history, g, t)
             \/ Learns(g, t, engine[t]) /\ g.applied > history.applied
  <2>1. CASE ~IsCreate(run.step.rec) /\ t = run.step.rec.slot
    <3>1. Moved(t)
      BY <1>1, <2>1
    <3>2. run.reply.val = engine[t]
      BY <1>3, <3>1 DEF AnswerFits
    <3> QED
      BY <1>2, <2>1, <3>2
  <2>2. CASE ~IsCreate(run.step.rec) /\ t # run.step.rec.slot
    BY <1>1, <2>2
  <2>3. CASE IsCreate(run.step.rec) /\ Ages(history, g, t)
    BY <1>1, <2>3
  <2>4. CASE /\ IsCreate(run.step.rec) /\ run.plan.dir # "undo"
             /\ t[1] = run.reply.id /\ Learns(g, t, Root)
    <3>1. run.plan.dir = "redo" /\ run.reply.id # None
      BY <1>1, <2>4 DEF Directions, Malformed
    <3>2. Request(run).op = "create" /\ InFlight
      BY <2>4 DEF Request, InFlight
    <3>3. \A a \in Attributes : engine[<<run.reply.id, a>>] = Root
      BY <1>3, <3>1, <3>2 DEF AnswerFits
    <3>4. t = <<run.reply.id, t[2]>> /\ t[2] \in Attributes
      BY <2>4 DEF Slots
    <3>5. engine[t] = Root
      BY <3>3, <3>4
    <3> QED
      BY <1>2, <2>4, <3>5
  <2> QED
    BY <2>1, <2>2, <2>3, <2>4
<1> QED
  BY <1>4 DEF Heard, Grows

\* A step that is not answered, or is refused, tells the cache nothing.
LEMMA StepSilent ==
    ASSUME EditInv, CacheInv, run # None, run.kind = "history", run.step # None,
           NEW g, g.gen = history.gen, SameCache(history, g), NEW lost,
           \/ run.reply # None /\ run.reply.st # "accepted"
           \/ run.step.rec.slot \in lost
           \/ IsCreate(run.step.rec)
    PROVE  Heard(g, lost)
<1>1. \A t \in Slots : Moved(t) => t \in lost
  BY StepFacts
<1> QED
  BY <1>1, StepFacts, SameHeard DEF CacheInv

LEMMA SendStepTells == EditInv /\ CacheInv /\ SendStep => CacheInv'
<1> SUFFICES ASSUME EditInv, CacheInv, SendStep PROVE CacheInv'
  OBVIOUS
<1> DEFINE stack == Stack(history, run.plan.dir)
           found == {i \in 1..Len(stack) :
                       stack[i].id = Head(run.left).id /\ stack[i].key = run.plan.key}
           halted == StartPendingGroup(history, run.plan, run.completed, FALSE, FALSE)
<1>1. /\ run # None /\ run.kind = "history" /\ run.left # <<>> /\ run.step = None
      /\ UNCHANGED <<session, lastGen, engine, seq, capture, unsure>>
  BY DEF SendStep, ui, aux
<1>2. \/ Finished(history) \/ Finished(halted)
      \/ /\ found # {} /\ UNCHANGED history
         /\ run' = [run EXCEPT !.step = stack[CHOOSE i \in found : TRUE], !.left = Tail(@)]
  BY DEF SendStep
<1>3. /\ run \in HistoryRuns /\ run.plan \in Plans /\ run.plan.dir \in Directions
      /\ HistoryFits(history, seq) /\ run.completed \in Nat
  BY <1>1, WorkFacts
<1>4. /\ history \in HistoryStates /\ Unique(history, seq) /\ NextId = seq
      /\ run.reply = None /\ \A t \in Slots : ~Moved(t)
  BY <1>1, StepFacts
<1>5. EditInv'
  BY SendStepKeeps
<1>6. /\ SameCache(history, history) /\ SameCache(history, halted)
      /\ Unique(halted, seq) /\ halted.gen = history.gen
  BY <1>3, <1>4, StartPendingGroupUnique, StartPendingGroupFollows, WorkFacts, <1>1
     DEF SameCache, Follows
<1> HIDE DEF halted
<1>7. Heard(history, unsure') /\ Heard(halted, unsure')
  BY <1>4, <1>6, SameHeard DEF CacheInv
<1>8. CASE Finished(history) \/ Finished(halted)
  BY <1>1, <1>4, <1>5, <1>6, <1>7, <1>8, FinishedTells
<1>9. CASE /\ found # {} /\ UNCHANGED history
           /\ run' = [run EXCEPT !.step = stack[CHOOSE i \in found : TRUE], !.left = Tail(@)]
  <2> DEFINE n == Len(stack)
             step == stack[CHOOSE i \in found : TRUE]
             left == Tail(run.left)
  <2>1. stack \in Seq(AnyEntry) /\ n \in Nat /\ run.left \in Seq(AnyEntry)
    BY <1>3, StackFits DEF HistoryRuns
  <2>2. /\ Len(run.left) + 0 <= n
        /\ \A i \in 1..Len(run.left) : run.left[i].id = stack[n + 1 - 0 - i].id
        /\ run.grouped = TRUE
    BY <1>1, <1>3 DEF CacheInv, StepInv, StepsFit, HistoryRuns
  <2>3. /\ Len(run.left) \in Nat /\ Len(run.left) >= 1 /\ Head(run.left) = run.left[1]
        /\ left \in Seq(AnyEntry) /\ Len(left) = Len(run.left) - 1
        /\ \A i \in 1..(Len(run.left) - 1) : left[i] = run.left[i + 1]
    BY <1>1, <2>1
  <2>4. Head(run.left).id = stack[n].id /\ n \in 1..n
    <3>1. 1 \in 1..Len(run.left) /\ n + 1 - 0 - 1 = n /\ n \in 1..n
      BY <2>1, <2>2, <2>3
    <3> QED
      BY <2>2, <2>3, <3>1
  <2>5. Single(stack)
    BY <1>3, <1>4 DEF Unique, Numbered, Stack
  <2>6. \A i \in found : i = n
    BY <2>4, <2>5 DEF Single
  <2>7. step = stack[n] /\ stack[n].key = run.plan.key
    BY <1>9, <2>6
  <2>8. stack[n] \in AnyEntry /\ stack[n] # None /\ stack # <<>>
    <3>1. stack[n] \in AnyEntry
      BY <2>1, <2>4
    <3> QED
      BY <2>1, <2>4, <3>1, NoneAssumption
  <2>9. run' = [run EXCEPT !.step = step, !.left = left]
    BY <1>3, <1>9 DEF HistoryRuns
  <2>10. \A i \in 1..Len(left) : left[i].id = stack[n + 1 - 1 - i].id
    <3> TAKE i \in 1..Len(left)
    <3>1. i + 1 \in 1..Len(run.left) /\ n + 1 - 0 - (i + 1) = n + 1 - 1 - i /\ left[i] = run.left[i + 1]
      BY <2>1, <2>3
    <3> QED
      BY <2>2, <3>1
  <2>11. Len(left) + 1 <= n
    BY <2>1, <2>2, <2>3
  <2> HIDE DEF step, left
  <2>12. /\ run' \in HistoryRuns /\ run'.kind = "history" /\ run'.plan = run.plan /\ run'.reply = None
         /\ run'.step = step /\ run'.left = left /\ run'.grouped = TRUE
    BY <1>3, <1>4, <2>2, <2>3, <2>7, <2>8, <2>9 DEF HistoryRuns
  <2>13. StepsFit'
    <3>1. Stack(history', run'.plan.dir) = stack /\ step # None /\ step = Top(stack)
            /\ step.key = run'.plan.key /\ stack # <<>>
      BY <1>9, <2>7, <2>8, <2>12 DEF Top
    <3> HIDE DEF stack
    <3> QED
      BY <2>10, <2>11, <2>12, <3>1 DEF StepsFit
  <2>14. NextId' = seq
    BY <1>1, <2>12 DEF NextId
  <2>15. CaptureInv'
    BY <1>1, <1>4, <1>7, <1>9, <2>12, HeardKeeps DEF CacheInv, StaysUnsure
  <2> QED
    BY <1>4, <1>9, <2>13, <2>14, <2>15 DEF CacheInv, StepInv
<1> QED
  BY <1>2, <1>8, <1>9

LEMMA SingleAppliedTells == EditInv /\ CacheInv /\ SingleApplied => CacheInv'
<1> SUFFICES ASSUME EditInv, CacheInv, SingleApplied PROVE CacheInv'
  OBVIOUS
<1>1. /\ run # None /\ run.kind = "history" /\ run.step # None /\ ~run.grouped /\ run.reply # None
      /\ run.reply.st = "accepted"
      /\ UNCHANGED <<session, lastGen, engine, seq, capture, unsure>>
      /\ Finished(IF session # run.gen THEN Current
                  ELSE FinishActionSuccess(Current, run.plan, run.reply))
  BY DEF SingleApplied, InFlight, ui
<1>2. /\ run \in HistoryRuns /\ run.plan \in Plans /\ run.plan.dir \in Directions
      /\ history.group = None /\ HistoryFits(history, seq)
      /\ session = run.gen => Current = history
  BY <1>1, WorkFacts
<1>3. /\ history \in HistoryStates /\ Unique(history, seq) /\ Past(history)
      /\ Stack(history, run.plan.dir) # <<>> /\ run.step = Top(Stack(history, run.plan.dir))
      /\ run.step.key = run.plan.key /\ run.step = run.plan.steps[1]
  BY <1>1, StepFacts
<1>4. run.reply \in Replies
  BY <1>1, <1>2 DEF HistoryRuns
<1>5. EditInv'
  BY SingleAppliedKeeps
<1> DEFINE k == FinishActionSuccess(history, run.plan, run.reply)
<1>6. /\ Unique(k, seq)
      /\ Malformed(run.step.rec, run.plan.dir, run.reply) => SameCache(history, k)
      /\ ~Malformed(run.step.rec, run.plan.dir, run.reply)
           => Grows(history, k) /\ k.applied = history.applied + 1
      /\ ~IsCreate(run.step.rec) =>
           \A t \in Slots : IF t = run.step.rec.slot THEN Learns(k, t, run.reply.val)
                            ELSE Ages(history, k, t)
      /\ IsCreate(run.step.rec) /\ ~Malformed(run.step.rec, run.plan.dir, run.reply) =>
           \A t \in Slots : \/ Ages(history, k, t)
                            \/ run.plan.dir # "undo" /\ t[1] = run.reply.id /\ Learns(k, t, Root)
  BY ZenonT(40), <1>2, <1>3, <1>4, FinishActionSuccessTells
<1>7. k.gen = history.gen
  BY <1>2, <1>4, FinishActionSuccessFollows DEF Follows
<1>8. Finished(IF session # run.gen THEN Current ELSE k)
  BY <1>1, <1>2
<1> HIDE DEF k
<1>9. ASSUME session = run.gen PROVE Heard(k, unsure')
  <2>1. CASE Malformed(run.step.rec, run.plan.dir, run.reply)
    BY <1>1, <1>6, <1>7, <2>1, StepSilent DEF Malformed
  <2>2. CASE ~Malformed(run.step.rec, run.plan.dir, run.reply)
    BY <1>1, <1>6, <1>7, <1>9, <2>2, StepHeard
  <2> QED
    BY <2>1, <2>2
<1> QED
  BY <1>1, <1>5, <1>6, <1>7, <1>8, <1>9, FinishTells

LEMMA SingleFailsTells == EditInv /\ CacheInv /\ SingleFails => CacheInv'
<1> SUFFICES ASSUME EditInv, CacheInv, SingleFails PROVE CacheInv'
  OBVIOUS
<1>1. /\ run # None /\ run.kind = "history" /\ run.step # None
      /\ UNCHANGED <<session, lastGen, engine, seq, capture>>
      /\ Finished(IF session # run.gen THEN Current ELSE DiscardAction(Current, run.plan))
      /\ unsure \subseteq unsure'
      /\ \/ run.reply # None /\ run.reply.st # "accepted"
         \/ run.step.rec.slot \in unsure'
  BY DEF SingleFails, InFlight, ui
<1>2. /\ run.plan.dir \in Directions /\ history.group = None /\ HistoryFits(history, seq)
      /\ session = run.gen => Current = history
  BY <1>1, WorkFacts
<1>3. Unique(history, seq)
  BY <1>1, StepFacts
<1>4. EditInv'
  BY SingleFailsKeeps
<1> DEFINE k == DiscardAction(history, run.plan)
<1>5. Unique(k, seq) /\ SameCache(history, k) /\ k.gen = history.gen
  BY <1>2, <1>3, DiscardActionUnique, DiscardActionFollows DEF Follows
<1>6. Finished(IF session # run.gen THEN Current ELSE k)
  BY <1>1, <1>2
<1> HIDE DEF k
<1>7. Heard(k, unsure')
  BY <1>1, <1>5, StepSilent
<1> QED
  BY <1>1, <1>4, <1>5, <1>6, <1>7, FinishTells

LEMMA StepAppliedTells == EditInv /\ CacheInv /\ StepApplied => CacheInv'
<1> SUFFICES ASSUME EditInv, CacheInv, StepApplied PROVE CacheInv'
  OBVIOUS
<1> DEFINE halted == StartPendingGroup(history, run.plan, run.completed, TRUE, FALSE)
           done == FinishGroupStep(history, run.plan, run.reply)
           s == Stack(history, run.plan.dir)
<1>1. /\ run # None /\ run.kind = "history" /\ run.step # None /\ run.grouped /\ run.reply # None
      /\ run.reply.st = "accepted"
      /\ UNCHANGED <<session, lastGen, engine, seq, capture, unsure>>
  BY DEF StepApplied, InFlight, ui
<1>2. /\ run \in HistoryRuns /\ run.plan \in Plans /\ run.plan.dir \in Directions
      /\ history.group = None /\ HistoryFits(history, seq) /\ run.completed \in Nat
      /\ session = run.gen => Current = history
  BY <1>1, WorkFacts
<1>3. /\ history \in HistoryStates /\ Unique(history, seq) /\ Past(history)
      /\ s # <<>> /\ run.step = Top(s) /\ NextId = seq
      /\ OnTop(history, run.plan.dir, run.step.id, run.plan.key)
  BY <1>1, StepFacts
<1>4. run.reply \in Replies
  BY <1>1, <1>2 DEF HistoryRuns
<1>5. EditInv'
  BY StepAppliedKeeps
<1>6. \/ /\ Finished(IF session # run.gen THEN Current ELSE halted)
         /\ session = run.gen => Malformed(run.step.rec, run.plan.dir, run.reply)
      \/ /\ session = run.gen /\ ~Malformed(run.step.rec, run.plan.dir, run.reply)
         /\ history' = done
         /\ run' = [run EXCEPT !.completed = @ + 1, !.step = None, !.reply = None]
  BY <1>2, <1>3 DEF StepApplied
<1>7. CASE /\ Finished(IF session # run.gen THEN Current ELSE halted)
           /\ session = run.gen => Malformed(run.step.rec, run.plan.dir, run.reply)
  <2>1. Unique(halted, seq) /\ SameCache(history, halted) /\ halted.gen = history.gen
    BY <1>2, <1>3, StartPendingGroupUnique, StartPendingGroupFollows DEF Follows
  <2> HIDE DEF halted
  <2>2. session = run.gen => Heard(halted, unsure')
    BY <1>1, <1>7, <2>1, StepSilent DEF Malformed
  <2> QED
    BY <1>1, <1>5, <1>7, <2>1, <2>2, FinishTells
<1>8. CASE /\ session = run.gen /\ ~Malformed(run.step.rec, run.plan.dir, run.reply)
           /\ history' = done
           /\ run' = [run EXCEPT !.completed = @ + 1, !.step = None, !.reply = None]
  <2>1. /\ Unique(done, seq) /\ Len(Stack(done, run.plan.dir)) = Len(s) - 1
        /\ \A i \in 1..(Len(s) - 1) : Stack(done, run.plan.dir)[i].id = s[i].id
        /\ Grows(history, done) /\ done.applied = history.applied + 1
        /\ ~IsCreate(run.step.rec) =>
             \A t \in Slots : IF t = run.step.rec.slot THEN Learns(done, t, run.reply.val)
                              ELSE Ages(history, done, t)
        /\ IsCreate(run.step.rec) =>
             \A t \in Slots : \/ Ages(history, done, t)
                              \/ run.plan.dir # "undo" /\ t[1] = run.reply.id /\ Learns(done, t, Root)
    BY <1>2, <1>3, <1>4, FinishGroupStepTells
  <2>2. done.gen = history.gen /\ done \in HistoryStates
    BY <1>2, <1>3, <1>4, FinishGroupStepFollows DEF Follows, HistoryFits
  <2>3. s \in Seq(AnyEntry) /\ Len(s) \in Nat /\ run.left \in Seq(AnyEntry) /\ Len(run.left) \in Nat
    BY <1>2, StackFits DEF HistoryRuns
  <2>4. /\ Len(run.left) + 1 <= Len(s)
        /\ \A i \in 1..Len(run.left) : run.left[i].id = s[Len(s) + 1 - 1 - i].id
    BY <1>1 DEF CacheInv, StepInv, StepsFit
  <2>5. /\ run'.kind = "history" /\ run'.plan = run.plan /\ run'.reply = None /\ run'.step = None
        /\ run'.left = run.left /\ run'.grouped = run.grouped
    BY <1>1, <1>2, <1>8 DEF HistoryRuns
  <2> HIDE DEF done
  <2>6. Heard(history', unsure')
    BY <1>1, <1>8, <2>1, <2>2, StepHeard
  <2>7. CaptureInv'
    BY <1>1, <1>8, <2>2, <2>5, <2>6, HeardKeeps DEF CacheInv, StaysUnsure
  <2>8. StepsFit'
    <3> DEFINE t == Stack(history', run'.plan.dir)
    <3>1. Len(t) = Len(s) - 1 /\ \A i \in 1..(Len(s) - 1) : t[i].id = s[i].id
      BY <1>8, <2>1, <2>5
    <3> HIDE DEF t, s
    <3>2. \A i \in 1..Len(run.left) : run.left[i].id = t[Len(t) + 1 - 0 - i].id
      <4> TAKE i \in 1..Len(run.left)
      <4>1. Len(s) + 1 - 1 - i \in 1..(Len(s) - 1) /\ Len(t) + 1 - 0 - i = Len(s) + 1 - 1 - i
        BY <2>3, <2>4, <3>1
      <4> QED
        BY <2>4, <3>1, <4>1
    <3>3. Len(run.left) + 0 <= Len(t)
      BY <2>3, <2>4, <3>1
    <3> QED
      BY <1>1, <2>5, <3>2, <3>3 DEF StepsFit, t
  <2>9. NextId' = seq
    BY <1>1, <2>5 DEF NextId
  <2> QED
    BY <1>8, <2>1, <2>7, <2>8, <2>9 DEF CacheInv, StepInv
<1> QED
  BY <1>6, <1>7, <1>8

LEMMA StepFailsTells == EditInv /\ CacheInv /\ StepFails => CacheInv'
<1> SUFFICES ASSUME EditInv, CacheInv, StepFails PROVE CacheInv'
  OBVIOUS
<1>1. /\ run # None /\ run.kind = "history" /\ run.step # None
      /\ UNCHANGED <<session, lastGen, engine, seq, capture>>
  BY DEF StepFails, InFlight, ui
<1>2. PICK answered \in BOOLEAN :
        /\ Finished(IF session # run.gen THEN Current
                    ELSE StartPendingGroup(Current, run.plan, run.completed, ~answered, answered))
        /\ unsure \subseteq unsure'
        /\ \/ run.reply # None /\ run.reply.st # "accepted"
           \/ run.step.rec.slot \in unsure'
  BY DEF StepFails
<1>3. /\ run.plan \in Plans /\ history.group = None /\ HistoryFits(history, seq)
      /\ run.completed \in Nat
      /\ session = run.gen => Current = history
  BY <1>1, WorkFacts
<1>4. history \in HistoryStates /\ Unique(history, seq)
  BY <1>1, StepFacts
<1>5. EditInv'
  BY StepFailsKeeps
<1> DEFINE k == StartPendingGroup(history, run.plan, run.completed, ~answered, answered)
<1>6. Unique(k, seq) /\ SameCache(history, k) /\ k.gen = history.gen
  <2>1. (~answered) \in BOOLEAN
    OBVIOUS
  <2>2. Unique(k, seq) /\ SameCache(history, k)
    BY <1>3, <1>4, <2>1, StartPendingGroupUnique
  <2>3. Follows(history, k, seq)
    BY <1>3, <2>1, StartPendingGroupFollows
  <2> QED
    BY <2>2, <2>3 DEF Follows
<1>7. Finished(IF session # run.gen THEN Current ELSE k)
  BY <1>2, <1>3
<1> HIDE DEF k
<1>8. Heard(k, unsure')
  BY <1>1, <1>2, <1>6, StepSilent
<1> QED
  BY <1>1, <1>2, <1>5, <1>6, <1>7, <1>8, FinishTells

LEMMA GroupDoneTells == EditInv /\ CacheInv /\ GroupDone => CacheInv'
<1> SUFFICES ASSUME EditInv, CacheInv, GroupDone PROVE CacheInv'
  OBVIOUS
<1> DEFINE k == IF run.retry THEN ClearCompletedPendingGroup(history, run.plan.key) ELSE history
<1>1. /\ run # None /\ run.kind = "history" /\ run.step = None /\ Finished(k)
      /\ UNCHANGED <<session, lastGen, engine, seq, capture, unsure>>
  BY DEF GroupDone, ui, aux
<1>2. history.group = None /\ HistoryFits(history, seq)
  BY <1>1, WorkFacts
<1>3. /\ history \in HistoryStates /\ Unique(history, seq) /\ \A t \in Slots : ~Moved(t)
  BY <1>1, StepFacts
<1>4. EditInv'
  BY GroupDoneKeeps
<1>5. Unique(k, seq) /\ SameCache(history, k) /\ k.gen = history.gen
  BY <1>2, <1>3, ClearCompletedUnique, ClearCompletedPendingGroupFollows DEF Follows, SameCache
<1> HIDE DEF k
<1>6. Heard(k, unsure')
  BY <1>3, <1>5, SameHeard DEF CacheInv
<1> QED
  BY <1>1, <1>4, <1>5, <1>6, FinishedTells

-----------------------------------------------------------------------------
(* Controls.                                                               *)

LEMMA BeginTells == EditInv /\ CacheInv /\ Begin => CacheInv'
<1> SUFFICES ASSUME EditInv, CacheInv, Begin PROVE CacheInv'
  OBVIOUS
<1>1. /\ run = None /\ run' = None /\ (seq' = seq \/ seq' = seq + 1)
      /\ UNCHANGED <<session, lastGen, engine, capture, unsure>>
      /\ history' = Current \/ history' = BeginGroup(Current, seq)
  BY DEF Begin, Free, ui, aux
<1>2. HistoryFits(Current, seq) /\ Current.gen = session /\ seq \in Nat /\ Unique(Current, seq)
        /\ SameCache(Current, Current)
  BY CurrentFits, CurrentUnique DEF CacheInv, SameCache
<1>3. Unique(BeginGroup(Current, seq), seq) /\ SameCache(Current, BeginGroup(Current, seq))
  BY <1>2, BeginUnique
<1>4. EditInv'
  BY BeginKeeps
<1>5. BeginGroup(Current, seq).gen = session
  BY <1>2, CloseFollows DEF BeginGroup, Bump, Follows, HistoryFits, HistoryStates
<1>6. seq <= NextId'
  BY <1>1, <1>2 DEF NextId
<1> QED
  BY <1>1, <1>2, <1>3, <1>4, <1>5, <1>6, FreeTells

LEMMA DiscardTells == EditInv /\ CacheInv /\ Discard => CacheInv'
<1> SUFFICES ASSUME EditInv, CacheInv, Discard PROVE CacheInv'
  OBVIOUS
<1>1. /\ run = None /\ run' = None /\ seq' = seq /\ Current.pending # None
      /\ UNCHANGED <<session, lastGen, engine, capture, unsure>>
      /\ history' = DiscardPendingGroup(Current)
  BY DEF Discard, Free, ui
<1>2. HistoryFits(Current, seq) /\ Current.gen = session /\ seq \in Nat /\ Unique(Current, seq)
  BY CurrentFits, CurrentUnique DEF CacheInv
<1>3. /\ Unique(history', seq) /\ SameCache(Current, history') /\ history'.gen = session
  BY <1>1, <1>2, DiscardPendingGroupUnique, DiscardPendingGroupFollows DEF Follows, HistoryFits
<1>4. EditInv'
  BY DiscardKeeps
<1>5. NextId' = seq
  BY <1>1 DEF NextId
<1> QED
  BY <1>1, <1>2, <1>3, <1>4, <1>5, FreeTells

\* Whatever the actor is doing, a change that touches no entry, no correction and not the
\* item's request tells nothing.
LEMMA AsideTells ==
    ASSUME EditInv, CacheInv, UNCHANGED <<session, lastGen, engine, seq, capture, unsure>>,
           Unique(history', NextId'), SameCache(history, history'), history'.gen = history.gen,
           StepsFit', \A t : Moved(t)' <=> Moved(t),
           InFlight' <=> InFlight, InFlight => Request(run)' = Request(run),
           (run' = None <=> run = None), run # None => run'.gen = run.gen /\ run'.reply = run.reply
    PROVE  CacheInv'
<1>1. Knows(history)'
  BY DEF CacheInv, CaptureInv, Knows, Resolved, SameCache, Past, Cached
<1>2. AnswerFits'
  BY DEF CacheInv, CaptureInv, AnswerFits, InFlight, Moved
<1>3. CaptureFits'
  BY DEF CacheInv, CaptureInv, CaptureFits
<1> QED
  BY <1>1, <1>2, <1>3 DEF CacheInv, CaptureInv, StepInv

LEMMA CloseGroupTells == EditInv /\ CacheInv /\ CloseGroup => CacheInv'
<1> SUFFICES ASSUME EditInv, CacheInv, CloseGroup PROVE CacheInv'
  OBVIOUS
<1>1. /\ run = None /\ run' = None /\ history' = CloseActiveGroup(history)
      /\ UNCHANGED <<session, lastGen, engine, seq, capture, unsure>>
  BY DEF CloseGroup, ui, aux
<1>2. HistoryFits(history, seq) /\ seq \in Nat
  BY EditAssumption DEF EditInv
<1>3. /\ Unique(history', NextId) /\ SameCache(history, history') /\ history'.gen = history.gen
  BY <1>1, <1>2, CloseUnique, CloseFollows DEF CacheInv, StepInv, Follows
<1>4. NextId' = NextId /\ StepsFit' /\ ~InFlight /\ ~InFlight' /\ \A t : Moved(t)' <=> Moved(t)
  BY <1>1 DEF NextId, StepsFit, InFlight, Moved
<1> QED
  BY <1>1, <1>3, <1>4, AsideTells

LEMMA AuthRevokedTells == EditInv /\ CacheInv /\ AuthRevoked => CacheInv'
<1> SUFFICES ASSUME EditInv, CacheInv, AuthRevoked PROVE CacheInv'
  OBVIOUS
<1>1. /\ history' = CloseActiveGroup(history)
      /\ UNCHANGED <<session, lastGen, engine, seq, capture, unsure>>
      /\ HistoryFits(history, seq) /\ seq \in Nat
  BY EditAssumption DEF AuthRevoked, EditInv, ui, aux
<1>2. /\ Unique(history', NextId) /\ SameCache(history, history') /\ history'.gen = history.gen
  BY <1>1, CloseUnique, CloseFollows DEF CacheInv, StepInv, Follows
<1>3. CASE run # None /\ run.kind = "history"
  <2>1. run \in HistoryRuns /\ history' = history
    BY <1>1, <1>3, WorkFacts DEF CloseActiveGroup
  <2>2. run' = run \/ run' = [run EXCEPT !.revoked = TRUE]
    BY DEF AuthRevoked
  <2>3. /\ run' \in HistoryRuns /\ run'.kind = "history" /\ run'.gen = run.gen
        /\ run'.plan = run.plan /\ run'.reply = run.reply /\ run'.step = run.step
        /\ run'.left = run.left /\ run'.grouped = run.grouped
    BY <1>3, <2>1, <2>2 DEF HistoryRuns
  <2>4. run' # None
    BY <2>3, NoneAssumption
  <2>5. /\ NextId' = NextId /\ (InFlight' <=> InFlight) /\ Request(run)' = Request(run)
        /\ StepsFit'
    BY <1>1, <1>3, <2>1, <2>3, <2>4 DEF NextId, InFlight, Request, CacheInv, StepInv, StepsFit
  <2>6. \A t : Moved(t)' <=> Moved(t)
    BY <1>1, <2>3, <2>5 DEF Moved
  <2> QED
    BY <1>1, <1>2, <1>3, <2>3, <2>4, <2>5, <2>6, AsideTells
<1>4. CASE ~(run # None /\ run.kind = "history")
  <2>1. run' = run
    BY <1>4 DEF AuthRevoked
  <2>2. /\ NextId' = NextId /\ (InFlight' <=> InFlight) /\ Request(run)' = Request(run)
        /\ StepsFit'
    BY <1>1, <1>4, <2>1 DEF NextId, InFlight, Request, StepsFit
  <2>3. \A t : Moved(t)' <=> Moved(t)
    BY <1>1, <2>1, <2>2 DEF Moved
  <2> QED
    BY <1>1, <1>2, <2>1, <2>2, <2>3, AsideTells
<1> QED
  BY <1>3, <1>4

\* The cache, the numbers of the entries and the step in work stay as they should: every step
\* of the actor, the screen, MCP and the engine keeps CacheInv.
THEOREM CacheInvariance == Spec => [](EditInv /\ CacheInv)
<1>1. EditInv /\ CacheInv /\ [Next]_vars => CacheInv'
  <2> SUFFICES ASSUME EditInv, CacheInv, [Next]_vars PROVE CacheInv'
    OBVIOUS
  <2>1. CASE Disconnect \/ Connect \/ SessionChanged
    BY <2>1, DisconnectTells, ConnectTells, SessionChangedTells
  <2>2. CASE \/ \E slot \in UiSlots : CaptureValue(slot)
             \/ \E dir \in UiDirections : CaptureCursor(dir)
    BY <2>2, CaptureValueTells, CaptureCursorTells
  <2>3. CASE \/ EditRefused
             \/ \E slot \in UiSlots, val \in Values : SetFromUi(slot, val)
             \/ \E slot \in Slots, val \in Values, token \in {None} \cup 1..MaxSequence :
                  SetFromMcp(slot, val, token)
    BY <2>3, EditRefusedTells, SetFromUiTells, SetFromMcpTells
  <2>4. CASE \E src \in {"ui", "mcp"}, token \in {None} \cup 1..MaxSequence : Create(src, token)
    BY <2>4, CreateTells
  <2>5. CASE \/ \E src \in {"ui", "mcp"}, o \in Objects : Delete(src, o)
             \/ \E src \in {"ui", "mcp"} : OtherEdit(src)
    BY <2>5, DeleteTells, OtherEditTells
  <2>6. CASE EngineAccepts \/ EngineRefuses \/ EditAnswered \/ EditUnanswered
    BY <2>6, EngineAcceptsTells, EngineRefusesTells, EditAnsweredTells, EditUnansweredTells
  <2>7. CASE \/ HistoryFromUi \/ (\E dir \in Directions : HistoryFromMcp(dir))
             \/ StartRetry \/ SendStep
    BY <2>7, HistoryFromUiTells, HistoryFromMcpTells, StartRetryTells, SendStepTells
  <2>8. CASE SingleApplied \/ SingleFails \/ StepApplied \/ StepFails \/ GroupDone
    BY <2>8, SingleAppliedTells, SingleFailsTells, StepAppliedTells, StepFailsTells, GroupDoneTells
  <2>9. CASE Begin \/ CloseGroup \/ Discard \/ AuthRevoked
    BY <2>9, BeginTells, CloseGroupTells, DiscardTells, AuthRevokedTells
  <2>10. CASE UNCHANGED vars
    <3>1. UNCHANGED <<session, lastGen, engine, history, run, seq, capture, unsure>>
      BY <2>10 DEF vars, ui, aux
    <3>2. /\ NextId' = NextId /\ (InFlight' <=> InFlight) /\ Request(run)' = Request(run)
          /\ StepsFit' /\ Unique(history', NextId') /\ SameCache(history, history')
      BY <3>1 DEF NextId, InFlight, Request, StepsFit, CacheInv, StepInv, SameCache
    <3>3. \A t : Moved(t)' <=> Moved(t)
      BY <3>1, <3>2 DEF Moved
    <3> QED
      BY <3>1, <3>2, <3>3, AsideTells
  <2> QED
    BY <2>1, <2>2, <2>3, <2>4, <2>5, <2>6, <2>7, <2>8, <2>9, <2>10 DEF Next
<1> QED
  BY <1>1, InitTells, EditServiceInvariance, PTL DEF Spec

\* What CacheInv says of the screen's capture.
LEMMA CaptureHolds == EditInv /\ CacheInv => CaptureIsCurrent
<1> SUFFICES ASSUME EditInv, CacheInv, run = None, session # None, history.gen = session,
                    capture # None, capture.slot \notin unsure
             PROVE  ResolveCapture(history, capture, session) \in {Refresh, engine[capture.slot]}
  BY DEF CaptureIsCurrent, Quiet, Settled
<1>1. CASE capture.gen # session
  BY <1>1 DEF ResolveCapture
<1>2. CASE capture.gen = session
  <2>1. capture.slot \in Slots /\ capture.rev \in Nat
    BY DEF EditInv, SceneFits
  <2>2. /\ history.corr[capture.slot] # None
             => history.corr[capture.slot].val = engine[capture.slot]
        /\ Resolved(history, engine[capture.slot])
    BY <1>2, <2>1 DEF CacheInv, CaptureInv, Knows, Moved, InFlight
  <2>3. capture.val # None
    BY DEF CacheInv, CaptureInv, CaptureFits
  <2>4. CASE capture.val = engine[capture.slot]
    BY <2>2, <2>4 DEF ResolveCapture
  <2>5. CASE history.corr[capture.slot] = None /\ capture.rev < history.lost
    BY <2>3, <2>5 DEF ResolveCapture
  <2>6. CASE history.corr[capture.slot] # None /\ capture.rev < history.corr[capture.slot].rev
    <3>1. history.corr[capture.slot].rev > capture.rev
      BY <2>6
    <3> QED
      BY <2>2, <2>6, <3>1 DEF ResolveCapture
  <2> QED
    BY <2>2, <2>4, <2>5, <2>6 DEF Resolved
<1> QED
  BY <1>1, <1>2

\* The old value an edit from the screen records is the engine's (resolve_capture), however
\* many revisions old the capture is and whatever the cache has evicted, unless the screen is
\* told to refresh or an unanswered request may have changed the slot.
THEOREM CaptureStaysCurrent == Spec => []CaptureIsCurrent
BY CacheInvariance, CaptureHolds, PTL
=============================================================================
