----------------------------- MODULE LogBuffer -----------------------------
(***************************************************************************)
(* The bounded store of engine logs (mcp/log_buffer.rs): records of all    *)
(* connection generations in one queue limited by number and by bytes, the *)
(* per-generation counters that say what is missing, and a client that     *)
(* follows one generation by its sequence numbers.                         *)
(*                                                                         *)
(* A record is its generation, its sequence number and the bytes it takes; *)
(* the subscription that fills the store is modelled in BridgeSession.     *)
(***************************************************************************)
EXTENDS Integers, Sequences, FiniteSets, SequencesExt, Functions

CONSTANTS
    LogMaxEntries,    \* MAX_LOG_ENTRIES
    LogMaxBytes,      \* MAX_LOG_BYTES
    LogSizes,         \* bytes of the payloads engines send
    LogMaxSequence,   \* the largest sequence number (u64::MAX)
    LogMaxGeneration  \* bound on the generations begun

ASSUME LogAssumption ==
    /\ LogMaxEntries \in Nat \ {0} /\ LogMaxBytes \in Nat \ {0}
    /\ LogSizes \subseteq Nat \ {0}
    /\ LogMaxSequence \in Nat /\ LogMaxGeneration \in Nat

VARIABLES
    logEntries,     \* LogBuffer.entries, oldest first
    logGens,        \* LogBuffer.generations: GenerationState by generation
    logOrder,       \* LogBuffer.generation_order
    logActive,      \* LogBuffer.active_generation, 0 for none
    logLast,        \* LogBuffer.last_generation, 0 for none
    logBegun,       \* the generations begun so far
    logReader       \* a client of logs_get_recent: its generation and cursor, the
                    \* records it received and whether it was told of a gap

logVars == <<logEntries, logGens, logOrder, logActive, logLast, logBegun, logReader>>

\* MAX_TRACKED_GENERATIONS
LogMaxTracked == LogMaxEntries + 1

\* GenerationState::default
LogFresh == [last |-> 0, missing |-> 0, missed |-> FALSE]

LogNobody == [gen |-> 0, after |-> 0, got |-> {}, warned |-> FALSE]

LogInit ==
    /\ logEntries = <<>> /\ logGens = <<>> /\ logOrder = <<>>
    /\ logActive = 0 /\ logLast = 0 /\ logBegun = {}
    /\ logReader = LogNobody

\* The bytes a queue of records retains.
LogBytes(entries) == SumFunction([i \in DOMAIN entries |-> entries[i].size])

LogRetained(entries, g) == {entries[i].seq : i \in {j \in DOMAIN entries : entries[j].gen = g}}

----------------------------------------------------------------------------
(* Generations.                                                            *)

\* ensure_generation
Ensured(g) ==
    IF g \in DOMAIN logGens THEN logGens
    ELSE [h \in DOMAIN logGens \cup {g} |-> IF h = g THEN LogFresh ELSE logGens[h]]

EnsuredOrder(g) == IF g \in DOMAIN logGens THEN logOrder ELSE Append(logOrder, g)

\* prune_generation_metadata may forget g.
Removable(g, entries, active, last) ==
    LogRetained(entries, g) = {} /\ g # active /\ g # last

Excess(gens) == IF Cardinality(DOMAIN gens) > LogMaxTracked
                THEN Cardinality(DOMAIN gens) - LogMaxTracked ELSE 0

\* prune_generation_metadata: nothing while there are not too many; else the first
\* generations, in the order they came, that may be forgotten, as many as there
\* are too many.
LogPrune(gens, order, entries, active, last) ==
    LET Forgettable(g) == Removable(g, entries, active, last)
        candidates == SelectSeq(order, Forgettable)
        gone == {candidates[i] : i \in {j \in DOMAIN candidates : j <= Excess(gens)}}
        Stays(g) == g \notin gone
    IN  IF Excess(gens) = 0 THEN logGens' = gens /\ logOrder' = order
        ELSE /\ logGens' = Restrict(gens, DOMAIN gens \ gone)
             /\ logOrder' = SelectSeq(order, Stays)

\* begin_generation takes over from whatever is active: a disconnect frees the
\* phase for the next connect before it ends the old generation.  BridgeState
\* numbers a connection before it waits for its turn, so two may begin in either
\* order.  Bound: it overtakes the one before it only.
LogBegin(g) ==
    /\ g \notin logBegun /\ 1..(g - 2) \subseteq logBegun
    /\ logBegun' = logBegun \cup {g}
    /\ logActive' = g /\ logLast' = g
    /\ LogPrune(Ensured(g), EnsuredOrder(g), logEntries, g, g)
    /\ UNCHANGED <<logEntries, logReader>>

\* end_generation; a late one, of a generation that another has followed, ends
\* nothing.
LogEnd(g) ==
    /\ g \in logBegun
    /\ logActive' = IF logActive = g THEN 0 ELSE logActive
    /\ logLast' = IF logActive = g THEN g ELSE logLast
    /\ LogPrune(logGens, logOrder, logEntries, logActive', logLast')
    /\ UNCHANGED <<logEntries, logBegun, logReader>>

----------------------------------------------------------------------------
(* Records.                                                                *)

\* BorrowedLog::owned_fields keeps what fits into the whole store.
Cut(size) == IF size > LogMaxBytes THEN LogMaxBytes ELSE size

\* How many of the oldest records make room for a new one.
Dropped(size) ==
    Min({k \in 0..Len(logEntries) :
            LET rest == SubSeq(logEntries, k + 1, Len(logEntries)) IN
            rest = <<>> \/ (Len(rest) < LogMaxEntries /\ LogBytes(rest) + size <= LogMaxBytes)})

\* Mutant of Recounted: only the generation that records is charged.
RecountedOwn(gens, g, drop) ==
    [gens EXCEPT ![g].missing = @ + drop, ![g].last = @ + 1]

\* The new sequence number, and a missing record for each one dropped.
Recounted(gens, g, drop) ==
    [h \in DOMAIN gens |->
        [gens[h] EXCEPT !.missing = @ + Cardinality({i \in 1..drop : logEntries[i].gen = h}),
                        !.last = IF h = g THEN @ + 1 ELSE @]]

\* record_relay_log keeps what belongs to the active generation.
Relayed(g) == g = logActive /\ logActive # 0

\* record_at, for the relay of generation g.
LogRecord(g, size) ==
    /\ Relayed(g)
    /\ logGens[g].last < LogMaxSequence
    /\ LET stored == Cut(size)
           drop == Dropped(stored)
           entry == [gen |-> g, seq |-> logGens[g].last + 1, size |-> stored,
                     truncated |-> size > LogMaxBytes]
           after == Append(SubSeq(logEntries, drop + 1, Len(logEntries)), entry)
       IN  /\ logEntries' = after
           /\ LogPrune(Recounted(logGens, g, drop), logOrder, after, logActive, logLast)
    /\ UNCHANGED <<logActive, logLast, logBegun, logReader>>

\* The sequence numbers are used up: SequenceExhausted, nothing is kept.
LogExhausted(g) ==
    /\ Relayed(g)
    /\ logGens[g].last = LogMaxSequence
    /\ UNCHANGED logVars

\* note_missed_events: the relay's broadcast overflowed.
LogMissed(g) ==
    /\ Relayed(g)
    /\ logGens' = [logGens EXCEPT ![g].missed = TRUE]
    /\ UNCHANGED <<logEntries, logOrder, logActive, logLast, logBegun, logReader>>

----------------------------------------------------------------------------
(* Reading.                                                                *)

\* retention_for: has_gap.
HasGap(g) ==
    LET kept == LogRetained(logEntries, g) IN
    \/ logGens[g].missing > 0 \/ logGens[g].missed
    \/ kept # {} /\ (Min(kept) > 1 \/ Max(kept) < logGens[g].last)
    \/ \E i \in DOMAIN logEntries : logEntries[i].gen = g /\ logEntries[i].truncated

\* missing_before_cursor of a query for one generation.
MissingBefore(g, after) ==
    /\ g \in DOMAIN logGens
    /\ LET kept == LogRetained(logEntries, g) IN
       \/ logGens[g].missed
       \/ kept # {} /\ Min(kept) > after + 1
       \/ kept = {} /\ logGens[g].last > after

\* LogBuffer::read with a generation, a cursor and a limit; oldest first.
LogPage(g, after, limit) ==
    LET Matches(entry) == entry.gen = g /\ entry.seq > after
        found == SelectSeq(logEntries, Matches)
    IN  [entries |-> SubSeq(found, 1, IF Len(found) < limit THEN Len(found) ELSE limit),
         hasMore |-> Len(found) > limit]

\* A client starts to follow a generation it knows of.
ReaderFollow(g) ==
    /\ g \in DOMAIN logGens /\ logReader.gen = 0
    /\ logReader' = [LogNobody EXCEPT !.gen = g]
    /\ UNCHANGED <<logEntries, logGens, logOrder, logActive, logLast, logBegun>>

\* read_recent_logs with the last sequence number received.
ReaderPage(limit) ==
    /\ logReader.gen # 0
    /\ LET page == LogPage(logReader.gen, logReader.after, limit)
           got == {page.entries[i].seq : i \in DOMAIN page.entries}
       IN  logReader' =
             [logReader EXCEPT !.after = IF got = {} THEN @ ELSE Max(got),
                               !.got = @ \cup got,
                               !.warned = @ \/ MissingBefore(logReader.gen, logReader.after)]
    /\ UNCHANGED <<logEntries, logGens, logOrder, logActive, logLast, logBegun>>

----------------------------------------------------------------------------
LogNext ==
    \/ \E g \in 1..LogMaxGeneration : LogBegin(g) \/ LogEnd(g)
    \/ \E g \in DOMAIN logGens :
          \/ \E size \in LogSizes : LogRecord(g, size)
          \/ LogExhausted(g) \/ LogMissed(g) \/ ReaderFollow(g)
    \/ \E limit \in 1..2 : ReaderPage(limit)

LogSpec == LogInit /\ [][LogNext]_logVars

----------------------------------------------------------------------------
\* The records and the counters have their types, and the store keeps its
\* three limits: records, bytes, and generations it remembers.  A generation
\* with records, the active one and the last one are never forgotten, so the
\* limit on generations rests on its being one above the limit on records.
LogBounded ==
    /\ \A i \in DOMAIN logEntries :
          /\ logEntries[i].gen \in 1..LogMaxGeneration /\ logEntries[i].seq \in 1..LogMaxSequence
          /\ logEntries[i].size \in 1..LogMaxBytes /\ logEntries[i].truncated \in BOOLEAN
    /\ Len(logEntries) <= LogMaxEntries
    /\ LogBytes(logEntries) <= LogMaxBytes
    /\ Cardinality(DOMAIN logGens) <= LogMaxEntries + 1
    /\ ToSet(logOrder) = DOMAIN logGens /\ Len(logOrder) = Cardinality(DOMAIN logGens)

\* Every record received is kept or counted as missing under its own
\* generation, and what is kept of a generation is its latest records.
LogAccounts ==
    /\ \A i \in DOMAIN logEntries : logEntries[i].gen \in DOMAIN logGens
    /\ \A g \in DOMAIN logGens :
          LogRetained(logEntries, g) = (logGens[g].missing + 1)..logGens[g].last

\* A generation reported without a gap is there from its first record to its
\* last one, uncut.
NoGapIsWhole ==
    \A g \in DOMAIN logGens :
        ~HasGap(g) => /\ LogRetained(logEntries, g) = 1..logGens[g].last
                      /\ ~logGens[g].missed

\* A client that follows a generation page by page, while other generations
\* push its records out, has every record up to its cursor or was told that
\* some are missing.
NoSilentLoss ==
    \A seq \in 1..logReader.after : seq \in logReader.got \/ logReader.warned

\* What a generation that has ended observed does not change any more: a relay
\* that outlives its generation records nothing.
EndedIsFinal ==
    [][\A g \in DOMAIN logGens :
          g # logActive /\ g \in DOMAIN logGens' =>
              logGens'[g].last = logGens[g].last /\ logGens'[g].missed = logGens[g].missed]_logVars

\* The log store is honest: within its limits it keeps the latest records, counts
\* what it dropped under the right generation, says so to whoever reads, and
\* adds nothing to a generation that has ended.
LogIsHonest == [](LogBounded /\ LogAccounts /\ NoGapIsWhole /\ NoSilentLoss) /\ EndedIsFinal
=============================================================================
