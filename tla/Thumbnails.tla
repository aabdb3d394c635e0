----------------------------- MODULE Thumbnails -----------------------------
(***************************************************************************)
(* The thumbnail service the Game View and the MCP tool share              *)
(* (mcp/thumbnail.rs): one fetch in flight and one snapshot cached for a   *)
(* connection generation, and at most one fetch a second.  ImageWorker     *)
(* models what the MCP tool makes of a snapshot.                           *)
(*                                                                         *)
(* A snapshot is the fetch it came from.  Time is kept as ages: a tick     *)
(* makes everything older, up to the age at which it stops to matter.      *)
(***************************************************************************)
EXTENDS Naturals, FiniteSets, FiniteSetsExt

CONSTANTS
    TnCallers,         \* calls of get_raw
    TnUi,              \* those of the Game View; the others are of the MCP tool
    TnSize,            \* the dimensions each call asks for
    TnFetches,         \* names of fetches, used again when nothing refers to them
    TnTtl,             \* THUMBNAIL_CACHE_TTL in ticks
    TnMaxCalls,        \* bound on the calls of each caller
    TnMaxGeneration    \* bound on the connections

ASSUME ThumbnailAssumption ==
    /\ TnUi \subseteq TnCallers /\ TnFetches \subseteq Nat \ {0}
    /\ TnTtl \in Nat \ {0} /\ TnMaxGeneration \in Nat /\ TnMaxCalls \in [TnCallers -> Nat]

VARIABLES
    tnLive,        \* the connection generation, 0 when there is none
    tnGens,        \* generations so far
    tnInvalid,     \* calls of invalidate still to come
    tnState,       \* FetchState: generation, age of last_started, cached, in_flight
    tnFetch,       \* every fetch: its generation, size, origin, result and age
    tnCall,        \* every caller
    tnCalls,       \* calls so far
    tnStarts       \* of this connection: age of the last start, and an invalidate since

tnVars == <<tnLive, tnGens, tnInvalid, tnState, tnFetch, tnCall, tnCalls, tnStarts>>

TnIdle == [at |-> "idle", gen |-> 0, fetch |-> 0, timer |-> 0]
TnNever == [age |-> TnTtl, reset |-> FALSE]
TnBlank == [gen |-> 0, size |-> 0, ui |-> FALSE, result |-> "none", age |-> 0]

TnInit ==
    /\ tnLive = 0 /\ tnGens = 0 /\ tnInvalid = 0
    /\ tnState = [gen |-> 0, since |-> TnTtl, cached |-> 0, flight |-> 0]
    /\ tnFetch = [i \in TnFetches |-> TnBlank]
    /\ tnCall = [c \in TnCallers |-> TnIdle] /\ tnCalls = [c \in TnCallers |-> 0]
    /\ tnStarts = TnNever

Unused ==
    TnFetches \ ({tnState.cached, tnState.flight} \cup {tnCall[c].fetch : c \in TnCallers}
                 \cup {i \in TnFetches : tnFetch[i].result = "flying"})

\* What nothing refers to any more is freed.
Held == [i \in TnFetches |-> IF i \in Unused THEN TnBlank ELSE tnFetch[i]]

Current(i) == tnFetch[i].gen = tnLive
Becomes(c, r) == tnCall' = [tnCall EXCEPT ![c] = r]
Moves(c, where) == Becomes(c, [tnCall[c] EXCEPT !.at = where])

----------------------------------------------------------------------------
(* get_raw.                                                                *)

\* pin: the generation is the one of the call's start.
Call(c) ==
    /\ tnCall[c].at = "idle" /\ tnLive # 0 /\ tnCalls[c] < TnMaxCalls[c]
    /\ tnCalls' = [tnCalls EXCEPT ![c] = @ + 1]
    /\ Becomes(c, [TnIdle EXCEPT !.at = "decide", !.gen = tnLive])
    /\ UNCHANGED <<tnLive, tnGens, tnInvalid, tnState, tnFetch, tnStarts>>

\* checked_current
Given(c, i) ==
    IF Current(i)
    THEN [tnCall[c] EXCEPT !.at = "done", !.fetch = i]
    ELSE TnIdle

\* Mutant of Adopted: a change of generation forgets everything.
AdoptedAnew(g) ==
    IF tnState.gen = g THEN tnState
    ELSE [gen |-> g, since |-> TnTtl, cached |-> 0, flight |-> 0]

\* What the first statements of the loop make of the state.
Adopted(g) ==
    IF tnState.gen = g THEN tnState
    ELSE [tnState EXCEPT !.gen = g, !.cached = 0, !.flight = 0]

Reusable(s, c) ==
    s.cached # 0 /\ tnFetch[s.cached].size = TnSize[c] /\ tnFetch[s.cached].age <= TnTtl

\* decide_fetch
Decide(c) ==
    LET s == Adopted(tnCall[c].gen)
    IN /\ tnCall[c].at = "decide"
       /\ \/ /\ Reusable(s, c)
             /\ Becomes(c, Given(c, s.cached))
             /\ tnState' = s /\ UNCHANGED <<tnFetch, tnStarts>>
          \/ /\ ~Reusable(s, c) /\ s.flight # 0
             /\ Becomes(c, [tnCall[c] EXCEPT !.at = "waiting", !.fetch = s.flight])
             /\ tnState' = s /\ UNCHANGED <<tnFetch, tnStarts>>
          \/ /\ ~Reusable(s, c) /\ s.flight = 0 /\ s.since < TnTtl
             /\ Becomes(c, IF c \in TnUi
                           THEN [tnCall[c] EXCEPT !.at = "sleeping", !.timer = TnTtl - s.since]
                           ELSE TnIdle)
             /\ tnState' = s /\ UNCHANGED <<tnFetch, tnStarts>>
          \/ /\ ~Reusable(s, c) /\ s.flight = 0 /\ s.since = TnTtl /\ Unused # {}
             /\ LET i == Min(Unused)
                IN /\ Becomes(c, [tnCall[c] EXCEPT !.at = "waiting", !.fetch = i])
                   /\ tnState' = [s EXCEPT !.since = 0, !.flight = i]
                   /\ tnFetch' = [Held EXCEPT ![i] = [gen |-> tnCall[c].gen, size |-> TnSize[c],
                                     ui |-> c \in TnUi, result |-> "flying", age |-> 0]]
             /\ tnStarts' = IF tnCall[c].gen = tnLive THEN [age |-> 0, reset |-> FALSE] ELSE tnStarts
    /\ UNCHANGED <<tnLive, tnGens, tnInvalid, tnCalls>>

Wake(c) ==
    /\ tnCall[c].at = "sleeping" /\ tnCall[c].timer = 0
    /\ Moves(c, "decide")
    /\ UNCHANGED <<tnLive, tnGens, tnInvalid, tnState, tnFetch, tnCalls, tnStarts>>

\* Mutant of Landed: the result is published only while the fetch is registered.
LandedRegistered(i, result) ==
    IF tnState.flight = i THEN [Held EXCEPT ![i].result = result] ELSE tnFetch

\* send_replace: whoever waits for the fetch hears of it.
Landed(i, result) == [Held EXCEPT ![i].result = result]

\* complete_fetch
CompleteFetch(i) ==
    /\ tnFetch[i].result = "flying"
    /\ \E result \in {"error"} \cup (IF Current(i) THEN {"ok"} ELSE {}) :
          /\ tnFetch' = Landed(i, result)
          /\ tnState' = IF tnState.gen = tnFetch[i].gen /\ tnState.flight = i
                        THEN [tnState EXCEPT !.flight = 0, !.cached = IF result = "ok" THEN i ELSE @]
                        ELSE tnState
    /\ UNCHANGED <<tnLive, tnGens, tnInvalid, tnCall, tnCalls, tnStarts>>

\* The fetch a call waited for has its result.
Hear(c) ==
    LET f == tnFetch[tnCall[c].fetch]
    IN /\ tnCall[c].at = "waiting" /\ f.result \in {"ok", "error"}
       /\ Becomes(c,
             CASE f.result = "ok" /\ f.size = TnSize[c] -> Given(c, tnCall[c].fetch)
               [] f.result = "ok" /\ f.size # TnSize[c] /\ c \in TnUi -> [tnCall[c] EXCEPT !.at = "decide", !.fetch = 0]
               [] f.result = "error" /\ c \in TnUi /\ ~f.ui -> [tnCall[c] EXCEPT !.at = "decide", !.fetch = 0]
               [] OTHER -> TnIdle)
    /\ UNCHANGED <<tnLive, tnGens, tnInvalid, tnState, tnFetch, tnCalls, tnStarts>>

Return(c) ==
    /\ tnCall[c].at = "done"
    /\ Becomes(c, TnIdle)
    /\ UNCHANGED <<tnLive, tnGens, tnInvalid, tnState, tnFetch, tnCalls, tnStarts>>

----------------------------------------------------------------------------
(* The connection, the exit and time.                                      *)

Connect ==
    /\ tnLive = 0 /\ tnGens < TnMaxGeneration
    /\ tnGens' = tnGens + 1 /\ tnLive' = tnGens + 1
    /\ tnStarts' = TnNever
    /\ UNCHANGED <<tnInvalid, tnState, tnFetch, tnCall, tnCalls>>

\* bridge_disconnect and its likes: invalidate comes after the teardown.
Disconnect ==
    /\ tnLive # 0
    /\ tnLive' = 0
    /\ tnInvalid' = tnInvalid + 1
    /\ UNCHANGED <<tnGens, tnState, tnFetch, tnCall, tnCalls, tnStarts>>

Invalidate ==
    /\ tnInvalid > 0
    /\ tnInvalid' = tnInvalid - 1
    /\ tnState' = [gen |-> 0, since |-> TnTtl, cached |-> 0, flight |-> 0]
    /\ tnStarts' = [tnStarts EXCEPT !.reset = tnStarts.age < TnTtl]
    /\ UNCHANGED <<tnLive, tnGens, tnFetch, tnCall, tnCalls>>

Older(age, cap) == IF age < cap THEN age + 1 ELSE age

Fresh(i) == IF i # 0 /\ tnFetch[i].age < TnTtl THEN i ELSE 0

\* A cached entry past its age is as good as none.
Tick ==
    /\ tnState' = [tnState EXCEPT !.since = Older(@, TnTtl), !.cached = Fresh(@)]
    /\ tnFetch' = [i \in TnFetches |->
          IF Held[i].result = "ok" THEN [Held[i] EXCEPT !.age = Older(@, TnTtl + 1)] ELSE Held[i]]
    /\ tnCall' = [c \in TnCallers |-> [tnCall[c] EXCEPT !.timer = IF @ > 0 THEN @ - 1 ELSE 0]]
    /\ tnStarts' = [tnStarts EXCEPT !.age = Older(@, TnTtl)]
    /\ UNCHANGED <<tnLive, tnGens, tnInvalid, tnCalls>>

\* The MCP client is gone; the fetch it started goes on.
Abandon(c) ==
    /\ c \notin TnUi /\ tnCall[c].at # "idle"
    /\ Becomes(c, TnIdle)
    /\ UNCHANGED <<tnLive, tnGens, tnInvalid, tnState, tnFetch, tnCalls, tnStarts>>

CallerStep(c) == Decide(c) \/ Wake(c) \/ Hear(c) \/ Return(c)

TnNext ==
    \/ \E c \in TnCallers : Call(c) \/ CallerStep(c) \/ Abandon(c)
    \/ \E i \in TnFetches : CompleteFetch(i)
    \/ Connect \/ Disconnect \/ Invalidate \/ Tick

\* Tasks are polled, every request of the bridge ends by its timeout, time passes.
TnFairness ==
    /\ \A c \in TnCallers : WF_tnVars(CallerStep(c))
    /\ \A i \in TnFetches : WF_tnVars(CompleteFetch(i))
    /\ WF_tnVars(Tick)

TnSpec == TnInit /\ [][TnNext]_tnVars
TnFairSpec == TnSpec /\ TnFairness

----------------------------------------------------------------------------
(* What the service promises.                                              *)

\* A call never gets a picture of another connection than the one it pinned, nor
\* of other dimensions, whichever fetch it joined (get_raw).
DeliversWhatWasAsked ==
    \A c \in TnCallers : tnCall[c].at = "done" =>
        tnFetch[tnCall[c].fetch].gen = tnCall[c].gen /\ tnFetch[tnCall[c].fetch].size = TnSize[c]

Starts(g) ==
    \E i \in TnFetches : tnFetch[i].result # "flying" /\ tnFetch'[i].result = "flying" /\ tnFetch'[i].gen = g

\* A connection is asked once a second at the most, whichever callers with
\* whichever leases alternate, as long as no invalidate comes in between.
CadenceKept ==
    [][Starts(tnLive) => tnStarts.age = TnTtl \/ tnStarts.reset]_tnVars

\* Calls share fetches without harm: each gets the picture it asked for, and the
\* engine is asked no oftener than the cadence allows.
SharedFetchIsSafe == []DeliversWhatWasAsked /\ CadenceKept

\* Every call returns, also when the fetch it waits for was dropped from the
\* state by an invalidate or by a caller of another generation, and when it has
\* to go round again after the fetch of an MCP call.
CallsReturn == \A c \in TnCallers : tnCall[c].at # "idle" ~> tnCall[c].at = "idle"
============================================================================
