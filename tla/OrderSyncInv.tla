---------------------------- MODULE OrderSyncInv ----------------------------
(***************************************************************************)
(* The inductive invariant behind the properties of OrderSync: what a run    *)
(* knows at each place of the code, how the checkpoint it observed compares  *)
(* with the stored one, and what the rows say about each other.              *)
(***************************************************************************)
EXTENDS OrderSync

Real == account.source = "MERCADO_LIVRE"

Windowed(c) == c.windowFrom # NULL /\ c.windowTo # NULL

\* c is at least as far as d, or further, counted in restarts and then in pages.
AtLeast(c, d) ==
    \/ d.paginationRestartCount < c.paginationRestartCount
    \/ /\ d.paginationRestartCount = c.paginationRestartCount
       /\ d.completedPages <= c.completedPages

Beyond(c, d) ==
    \/ d.paginationRestartCount < c.paginationRestartCount
    \/ /\ d.paginationRestartCount = c.paginationRestartCount
       /\ d.completedPages < c.completedPages

\* Places at which a run holds an observed checkpoint, and those of its try block.
Trying  == {"fetch", "persist", "restart", "fail", "exhaust"}
Holding == {"reopen", "init"} \cup Trying

\* What a run knows, place by place.
RunKnows(w) ==
    /\ obs[w] # NULL <=> pc[w] \in Holding
    /\ pc[w] \in {"read", "fetch", "persist", "restart"} => time[w] # NULL
    /\ pc[w] \in {"create", "reopen", "init"} => win[w] # NULL
    /\ page[w] # NULL <=> pc[w] \in {"persist", "restart"}
    /\ pc[w] \in {"fail", "exhaust"} => code[w] # NULL
    /\ obs[w] # NULL => WellFormed(obs[w]) /\ checkpoint # NULL
    /\ pc[w] = "reopen" => /\ Real
                           /\ obs[w].status = "COMPLETE"
                           /\ obs[w].windowTo # NULL => win[w].from <= obs[w].windowTo
    /\ pc[w] \in Holding \ {"reopen"} => (obs[w].status = "COMPLETE" => ~Real)
    /\ pc[w] = "init" => ~Windowed(obs[w])
    /\ pc[w] \in Trying => Windowed(obs[w]) /\ ~Exhausted(obs[w])
    /\ pc[w] = "restart" => /\ Real
                            /\ obs[w].paginationRestartCount < MaxRestarts
                            /\ obs[w].expectedTotal # NULL
    /\ pc[w] = "persist" => /\ Real => obs[w].windowFrom <= obs[w].windowTo
                            /\ page[w].nextOffset <= page[w].total
                            /\ page[w].complete => page[w].nextOffset = page[w].total

\* Within a pass the stored checkpoint only moves ahead of an observed one.
RunFenced(w) ==
    obs[w] # NULL /\ "reopen" \notin overtaken[w] =>
        /\ AtLeast(checkpoint, obs[w])
        /\ Stale(w) => Beyond(checkpoint, obs[w])

\* A page in flight that nothing has overtaken is as new as what is stored.
RunCurrent(w) ==
    pc[w] = "persist" /\ ~Stale(w) =>
        \A o \in DOMAIN page[w].results : stored[o] <= page[w].results[o]

RunNotAhead(w) ==
    page[w] # NULL => \A o \in DOMAIN page[w].results : page[w].results[o] <= version[o]

\* All of the above, for one run.
RunInv(w) == RunKnows(w) /\ RunFenced(w) /\ RunCurrent(w) /\ RunNotAhead(w)

RowsAgree ==
    /\ checkpoint = NULL => lastSyncedWindowTo = NULL /\ account.lastSyncState = NULL
    /\ checkpoint # NULL =>
         /\ WellFormed(checkpoint)
         /\ checkpoint.windowTo = NULL => /\ lastSyncedWindowTo = NULL
                                          /\ ~Exhausted(checkpoint)
    /\ CompleteIsWhole
    /\ NoGap
    /\ ShownCountIsStored
    /\ AccountMirrorsFailure

OrdersAgree ==
    /\ \A o \in Orders : stored[o] <= version[o]
    /\ ~Real => \A o \in Orders : version[o] = 1

\* The inductive invariant: every run's knowledge holds, no run is behind a fence it
\* could pass, and checkpoint, account and order rows agree.
IInv ==
    /\ TypeOK
    /\ \A w \in Workers : RunInv(w)
    /\ RowsAgree
    /\ OrdersAgree
-----------------------------------------------------------------------------
\* Nothing has been committed since the run observed its checkpoint.
SamePass(w) == ~Stale(w) /\ "reopen" \notin overtaken[w]

\* A run of the same pass reads the stored window from the stored cursor.
RunTracks(w) ==
    pc[w] \in {"fetch", "persist"} /\ SamePass(w) =>
        /\ obs[w].windowFrom = checkpoint.windowFrom
        /\ obs[w].windowTo = checkpoint.windowTo
        /\ obs[w].nextOffset = checkpoint.nextOffset

\* Its page leaves out no order between the cursor and the one it will store.
RunCovers(w) ==
    pc[w] = "persist" /\ Real /\ steady /\ SamePass(w) =>
        LET found == Found(obs[w])
        IN  \A o \in found :
              /\ obs[w].nextOffset <= Position(o, found)
              /\ Position(o, found) < page[w].nextOffset
              => o \in DOMAIN page[w].results

\* A page holds revisions an order had.
RunHasRevisions(w) ==
    page[w] # NULL => \A o \in DOMAIN page[w].results : page[w].results[o] > 0

CursorRun(w) == RunTracks(w) /\ RunCovers(w) /\ RunHasRevisions(w)

\* The inductive invariant behind CursorCovered: every page in flight that can still
\* be committed joins what is stored without a gap, and a cursor taken over from the
\* old schema, which has no window, vouches for nothing.
CursorInv ==
    /\ CursorCovered
    /\ checkpoint # NULL /\ ~Windowed(checkpoint) => ~steady
    /\ \A o \in Orders : version[o] > 0
    /\ \A w \in Workers : CursorRun(w)
=============================================================================
