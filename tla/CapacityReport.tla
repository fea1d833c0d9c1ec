--------------------------- MODULE CapacityReport ---------------------------
(***************************************************************************)
(* GET /capacity: what GetCapacityByBrowser counts in the tables of        *)
(* Scheduler and what the handler adds up. The query repeats the claim's   *)
(* conditions on a worker instead of sharing them.                         *)
(***************************************************************************)
EXTENDS Scheduler, FiniteSetsExt

CONSTANTS Browsers,
          BrowserOf   \* BrowserOf[w]: browser of worker w and of its sessions

ASSUME BrowserAssumption == BrowserOf \in [Workers -> Browsers] /\ IsFiniteSet(Browsers)

WorkersOf(b) == {w \in Workers : BrowserOf[w] = b}

\* Mutant: the report counts workers that have used up their lifetime.
EligibleForever(w) ==
    worker[w].status = "available" /\ worker[w].last_heartbeat > now - WorkerTTL

\* The eligible_workers of the query.
Eligible(w) ==
    /\ worker[w].status = "available"
    /\ worker[w].last_heartbeat > now - WorkerTTL
    /\ MaxLifetime = 0 \/ worker[w].lifetime_sessions < MaxLifetime

\* GREATEST(max_slots - active_count, 0)
FreeSlots(w) == Max({MaxSlots[w] - Cardinality(ActiveOn(w)), 0})

\* The row of browser b: its eligible workers, and all its active sessions.
GetCapacityByBrowser(b) ==
    LET eligible == {w \in WorkersOf(b) : Eligible(w)}
    IN  [workers |-> Cardinality(eligible),
         max_slots |-> SumFunctionOnSet(MaxSlots, eligible),
         active_sessions |-> Cardinality(UNION {ActiveOn(w) : w \in WorkersOf(b)}),
         available_slots |-> SumFunctionOnSet([w \in Workers |-> FreeSlots(w)], eligible)]

\* A browser with neither eligible workers nor active sessions has no row,
\* and would add nothing.
Total(field) == SumFunction([b \in Browsers |-> GetCapacityByBrowser(b)[field]])

-----------------------------------------------------------------------------
\* The report agrees with the claim, at every moment and under every race:
\* slots are reported as available for a browser exactly when a request for
\* it would find a worker to claim; the slots reported are those of the
\* eligible workers less the sessions on them, so GREATEST never hides an
\* overbooked worker; and the totals count every active session of the fleet.
CapacityHonest ==
    /\ \A b \in Browsers :
         LET report == GetCapacityByBrowser(b)
             onEligible == UNION {ActiveOn(w) : w \in {v \in WorkersOf(b) : Eligible(v)}}
         IN  /\ report.available_slots > 0 <=>
                  \E w \in WorkersOf(b) : Claimable(worker[w], now) /\ HasSlot(w)
             /\ report.available_slots = report.max_slots - Cardinality(onEligible)
    /\ Total("active_sessions") =
         Cardinality({s \in Sessions : session[s].status \in Active})
=============================================================================
