------------------------------ MODULE OnDemandCache ------------------------------
(***************************************************************************)
(* The two in-memory caches that call a provider when a page is viewed:    *)
(* FlightStatusService.get_status by airport and date, and                 *)
(* HolidayService._get_month by month.  Requests for one key are not       *)
(* serialised, an answer can be long on its way, and the entry's life      *)
(* counts from the moment its request looked into the cache.               *)
(***************************************************************************)
EXTENDS Integers, Sequences, FiniteSets

CONSTANTS
    Proc,    \* requests
    Key,
    Kind,    \* "flight" or "holiday", by key
    Ttl,     \* flight_status_cache_seconds, holiday_cache_seconds, by kind
    Backoff, \* upstream_rate_limit_backoff_seconds
    MaxTime  \* bound: the clock

VARIABLES
    now,
    changes, \* times at which the provider's data of a key changed
    cache, pc, key, since,
    reply,   \* what the provider answered a request
    served   \* the last answer given to a visitor

procVars == <<pc, key, since, reply>>
vars == <<now, changes, cache, procVars, served>>

None == "none"
NoEntry == [status |-> None, ver |-> 0, exp |-> 0]
NoReply == [status |-> None, ver |-> 0]

Init ==
    /\ now = 0
    /\ changes = [k \in Key |-> <<>>]
    /\ cache = [k \in Key |-> NoEntry]
    /\ pc = [p \in Proc |-> "idle"]
    /\ key = [p \in Proc |-> None]
    /\ since = [p \in Proc |-> 0]
    /\ reply = [p \in Proc |-> NoReply]
    /\ served = [key |-> None, status |-> None, ver |-> 0, start |-> 0]

\* Types of entries and requests.
TypeOK ==
    /\ now \in 0..MaxTime
    /\ \A k \in Key : cache[k].status \in {None, "success", "upstream_error", "rate_limited"}
    /\ pc \in [Proc -> {"idle", "fetch", "answered"}]
    /\ \A p \in Proc : reply[p].status \in {None, "success", "upstream_error", "rate_limited"}

Tick == now < MaxTime /\ now' = now + 1 /\ UNCHANGED <<changes, cache, procVars, served>>

\* The provider's data changes, at most once a tick.
Change(k) ==
    /\ \A i \in 1..Len(changes[k]) : changes[k][i] < now
    /\ changes' = [changes EXCEPT ![k] = Append(@, now)]
    /\ UNCHANGED <<now, cache, procVars, served>>

Answered(k, s, v, t) == [key |-> k, status |-> s, ver |-> v, start |-> t]
Live(k) == cache[k].status # None /\ cache[k].exp > now

\* The request is answered from the cache, or its clock is kept and the provider called.
Request(p, k) ==
    /\ pc[p] = "idle"
    /\ IF Live(k)
       THEN /\ served' = Answered(k, cache[k].status, cache[k].ver, now)
            /\ UNCHANGED procVars
       ELSE /\ pc' = [pc EXCEPT ![p] = "fetch"]
            /\ key' = [key EXCEPT ![p] = k]
            /\ since' = [since EXCEPT ![p] = now]
            /\ UNCHANGED <<reply, served>>
    /\ UNCHANGED <<now, changes, cache>>

\* What a provider's client may give: the data of this moment, an error or, for flights, a refusal.
Upstream(k) ==
    {[status |-> "success", ver |-> Len(changes[k])], [status |-> "upstream_error", ver |-> 0]}
        \cup {[status |-> "rate_limited", ver |-> 0] : x \in {Kind[k]} \cap {"flight"}}

\* _fetch_status, fetch_month.
ProviderAnswers(p) ==
    /\ pc[p] = "fetch"
    /\ \E r \in Upstream(key[p]) : reply' = [reply EXCEPT ![p] = r]
    /\ pc' = [pc EXCEPT ![p] = "answered"]
    /\ UNCHANGED <<now, changes, cache, key, since, served>>

\* How long an answer is kept: errors of the holiday service as long as its data, those of the
\* flight service not at all, a refusal for the backoff.
Life(k, s) ==
    CASE s = "rate_limited" -> Backoff
      [] s = "upstream_error" /\ Kind[k] = "flight" -> 0
      [] OTHER -> Ttl[Kind[k]]

\* Mutant: the life counts from the arrival of the answer.
ExpiryFromArrival(p, k, s) == now + Life(k, s)
Expiry(p, k, s) == since[p] + Life(k, s)

\* The entry is replaced by whichever answer comes last.
Return(p) ==
    /\ pc[p] = "answered"
    /\ LET k == key[p]
           r == reply[p]
       IN  /\ cache' = IF r.status = "upstream_error" /\ Kind[k] = "flight" THEN cache
                       ELSE [cache EXCEPT ![k] = [status |-> r.status, ver |-> r.ver,
                                                  exp |-> Expiry(p, k, r.status)]]
           /\ served' = Answered(k, r.status, r.ver, since[p])
    /\ pc' = [pc EXCEPT ![p] = "idle"]
    /\ key' = [key EXCEPT ![p] = None]
    /\ since' = [since EXCEPT ![p] = 0]
    /\ reply' = [reply EXCEPT ![p] = NoReply]
    /\ UNCHANGED <<now, changes>>

Next ==
    \/ Tick
    \/ \E k \in Key : Change(k)
    \/ \E p \in Proc : ProviderAnswers(p) \/ Return(p) \/ \E k \in Key : Request(p, k)

Spec == Init /\ [][Next]_vars

--------------------------------------------------------------------------------
\* A visitor is shown data that was the provider's less than the cache's life before the visit
\* began, or later, however slow and out of order the provider's answers come.
ServedRecent ==
    served.status = "success" /\ served.ver < Len(changes[served.key])
        => changes[served.key][served.ver + 1] > served.start - Ttl[Kind[served.key]]

================================================================================
