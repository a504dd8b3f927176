------------------------------ MODULE PlaceLocation ------------------------------
(***************************************************************************)
(* Who writes the position of a bus terminal or a ferry port: the bus and  *)
(* port collectors when they store a list (_upsert_terminal, _upsert_port),*)
(* the KOMSA port-call lookup that the port collector makes for its ports, *)
(* the VWorld and Kakao place searches, and an administrator.  Every       *)
(* search is paid for with a receipt row committed before the call, and    *)
(* the receipts of the last day are the budget.                            *)
(***************************************************************************)
EXTENDS Integers, FiniteSets

CONSTANTS
    Proc,       \* workers
    Place,      \* rows
    KindOf,     \* "bus" or "port", by place
    Name,       \* official names
    Target,     \* PORT_CALL_TARGETS: the name a port is looked up under, by place
    Job,        \* the jobs of this instance, out of "tago", "komsa", "vworld", "kakao"
    Overlap,    \* TRUE: a worker may outlive its run and meet the next one
    MaxCalls,   \* searches a day, by provider
    Keep,       \* how long a successful receipt answers for the provider; one day in other cases
    MaxTime,    \* bound: the clock, in days
    MaxReceipts \* bound: receipts

VARIABLES
    now, name, loc,
    receipts,   \* RawApiResponse rows of the searches
    holder,     \* owner of the session lock of a provider
    lost,       \* history: a session lock was lost while its worker went on
    pc, job, left,
    list,       \* the official names a collector fetched
    paid,       \* the receipt of a worker's call; 0 for none
    counted,    \* day_calls of a Kakao run
    found,      \* what the port-call lookups of a run returned, by place
    form        \* what the administrator has on the screen

rowVars == <<name, loc, receipts>>
procVars == <<pc, job, left, list, paid, counted, found>>
vars == <<now, rowVars, holder, lost, procVars, form>>

Nobody == "nobody"
Nothing == "nothing"
Searches == {"vworld", "kakao"}

\* location_source and the name the position was determined for.
NoLoc == [src |-> "none", for |-> Nothing]
Located(src, n) == [src |-> src, for |-> n]

\* RawApiResponse of a search: the provider, the place, the name asked for, when and how it ended.
Receipt == [id: 1..MaxReceipts, prov: {"vworld", "kakao", "komsa"}, place: Place, name: Name,
            at: 0..MaxTime, status: {"pending", "success", "failed", "limited", "denied"}]

Init ==
    /\ now = 0 /\ lost = FALSE /\ receipts = {}
    /\ name \in [Place -> Name]
    /\ loc = [a \in Place |-> NoLoc]
    /\ holder = [s \in Searches |-> Nobody]
    /\ pc = [p \in Proc |-> "idle"]
    /\ job = [p \in Proc |-> "none"]
    /\ left = [p \in Proc |-> {}]
    /\ list = [p \in Proc |-> Nothing]
    /\ paid = [p \in Proc |-> 0]
    /\ counted = [p \in Proc |-> 0]
    /\ found = [p \in Proc |-> [a \in Place |-> "deferred"]]
    /\ form = {}

\* Types of rows, receipts and runs.
TypeOK ==
    /\ now \in 0..MaxTime /\ name \in [Place -> Name] /\ receipts \subseteq Receipt
    /\ \A a \in Place : loc[a].src \in {"none", "manual", "komsa", "vworld", "kakao"}
    /\ pc \in [Proc -> {"idle", "loop", "call", "upsert"}]
    /\ left \in [Proc -> SUBSET Place]
    /\ found \in [Proc -> [Place -> {"deferred", "none", "found"}]]

Tick == now < MaxTime /\ now' = now + 1 /\ UNCHANGED <<rowVars, holder, lost, procVars, form>>

--------------------------------------------------------------------------------
\* Budget: the receipts of a provider in the last day.
Today(prov) == {r \in receipts : r.prov = prov /\ r.at >= now - 1}
Busy == \E p \in Proc : pc[p] # "idle"

OfKind(j) == {a \in Place : KindOf[a] = IF j = "tago" THEN "bus" ELSE "port"}

\* A collector has fetched its list; it looks up the ports listed under their target name.  A search
\* goes over the places by id.
Begin(p, j) ==
    /\ pc[p] = "idle" /\ (Overlap \/ ~ Busy)
    /\ j \in Searches => holder[j] = Nobody
    /\ holder' = IF j \in Searches THEN [holder EXCEPT ![j] = p] ELSE holder
    /\ job' = [job EXCEPT ![p] = j]
    /\ \E l \in IF j \in Searches THEN {Nothing} ELSE [OfKind(j) -> Name] :
           /\ list' = [list EXCEPT ![p] = l]
           /\ left' = [left EXCEPT ![p] = CASE j \in Searches -> Place
                                            [] j = "komsa" -> {a \in OfKind(j) : l[a] = Target[a]}
                                            [] OTHER -> {}]
    /\ counted' = [counted EXCEPT ![p] = IF j = "kakao" THEN Cardinality(Today("kakao")) ELSE 0]
    \* recent_quota_error: a refused key ends a Kakao run before its first search.
    /\ j = "kakao" => ~ \E r \in Today("kakao") : r.status = "limited"
    /\ pc' = [pc EXCEPT ![p] = IF j = "tago" THEN "upsert" ELSE "loop"]
    /\ UNCHANGED <<now, rowVars, lost, paid, found, form>>

\* The run ends and gives its lock back.
End(p) ==
    /\ pc' = [pc EXCEPT ![p] = "idle"]
    /\ job' = [job EXCEPT ![p] = "none"]
    /\ left' = [left EXCEPT ![p] = {}]
    /\ list' = [list EXCEPT ![p] = Nothing]
    /\ paid' = [paid EXCEPT ![p] = 0]
    /\ counted' = [counted EXCEPT ![p] = 0]
    /\ found' = [found EXCEPT ![p] = [a \in Place |-> "deferred"]]
    /\ holder' = [s \in Searches |-> IF holder[s] = p THEN Nobody ELSE holder[s]]

\* The connection that owns the session lock breaks while the run goes on.
LockLost(p) ==
    /\ Overlap
    /\ \E s \in Searches : holder[s] = p /\ holder' = [holder EXCEPT ![s] = Nobody]
    /\ lost' = TRUE
    /\ UNCHANGED <<now, rowVars, procVars, form>>

\* The newest receipt for this place answers for the provider while it is young and the name the
\* same, unless Kakao denied the key (401, 403).
Answered(prov, a, n) ==
    \E r \in receipts :
        /\ r.prov = prov /\ r.place = a /\ r.name = n /\ r.status # "denied"
        /\ \A q \in receipts : q.prov = prov /\ q.place = a => q.id <= r.id
        /\ now - r.at < (IF r.status = "success" THEN Keep ELSE 1)

\* A search is for a place without a position, under a name no other place of its kind has.
Searchable(a) ==
    /\ loc[a].src = "none"
    /\ \A b \in Place \ {a} : KindOf[b] = KindOf[a] => name[b] # name[a]

\* The name a place is looked up under: its own, or the target of a port call.
QueryName(p, a) == IF job[p] = "komsa" THEN Target[a] ELSE name[a]

\* Mutant: VWorld, too, counts only its own calls.
AffordableCounted(p) == counted[p] < MaxCalls
\* The call budget: VWorld and KOMSA count the receipts under a transaction lock, Kakao counts on
\* from the number it read when it started; KOMSA stops for a day after a refusal.
Affordable(p) ==
    CASE job[p] = "kakao" -> counted[p] < MaxCalls
      [] job[p] = "vworld" -> Cardinality(Today("vworld")) < MaxCalls
      [] OTHER -> /\ Cardinality(Today("komsa")) < MaxCalls
                  /\ ~ \E r \in Today("komsa") : r.status = "limited"

Wanted(p, a) == (job[p] = "komsa" \/ Searchable(a)) /\ ~ Answered(job[p], a, QueryName(p, a))

\* A place is passed over: it has a position, shares its name, or a receipt still answers.  A port
\* call that a receipt answers yields what that receipt says.
Skip(p, a) ==
    /\ pc[p] = "loop" /\ a \in left[p] /\ ~ Wanted(p, a)
    /\ left' = [left EXCEPT ![p] = @ \ {a}]
    /\ \E f \in {"none", "found"} :
           found' = [found EXCEPT ![p][a] =
               IF job[p] = "komsa" /\ \E r \in receipts : /\ r.prov = "komsa" /\ r.place = a
                                                           /\ r.status = "success" /\ now - r.at < Keep
               THEN f ELSE "deferred"]
    /\ UNCHANGED <<now, rowVars, holder, lost, pc, job, list, paid, counted, form>>

\* The receipt is committed before the call.
Reserve(p, a) ==
    /\ pc[p] = "loop" /\ a \in left[p] /\ Wanted(p, a) /\ Affordable(p)
    /\ Cardinality(receipts) < MaxReceipts
    /\ receipts' = receipts \union {[id |-> Cardinality(receipts) + 1, prov |-> job[p], place |-> a,
                                     name |-> QueryName(p, a), at |-> now, status |-> "pending"]}
    /\ left' = [left EXCEPT ![p] = @ \ {a}]
    /\ paid' = [paid EXCEPT ![p] = Cardinality(receipts) + 1]
    /\ counted' = [counted EXCEPT ![p] = IF job[p] = "komsa" THEN 0 ELSE @ + 1]
    /\ pc' = [pc EXCEPT ![p] = "call"]
    /\ UNCHANGED <<now, name, loc, holder, lost, job, list, found, form>>

\* No budget: a port run defers the port and goes on, a search run ends here.  Kakao has a budget of
\* a month too: it is not counted here, and may be spent at any time.
Deferred(p, a) ==
    /\ pc[p] = "loop" /\ a \in left[p] /\ Wanted(p, a)
    /\ ~ Affordable(p) \/ job[p] = "kakao"
    /\ IF job[p] = "komsa"
       THEN left' = [left EXCEPT ![p] = @ \ {a}] /\ UNCHANGED <<holder, pc, job, list, paid, counted, found>>
       ELSE End(p)
    /\ UNCHANGED <<now, rowVars, lost, form>>

\* The receipt of this worker's call, with the place and the name it searches.
MyReceipt(p) == CHOOSE r \in receipts : r.id = paid[p]
Marked(p, s) == (receipts \ {MyReceipt(p)}) \union {[MyReceipt(p) EXCEPT !.status = s]}

\* Mutant: the row is not read again after the search.
StoredBlind(p, a) == Located(job[p], MyReceipt(p).name)
\* A found position is stored only if the row, locked and read again, still has none.
Stored(p, a) == IF loc[a].src = "none" THEN Located(job[p], MyReceipt(p).name) ELSE loc[a]

\* The call returns: one matching facility, none, or an incomplete answer.
Answer(p) ==
    /\ pc[p] = "call"
    /\ \E f \in {"none", "found"}, a \in {MyReceipt(p).place} :
           /\ found' = [found EXCEPT ![p][a] = IF job[p] = "komsa" THEN f ELSE @]
           /\ loc' = IF job[p] # "komsa" /\ f = "found"
                     THEN [loc EXCEPT ![a] = Stored(p, a)] ELSE loc
    /\ receipts' = Marked(p, "success")
    /\ paid' = [paid EXCEPT ![p] = 0]
    /\ pc' = [pc EXCEPT ![p] = "loop"]
    /\ UNCHANGED <<now, name, holder, lost, job, left, list, counted, form>>

\* The call fails.  A refusal or a denied key ends a search run; other errors only defer the place.
CallFails(p) ==
    /\ pc[p] = "call"
    /\ \E s \in {"failed", "limited"} \union IF job[p] = "kakao" THEN {"denied"} ELSE {} :
           /\ receipts' = Marked(p, s)
           /\ IF s # "failed" /\ job[p] # "komsa" THEN End(p)
              ELSE /\ pc' = [pc EXCEPT ![p] = "loop"]
                   /\ paid' = [paid EXCEPT ![p] = 0]
                   /\ UNCHANGED <<holder, job, left, list, counted, found>>
    /\ UNCHANGED <<now, name, loc, lost, form>>

\* All places visited.
LoopDone(p) ==
    /\ pc[p] = "loop" /\ left[p] = {}
    /\ IF job[p] = "komsa"
       THEN pc' = [pc EXCEPT ![p] = "upsert"] /\ UNCHANGED <<holder, job, left, list, paid, counted, found>>
       ELSE End(p)
    /\ UNCHANGED <<now, rowVars, lost, form>>

--------------------------------------------------------------------------------
\* Mutant: only automatic positions are cleared.
TerminalLocKeeps(a, n) == IF n = name[a] \/ loc[a].src = "manual" THEN loc[a] ELSE NoLoc
\* _upsert_terminal: a new name clears the position, a manual one included.
TerminalLoc(a, n) == IF n = name[a] THEN loc[a] ELSE NoLoc
\* _upsert_port: a manual position stays under the same name; otherwise a KOMSA position wins, a new
\* name or a verified absence clears, and positions found by a place search survive an absence.
PortLoc(p, a, n) ==
    IF loc[a].src = "manual" /\ n = name[a] THEN loc[a]
    ELSE IF found[p][a] = "found" THEN Located("komsa", n)
    ELSE IF n # name[a] \/ (found[p][a] = "none" /\ loc[a].src \notin Searches) THEN NoLoc
    ELSE loc[a]

\* The collector stores its list in one transaction.
Upsert(p) ==
    /\ pc[p] = "upsert"
    /\ name' = [a \in Place |-> IF a \in OfKind(job[p]) THEN list[p][a] ELSE name[a]]
    /\ loc' = [a \in Place |-> IF a \notin OfKind(job[p]) THEN loc[a]
                               ELSE IF job[p] = "tago" THEN TerminalLoc(a, list[p][a])
                               ELSE PortLoc(p, a, list[p][a])]
    /\ End(p)
    /\ UNCHANGED <<now, receipts, lost, form>>

\* A run fails or its worker dies: nothing but its committed receipts remains.
Abort(p) == pc[p] # "idle" /\ End(p) /\ UNCHANGED <<now, rowVars, lost, form>>

--------------------------------------------------------------------------------
\* The administrator loads a place.
Open ==
    /\ form = {}
    /\ \E a \in Place : form' = {[place |-> a, name |-> name[a], loc |-> loc[a]]}
    /\ UNCHANGED <<now, rowVars, holder, lost, procVars>>

\* Mutant: the name on the screen is not compared.
UnchangedLoc(f) == loc[f.place] = f.loc
\* What the request repeats of the row: the name, the visible position with its source and revision.
Unchanged(f) == name[f.place] = f.name /\ loc[f.place] = f.loc

\* save_manual_place_location: 409 unless the row is as it was shown.
Save ==
    /\ \E f \in form :
           loc' = IF Unchanged(f) THEN [loc EXCEPT ![f.place] = Located("manual", f.name)] ELSE loc
    /\ form' = {}
    /\ UNCHANGED <<now, name, receipts, holder, lost, procVars>>

Next ==
    \/ Tick \/ Open \/ Save
    \/ \E p \in Proc :
           \/ \E j \in Job : Begin(p, j)
           \/ \E a \in Place : Skip(p, a) \/ Reserve(p, a) \/ Deferred(p, a)
           \/ Answer(p) \/ CallFails(p) \/ LoopDone(p) \/ Upsert(p) \/ Abort(p) \/ LockLost(p)

Spec == Init /\ [][Next]_vars

--------------------------------------------------------------------------------
\* A position an administrator entered is replaced only by an administrator, or dropped when the
\* official name changes, however searches and collectors interleave with the edit.
ManualKept ==
    \A a \in Place : loc[a].src = "manual" /\ loc'[a].src # "manual" => name'[a] # name[a]

\* The position a row shows was determined for the name it shows (while runs of the reference group
\* do not overlap; see the hazard on the search that outlives a rename).
LocationMatchesName == ~ Overlap => \A a \in Place : loc[a].src # "none" => loc[a].for = name[a]

\* The searches of any day stay within the budget: VWorld and KOMSA even when two workers overlap,
\* Kakao as long as its session lock is not lost.
BudgetKept ==
    \A prov \in {"vworld", "kakao", "komsa"} :
        (prov = "kakao" /\ lost) \/ Cardinality(Today(prov)) <= MaxCalls

================================================================================
