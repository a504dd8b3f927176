---------------------------- MODULE RailMapping ----------------------------
(***************************************************************************)
(* Links between KRIC station codes and rail stations.  The batch replaces *)
(* the code catalogue and the automatic part of the registry, keeping the  *)
(* manual part.  Administrators save a whole manual list, or apply the     *)
(* automatic links again, against the revision their page was shown.  The  *)
(* revision is of the whole list, but a page shows only the links of codes *)
(* that the catalogue still has.  The rail collection adds stations.       *)
(* code.rail_station_id is the link that exports read.                     *)
(***************************************************************************)
EXTENDS FiniteSets, Functions

CONSTANTS
    Admin,      \* open administrator pages
    Code,       \* provider_key of a KRIC station code
    Place,      \* identity_key of a RailStationReference
    CodeName, PlaceName,     \* _composite_match_key
    CodeNumber, PlaceNumber, \* station number and normalized name
    Alias       \* composite keys made by an operator alias

VARIABLES
    active,       \* codes with active = TRUE
    link,         \* rail_station_id of each code
    known,        \* stored rail stations
    auto, manual, \* KricStationMappingRegistry
    reading,      \* stations the running batch read; {} when none runs
    batch,        \* a batch holds the KRIC lease
    shown,        \* revision and manual links a page was shown
    offered,      \* automatic candidate a page was shown
    pages         \* pages open

vars == <<active, link, known, auto, manual, reading, batch, shown, offered, pages>>

None == "none"
Empty == [c \in Code |-> None]
NoRevision == <<>>

Init ==
    /\ active = {} /\ known = {} /\ reading = {} /\ batch = FALSE /\ pages = {}
    /\ link = Empty /\ auto = Empty /\ manual = Empty
    /\ shown = [a \in Admin |-> NoRevision]
    /\ offered = [a \in Admin |-> Empty]

Links == [Code -> Place \union {None}]

\* Types of the registry, of the links and of the pages.
TypeOK ==
    /\ active \subseteq Code /\ known \subseteq Place /\ reading \subseteq known /\ batch \in BOOLEAN
    /\ link \in Links /\ auto \in Links /\ manual \in Links
    /\ pages \subseteq Admin /\ offered \in [Admin -> Links]

--------------------------------------------------------------------------------
\* automatic_station_mappings: the unique exact names first, then a unique number and name
\* whose station no exact name took.
Exact(codes, places, c) ==
    {q \in places : /\ PlaceName[q] = CodeName[c]
                    /\ \A d \in codes \ {c} : CodeName[d] # CodeName[c]
                    /\ \A r \in places \ {q} : PlaceName[r] # PlaceName[q]}

AmbiguousAlias(codes, places, c) ==
    /\ CodeName[c] \in Alias
    /\ \/ \E d \in codes \ {c} : CodeName[d] = CodeName[c]
       \/ Cardinality({q \in places : PlaceName[q] = CodeName[c]}) > 1

ByNumber(codes, places, c) ==
    {q \in places : /\ PlaceNumber[q] = CodeNumber[c]
                    /\ Exact(codes, places, c) = {} /\ ~ AmbiguousAlias(codes, places, c)
                    /\ \A d \in codes \ {c} : CodeNumber[d] # CodeNumber[c]
                    /\ \A r \in places \ {q} : PlaceNumber[r] # PlaceNumber[q]
                    /\ \A d \in codes : q \notin Exact(codes, places, d)}

Automatic(codes, places) ==
    [c \in Code |->
        LET found == Exact(codes, places, c) \union ByNumber(codes, places, c)
        IN  IF c \in codes /\ found # {} THEN CHOOSE q \in found : TRUE ELSE None]

\* Mutant: an automatic link takes a station a manual link reserved.
EffectiveUnreserved(codes, places, a, m) ==
    [c \in Code |-> IF c \notin codes THEN None ELSE IF m[c] \in places THEN m[c] ELSE a[c]]
\* effective_station_mappings: the manual links reserve their stations.
Effective(codes, places, a, m) ==
    LET fixed == {c \in codes : m[c] \in places}
        reserved == {m[c] : c \in fixed}
    IN  [c \in Code |-> CASE c \in fixed -> m[c]
                          [] c \in codes \ fixed /\ a[c] \notin reserved -> a[c]
                          [] OTHER -> None]

\* load_kric_station_mapping: an empty automatic part is computed on reading.
LoadedAuto == IF auto = Empty THEN Automatic(active, known) ELSE auto

\* Mutant: the revision leaves out the manual list.
RevisionNoManual(a) == <<active, a, known>>
\* mapping_revision over the catalogue, the stations and both parts of the registry.
Revision(a) == <<active, a, manual, known>>

--------------------------------------------------------------------------------
\* A batch takes the lease and reads the stations, before the registry lock.
SyncRead ==
    /\ ~ batch
    /\ batch' = TRUE /\ reading' = known
    /\ UNCHANGED <<active, link, known, auto, manual, shown, offered, pages>>

\* _sync_codes under the registry lock, with the stations read before it.
SyncCommit ==
    /\ batch
    /\ \E codes \in SUBSET Code \ {{}} :
           /\ active' = codes
           /\ auto' = Automatic(codes, reading)
           /\ link' = Effective(codes, reading, Automatic(codes, reading), manual)
    /\ batch' = FALSE /\ reading' = {}
    /\ UNCHANGED <<known, manual, shown, offered, pages>>

SyncFails ==
    /\ batch
    /\ batch' = FALSE /\ reading' = {}
    /\ UNCHANGED <<active, link, known, auto, manual, shown, offered, pages>>

\* The rail collection stores a station it had not seen, under the catalogue lock.
UpsertStation ==
    /\ \E q \in Place \ known : known' = known \union {q}
    /\ UNCHANGED <<active, link, auto, manual, reading, batch, shown, offered, pages>>

\* visible_manual: the links of a list that a page shows; those of other codes or stations stay in
\* the list, and out of sight.
Visible(codes, places, m) ==
    [c \in Code |-> IF c \in codes /\ m[c] \in places THEN m[c] ELSE None]

\* get_rail_station_mappings, or the preview, which reads the stored automatic part only.
Open(a) ==
    /\ a \notin pages
    /\ pages' = pages \union {a}
    /\ \E read \in {LoadedAuto, auto} :
           shown' = [shown EXCEPT ![a] = <<Revision(read), Visible(active, known, manual)>>]
    /\ offered' = [offered EXCEPT ![a] = Automatic(active, known)]
    /\ UNCHANGED <<active, link, known, auto, manual, reading, batch>>

Leave(a) ==
    /\ a \in pages
    /\ pages' = pages \ {a}
    /\ shown' = [shown EXCEPT ![a] = NoRevision]
    /\ offered' = [offered EXCEPT ![a] = Empty]
    /\ UNCHANGED <<active, link, known, auto, manual, reading, batch>>

\* validate_manual_mappings: active codes, stored stations, none of them twice.
ValidManual == {m \in Links :
    /\ \A c \in Code : m[c] # None => c \in active /\ m[c] \in known
    /\ IsInjective([c \in {d \in Code : m[d] # None} |-> m[c]])}

\* save_rail_station_mappings: the list replaces the manual part and every link is set again.
Save(a) ==
    /\ a \in pages /\ shown[a][1] = Revision(LoadedAuto)
    /\ \E m \in ValidManual :
           /\ manual' = m
           /\ link' = Effective(active, known, LoadedAuto, m)
    /\ auto' = LoadedAuto
    /\ pages' = pages \ {a}
    /\ shown' = [shown EXCEPT ![a] = NoRevision]
    /\ offered' = [offered EXCEPT ![a] = Empty]
    /\ UNCHANGED <<active, known, reading, batch>>

\* build_automatic_mapping_plan: a stored link that differs from the registry blocks.
CanApply == active # {} /\ known # {} /\ link = Effective(active, known, auto, manual)

\* apply_automatic_station_mappings: refused while a batch holds the lease.
Apply(a) ==
    /\ a \in pages /\ ~ batch /\ CanApply
    /\ shown[a][1] = Revision(auto) /\ offered[a] = Automatic(active, known)
    /\ offered[a] # auto
    /\ auto' = offered[a]
    /\ link' = Effective(active, known, offered[a], manual)
    /\ pages' = pages \ {a}
    /\ shown' = [shown EXCEPT ![a] = NoRevision]
    /\ offered' = [offered EXCEPT ![a] = Empty]
    /\ UNCHANGED <<active, known, manual, reading, batch>>

Next ==
    \/ SyncRead \/ SyncCommit \/ SyncFails \/ UpsertStation
    \/ \E a \in Admin : Open(a) \/ Leave(a) \/ Save(a) \/ Apply(a)

Spec == Init /\ [][Next]_vars

--------------------------------------------------------------------------------
\* No station has two codes, and a link comes from the registry's entry for its code.
LinksExclusive ==
    /\ \A c, d \in Code : link[c] # None /\ link[c] = link[d] => c = d
    /\ \A c \in Code : link[c] \in {None, auto[c], manual[c]}

\* A manual link that a page would show is changed or dropped only by an administrator whose page
\* showed it.  (One of a code that the catalogue does not have now is dropped unseen by any save.)
NoLostEdit ==
    \A c \in Code :
        /\ Visible(active, known, manual)[c] # None
        /\ manual'[c] # manual[c]
        => \E a \in pages \ pages' : shown[a][2][c] = manual[c]

================================================================================
