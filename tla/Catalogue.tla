----------------------------- MODULE Catalogue -----------------------------
(***************************************************************************)
(* The creative catalogue (packages/gateway/src/catalog): creatives made   *)
(* and edited one at a time from the dashboard (creative-admin.ts), files  *)
(* imported by seed-creatives (seed.ts), and the pause button.  Each save  *)
(* or import is one transaction under READ COMMITTED, which checks what it *)
(* read before it writes; what it writes is locked until it ends.          *)
(*                                                                         *)
(* An advertiser is named by its domain, which has a unique index.  Copy   *)
(* stands for the fields of a creative that are hashed with its headline;  *)
(* targeting and price, which no check here reads, are left out, and so is *)
(* who may see which app: a save is by someone who may.                    *)
(***************************************************************************)
EXTENDS Naturals, Sequences, FiniteSets

CONSTANTS
    Writers,        \* saves and imports
    CreativeIds,
    Domains,
    Names,          \* of advertisers
    Headlines,
    Copies,
    Catalogs,       \* the shared one, and the private ones of apps
    Jobs,           \* what the writers may be: functions to [kind, domain, name, catalog, entries]
    Listed,         \* the name of a save that picks its advertiser from the list
    Nobody

Entries == [id : CreativeIds, headline : Headlines, copy : Copies]
CreativeRows ==
    [domain : Domains, catalog : Catalogs, headline : Headlines, copy : Copies, active : BOOLEAN,
     hash : Names \X Headlines \X Copies, began : Nat, written : Nat]

ASSUME CatalogueAssumption ==
    /\ Listed \notin Names /\ Nobody \notin Names \cup CreativeIds \cup CreativeRows \cup {Listed}
    /\ \A j \in Jobs : j \in [Writers ->
           [kind : {"create", "update", "seed"}, domain : Domains, name : Names \cup {Listed},
            catalog : Catalogs, entries : Seq(Entries)]]
    \* The editor saves one creative, and a file names its advertisers.
    /\ \A j \in Jobs, w \in Writers :
           IF j[w].kind = "seed" THEN j[w].name \in Names ELSE Len(j[w].entries) = 1
    \* creativeId: what would be inserted has an id of its own.
    /\ \A j \in Jobs, v, w \in Writers :
           \A i \in DOMAIN j[v].entries, k \in DOMAIN j[w].entries :
               "update" \notin {j[v].kind, j[w].kind} /\ j[v].entries[i].id = j[w].entries[k].id
                   => v = w /\ i = k

VARIABLES
    advertisers,    \* the name registered for each domain, or Nobody
    creatives,      \* rows: [domain, catalog, headline, copy, active, hash, began, written]
    job,            \* what each writer saves
    writer,         \* its transaction: [pc, name, known, next, found, existing, began,
                    \* renames, rows]
    commits,        \* history: transactions that wrote
    renamed         \* history: domains whose advertiser an import renamed

catalogueVars == <<advertisers, creatives, job, writer, commits, renamed>>

-----------------------------------------------------------------------------
NoRows == [c \in CreativeIds |-> Nobody]

CatalogueInit ==
    /\ advertisers = [d \in Domains |-> Nobody]
    /\ creatives = NoRows
    /\ job \in Jobs
    /\ writer = [w \in Writers |->
           [pc |-> "ready", name |-> job[w].name, known |-> Nobody, next |-> 1,
            found |-> Nobody, existing |-> Nobody, began |-> 0, renames |-> FALSE, rows |-> NoRows]]
    /\ commits = 0
    /\ renamed = {}

Entry(w) == job[w].entries[writer[w].next]

\* creativeContentHash, over the advertiser's name and the copy.
ContentHash(name, entry) == <<name, entry.headline, entry.copy>>

\* (advertiser, headline) within one catalogue.
Key(row) == <<row.domain, row.headline, row.catalog>>
KeyOf(w, entry) == <<job[w].domain, entry.headline, job[w].catalog>>

\* creativeValues; a row remembers when the transaction that gave it its key
\* began and ended, which is not known before its commit.  An import that gives
\* a row back the key it found it under goes on from the giving it found.
Row(w, entry, old, end) ==
    LET kept == old # Nobody /\ Key(old) = KeyOf(w, entry) IN
    [domain |-> job[w].domain, catalog |-> job[w].catalog, headline |-> entry.headline,
     copy |-> entry.copy, active |-> TRUE, hash |-> ContentHash(writer[w].name, entry),
     began |-> IF kept THEN old.began
               ELSE IF writer[w].found # Nobody THEN writer[w].existing.began
               ELSE writer[w].began,
     written |-> IF kept THEN old.written ELSE end]

Open == 0

Step(w, pc) == [writer EXCEPT ![w].pc = pc]

\* Rows that an open import has written.
Locked(c, w) == \E other \in Writers \ {w} : writer[other].rows[c] # Nobody
NameLocked(d, w) == \E other \in Writers \ {w} : job[other].domain = d /\ writer[other].renames

-----------------------------------------------------------------------------
(* Saving one creative from the editor.                                    *)

\* The action reads the list of advertisers, and the form is checked against it.
ReadForm(w) ==
    LET registered == advertisers[job[w].domain] picked == job[w].name = Listed IN
    /\ writer[w].pc = "ready" /\ job[w].kind \in {"create", "update"}
    /\ writer' = IF \/ picked /\ registered = Nobody
                    \/ ~picked /\ registered \notin {Nobody, job[w].name}
                    \/ job[w].kind = "update" /\ creatives[Entry(w).id] = Nobody
                 THEN Step(w, "refused")
                 ELSE [writer EXCEPT ![w].pc = "advertiser",
                                     ![w].name = IF picked THEN registered ELSE @]
    /\ UNCHANGED <<advertisers, creatives, job, commits, renamed>>

\* Variant: a known domain is taken whatever its name.
AnyName(w, registered) == TRUE
SameName(w, registered) == registered \in {Nobody, writer[w].name}

\* findAdvertiser, in the transaction.
FindAdvertiser(w) ==
    LET registered == advertisers[job[w].domain] IN
    /\ writer[w].pc = "advertiser" /\ job[w].kind # "seed"
    /\ writer' = IF SameName(w, registered)
                 THEN [writer EXCEPT ![w].pc = IF registered = Nobody THEN "write" ELSE "headline",
                                     ![w].known = registered, ![w].began = commits]
                 ELSE Step(w, "refused")
    /\ UNCHANGED <<advertisers, creatives, job, commits, renamed>>

Holders(w) == {c \in CreativeIds : creatives[c] # Nobody /\ Key(creatives[c]) = KeyOf(w, Entry(w))}

\* headlineOwner: who else holds the key.
HeadlineOwners(w) == Holders(w) \ (IF job[w].kind = "update" THEN {Entry(w).id} ELSE {})

CheckHeadline(w) ==
    /\ writer[w].pc = "headline"
    /\ writer' = Step(w, IF HeadlineOwners(w) = {} THEN "write" ELSE "refused")
    /\ UNCHANGED <<advertisers, creatives, job, commits, renamed>>

\* Variant: a domain registered meanwhile is taken as it is.
NeverTaken(w) == FALSE
\* The unique index on the domain refuses an advertiser registered meanwhile.
DomainTaken(w) == writer[w].known = Nobody /\ advertisers[job[w].domain] # Nobody

\* insertAdvertiser, the insert or update of the creative, and COMMIT.
SaveCreative(w) ==
    LET entry == Entry(w) IN
    /\ writer[w].pc = "write" /\ job[w].kind # "seed"
    /\ ~Locked(entry.id, w)
    /\ writer[w].known = Nobody => ~NameLocked(job[w].domain, w)
    /\ IF DomainTaken(w)
       THEN /\ writer' = Step(w, "thrown")
            /\ UNCHANGED <<advertisers, creatives, commits>>
       ELSE /\ advertisers' = IF advertisers[job[w].domain] = Nobody
                              THEN [advertisers EXCEPT ![job[w].domain] = writer[w].name]
                              ELSE advertisers
            /\ creatives' = [creatives EXCEPT ![entry.id] = Row(w, entry, @, commits + 1)]
            /\ commits' = commits + 1
            /\ writer' = Step(w, "saved")
    /\ UNCHANGED <<job, renamed>>

-----------------------------------------------------------------------------
(* seed-creatives: one transaction for the file.                           *)

SeedFindAdvertiser(w) ==
    /\ writer[w].pc = "ready" /\ job[w].kind = "seed"
    /\ writer' = [writer EXCEPT ![w].pc = "advertiser", ![w].known = advertisers[job[w].domain],
                                ![w].began = commits]
    /\ UNCHANGED <<advertisers, creatives, job, commits, renamed>>

\* upsertAdvertisers: a name of its own is what the file says.
SeedAdvertiser(w) ==
    /\ writer[w].pc = "advertiser" /\ job[w].kind = "seed"
    /\ IF writer[w].known = writer[w].name
       THEN writer' = Step(w, "find")
       ELSE /\ ~NameLocked(job[w].domain, w)
            /\ writer' = IF DomainTaken(w) THEN Step(w, "thrown")
                         ELSE [writer EXCEPT ![w].pc = "find", ![w].renames = TRUE]
    /\ UNCHANGED <<advertisers, creatives, job, commits, renamed>>

\* What the import sees: the table, under what it has written itself.
Seen(w, c) == IF writer[w].rows[c] # Nobody THEN writer[w].rows[c] ELSE creatives[c]

SeedFind(w) ==
    LET found == {c \in CreativeIds : Seen(w, c) # Nobody /\ Key(Seen(w, c)) = KeyOf(w, Entry(w))} IN
    /\ writer[w].pc = "find" /\ writer[w].next <= Len(job[w].entries)
    /\ \E c \in IF found = {} THEN {Nobody} ELSE found :
           writer' = [writer EXCEPT ![w].pc = "upsert", ![w].found = c,
                          ![w].existing = IF c = Nobody THEN Nobody ELSE Seen(w, c)]
    /\ UNCHANGED <<advertisers, creatives, job, commits, renamed>>

\* creativeMatches, of the row as it was read.
Matches(w, row) ==
    row.active /\ row.copy = Entry(w).copy /\ row.hash = ContentHash(writer[w].name, Entry(w))

\* upsertCreative: an insert, nothing, or an update in place.
SeedUpsert(w) ==
    LET c == IF writer[w].found = Nobody THEN Entry(w).id ELSE writer[w].found
        unchanged == writer[w].found # Nobody /\ Matches(w, writer[w].existing)
    IN /\ writer[w].pc = "upsert"
       /\ unchanged \/ ~Locked(c, w)
       /\ writer' = [writer EXCEPT ![w].pc = "find", ![w].next = @ + 1,
              ![w].found = Nobody, ![w].existing = Nobody,
              ![w].rows[c] = IF unchanged THEN @ ELSE Row(w, Entry(w), Seen(w, c), Open)]
       /\ UNCHANGED <<advertisers, creatives, job, commits, renamed>>

SeedCommit(w) ==
    LET d == job[w].domain wrote == {c \in CreativeIds : writer[w].rows[c] # Nobody} IN
    /\ writer[w].pc = "find" /\ writer[w].next > Len(job[w].entries)
    /\ advertisers' = IF writer[w].renames THEN [advertisers EXCEPT ![d] = writer[w].name]
                      ELSE advertisers
    /\ renamed' = IF writer[w].renames /\ advertisers[d] # Nobody THEN renamed \cup {d} ELSE renamed
    /\ creatives' = [c \in CreativeIds |->
           IF c \in wrote THEN [writer[w].rows[c] EXCEPT
               !.written = IF @ = Open THEN commits + 1 ELSE @] ELSE creatives[c]]
    /\ commits' = commits + 1
    /\ writer' = [writer EXCEPT ![w].pc = "saved", ![w].rows = NoRows, ![w].renames = FALSE]
    /\ UNCHANGED job

\* A bad entry, a lost connection, a deadlock victim: nothing is written.
Abort(w) ==
    /\ writer[w].pc \in {"advertiser", "headline", "write", "find", "upsert"}
    /\ writer' = [writer EXCEPT ![w].pc = "thrown", ![w].rows = NoRows, ![w].renames = FALSE]
    /\ UNCHANGED <<advertisers, creatives, job, commits, renamed>>

\* setCreativeActive: one UPDATE of one row.
SetCreativeActive(c, active) ==
    /\ creatives[c] # Nobody /\ \A w \in Writers : writer[w].rows[c] = Nobody
    /\ creatives' = [creatives EXCEPT ![c].active = active]
    /\ UNCHANGED <<advertisers, job, writer, commits, renamed>>

CatalogueNext ==
    \/ \E w \in Writers :
           \/ ReadForm(w) \/ FindAdvertiser(w) \/ CheckHeadline(w) \/ SaveCreative(w)
           \/ SeedFindAdvertiser(w) \/ SeedAdvertiser(w) \/ SeedFind(w) \/ SeedUpsert(w)
           \/ SeedCommit(w) \/ Abort(w)
    \/ \E c \in CreativeIds, active \in BOOLEAN : SetCreativeActive(c, active)

CatalogueSpec == CatalogueInit /\ [][CatalogueNext]_catalogueVars

-----------------------------------------------------------------------------
(* Properties.                                                             *)

Live == {c \in CreativeIds : creatives[c] # Nobody}

\* creative-admin.ts, rule 1: a creative is stored under the hash of the row
\* its advertiser is joined to, whoever registered the domain first; only an
\* import that renames the advertiser leaves hashes behind.
HashesFollowAdvertiser ==
    \A c \in Live : creatives[c].domain \notin renamed =>
        creatives[c].hash = <<advertisers[creatives[c].domain], creatives[c].headline, creatives[c].copy>>

\* creative-admin.ts, rule 2, as far as it goes: two creatives hold one key
\* only when they were given it at overlapping times.
SharedKeysOverlapped ==
    \A c, d \in Live :
        c # d /\ Key(creatives[c]) = Key(creatives[d]) =>
            creatives[c].began < creatives[d].written /\ creatives[d].began < creatives[c].written

\* The two together: what a creative says of itself and what the catalogue
\* promises of any two.
CatalogueConsistent == HashesFollowAdvertiser /\ SharedKeysOverlapped
=============================================================================
