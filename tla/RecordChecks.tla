---------------------------- MODULE RecordChecks ----------------------------
(* The documents of one app's log: how a record is built, hashed, chained  *)
(* and signed (packages/core/src/audit), signed again under a later key by *)
(* an attestation, and judged by the eight checks of GET /v1/verify/:id.   *)
(* Around them, the operator rotates the signing key while gateways and    *)
(* dashboards booted earlier go on, an advertiser's creative is edited,    *)
(* and a row of the table is changed outside the gateway.                  *)
(*                                                                         *)
(* A hash is <<"sha256", what was hashed>> and a signature the pair of a   *)
(* key and the hash it signs; keys are numbered in the order of their use. *)
(* Of the body, `creative` and `label` are kept, which checks read;        *)
(* `output` stands for attested_at too.  All rows are of one app.          *)
(* Deletions are in Retention and ChainVerify.                             *)
EXTENDS Integers, Sequences

CONSTANTS
    Gateways, Dashboards,   \* the processes that verify; gateways also sign
    Creatives,              \* creatives
    MaxEdits,               \* bound: edits of each; what it says is numbered
    Label, Blank,           \* a disclosure label, and one of white space only
    Output,                 \* the hash of a model's answer
    Null,                   \* null
    GENESIS,                \* the prev_hash of an app's first record
    MaxRecords,             \* bound: rows
    MaxKeys                 \* bound: signing keys the operator goes through

ASSUME RecordAssumption ==
    /\ Gateways \cap Dashboards = {} /\ Label # Blank /\ Output # Null
    /\ MaxRecords \in Nat /\ MaxEdits \in Nat /\ MaxKeys \in Nat \ {0}

VARIABLES
    records,    \* audit_records by seq: lookup columns and the document
    stored,     \* table creatives: what each says now
    config,     \* the environment: the signing key, ADGATE_PUBLIC_KEYS_JSON
    instance,   \* each process: the key it signs with, the ring it loaded
    written,    \* by seq, the document as the gateway wrote it
    booted      \* the signing key in use when each process booted

recordVars == <<records, stored, config, instance, written, booted>>

-----------------------------------------------------------------------------
(* Keys: what a process loads once, when it boots.                         *)

LoadSigningKeys == [signing |-> config.key, ring |-> config.listed \cup {config.key}]

(* The private key need not be in a dashboard's environment.               *)
LoadVerifyKeys(hasPrivate) ==
    [signing |-> Null,
     ring |-> config.listed \cup (IF hasPrivate THEN {config.key} ELSE {})]

Boot(p) ==
    /\ \/ p \in Gateways /\ instance' = [instance EXCEPT ![p] = LoadSigningKeys]
       \/ /\ p \in Dashboards
          /\ \E h \in BOOLEAN : instance' = [instance EXCEPT ![p] = LoadVerifyKeys(h)]
    /\ booted' = [booted EXCEPT ![p] = config.key]
    /\ UNCHANGED <<records, stored, config, written>>

(* A rotation keeps the old public key, and may list the new one at once.  *)
Rotate ==
    /\ config.key < MaxKeys
    /\ \E also \in SUBSET {config.key + 1} :
           config' = [key |-> config.key + 1, listed |-> config.listed \cup {config.key} \cup also]
    /\ UNCHANGED <<records, stored, instance, written, booted>>

RingVerify(ring, hash, signature, key_id) == key_id \in ring /\ signature = <<key_id, hash>>

-----------------------------------------------------------------------------
(* Building, hashing and signing.                                          *)

Without(doc, fields) == [f \in DOMAIN doc \ fields |-> doc[f]]
With(doc, more) ==
    [f \in DOMAIN doc \cup DOMAIN more |-> IF f \in DOMAIN more THEN more[f] ELSE doc[f]]
UnsignedOf(doc) == Without(doc, {"record_hash", "signature"})
ComputeRecordHash(doc) == <<"sha256", UnsignedOf(doc)>>

SignRecord(doc, key) ==
    LET unsigned == [UnsignedOf(doc) EXCEPT !.key_id = key]
        hash == ComputeRecordHash(unsigned)
    IN  With(unsigned, [record_hash |-> hash, signature |-> <<key, hash>>])

LastSeq == Len(records)
NextPrevHash == IF LastSeq = 0 THEN GENESIS ELSE records[LastSeq].hash
CreativeContentHash(c) == stored[c]

(* What a turn's record says; `selected` is Null when the turn suppressed. *)
BuildAuditBody(id, selected) ==
    [id |-> id, label |-> Label, output |-> Null, separation |-> FALSE, supersedes |-> Null,
     decision |-> IF selected = Null THEN "suppress" ELSE "serve",
     creative |-> IF selected = Null THEN Null ELSE <<selected, CreativeContentHash(selected)>>]

BuildAuditRecord(id, selected, key) ==
    SignRecord(With(BuildAuditBody(id, selected), [prev |-> NextPrevHash, key_id |-> key]), key)

IsAttested(doc) == doc.separation /\ doc.output # Null
IsUnattested(doc) == ~doc.separation /\ doc.output = Null /\ doc.supersedes = Null

AttestedRecord(doc, key) ==
    SignRecord([doc EXCEPT !.output = Output, !.separation = TRUE,
                           !.supersedes = doc.record_hash, !.prev = NextPrevHash], key)

Row(id, doc, supersedes) ==
    [id |-> id, hash |-> doc.record_hash, supersedes |-> supersedes, latest |-> TRUE, doc |-> doc]

-----------------------------------------------------------------------------
(* What becomes of the table.                                              *)

Add(rows, row) ==
    /\ LastSeq < MaxRecords
    /\ records' = Append(rows, row)
    /\ written' = Append(written, row.doc)
    /\ UNCHANGED <<stored, config, instance, booted>>

(* The seq the row gets serves as its turn's id, which nobody has drawn.   *)
Evaluate(p, selected) ==
    LET id == LastSeq + 1
    IN  Add(records, Row(id, BuildAuditRecord(id, selected, instance[p].signing), Null))

(* attest() refuses a document the schema rejects, and one attested.       *)
Parses(doc) == doc.decision = "serve" <=> doc.creative # Null

Attest(p, n) ==
    LET current == records[n]
    IN  /\ current.latest /\ current.supersedes = Null
        /\ IsUnattested(current.doc) /\ Parses(current.doc)
        /\ Add([records EXCEPT ![n].latest = FALSE],
               Row(current.id, AttestedRecord(current.doc, instance[p].signing), current.hash))

EditCreative(c) ==
    /\ stored[c] < MaxEdits /\ stored' = [stored EXCEPT ![c] = @ + 1]
    /\ UNCHANGED <<records, config, instance, written, booted>>

(* External: somebody changes a document in the table, once: one field of  *)
(* it, with its record_hash left or brought up to date, or all of it for   *)
(* another row's.  Nobody else can sign.                                   *)
Values(f) ==
    CASE f = "decision" -> {"serve", "suppress"}
      [] f = "creative" -> (Creatives \X (0 .. MaxEdits)) \cup {Null}
      [] f = "label" -> {Label, Blank}
      [] f = "output" -> {Output, Null}
      [] f = "separation" -> BOOLEAN
      [] f \in {"supersedes", "prev"} ->
             {records[n].hash : n \in DOMAIN records} \cup {Null, GENESIS}
      [] f = "key_id" -> 1 .. MaxKeys
      [] OTHER -> {}

Edits(doc) ==
    LET changed == UNION {{[doc EXCEPT ![f] = v] : v \in Values(f)} : f \in DOMAIN doc}
    IN  changed \cup {[d EXCEPT !.record_hash = ComputeRecordHash(d)] : d \in changed}

Unaltered == \A n \in DOMAIN records : records[n].doc = written[n]
Alter(n) ==
    /\ Unaltered
    /\ \E doc \in Edits(records[n].doc) \cup {records[m].doc : m \in DOMAIN records} :
           doc # written[n] /\ records' = [records EXCEPT ![n].doc = doc]
    /\ UNCHANGED <<stored, config, instance, written, booted>>

-----------------------------------------------------------------------------
(* The checks, as verify.ts runs them over a document and its context.     *)

CheckRecordHash(doc) == ComputeRecordHash(doc) = doc.record_hash
CheckChain(doc, prevRecord) ==
    IF doc.prev = GENESIS THEN prevRecord = Null
    ELSE prevRecord # Null /\ prevRecord.record_hash = doc.prev
CheckSignature(doc, ring) == RingVerify(ring, doc.record_hash, doc.signature, doc.key_id)
CheckCreativeHash(doc, storedCreativeHash) ==
    doc.creative = Null \/ doc.creative[2] = storedCreativeHash
CheckDisclosure(doc) == doc.label # Blank

AttestsRecord(doc, by) ==
    /\ by # Null
    /\ by.supersedes = doc.record_hash /\ by.id = doc.id /\ IsAttested(by)
CheckSeparation(doc, supersededBy) ==
    \/ IsAttested(doc)
    \/ IsUnattested(doc) /\ (AttestsRecord(doc, supersededBy) \/ doc.decision = "suppress")

(* A superseded record supersedes nothing, so its own eighth check is      *)
(* "not applicable": these seven are all of its verification.              *)
SevenChecks(doc, ring, ctx) ==
    /\ Parses(doc)
    /\ CheckRecordHash(doc)
    /\ CheckChain(doc, ctx.prevRecord)
    /\ CheckSignature(doc, ring)
    /\ CheckCreativeHash(doc, ctx.storedCreativeHash)
    /\ CheckDisclosure(doc)
    /\ CheckSeparation(doc, ctx.supersededBy)

ATTESTATION_FIELDSVariant ==
    {"output", "separation", "supersedes", "prev", "record_hash", "signature"}
ATTESTATION_FIELDS ==
    {"output", "separation", "supersedes", "prev", "key_id", "record_hash", "signature"}
AttestedBodyOf(doc) == Without(doc, ATTESTATION_FIELDS)

NestedContext(doc, ctx) ==
    [prevRecord |-> ctx.itsPrevRecord, storedCreativeHash |-> ctx.storedCreativeHash,
     supersededBy |-> doc]

CheckSupersedes(doc, ring, ctx) ==
    doc.supersedes # Null =>
        LET prior == ctx.supersededRecord
        IN  /\ prior # Null
            /\ prior.record_hash = doc.supersedes /\ prior.id = doc.id
            /\ prior.supersedes = Null
            /\ AttestedBodyOf(prior) = AttestedBodyOf(doc)
            /\ SevenChecks(prior, ring, NestedContext(doc, ctx))

-----------------------------------------------------------------------------
(* The context a row is verified in, read from the table.                  *)

DocAt(n) == IF n \in DOMAIN records THEN records[n].doc ELSE Null
WithHash(h) == {n \in DOMAIN records : records[n].hash = h}
LatestAttestation(row) ==
    {n \in DOMAIN records : records[n].latest /\ records[n].id = row.id
                            /\ records[n].supersedes = row.hash /\ ~row.latest}
DocIn(S) == IF S = {} THEN Null ELSE records[CHOOSE n \in S : TRUE].doc
CreativeHash(doc) == IF doc.creative = Null THEN Null ELSE CreativeContentHash(doc.creative[1])

BuildVerifyContext(n) ==
    LET doc == records[n].doc
        superseded == WithHash(doc.supersedes)
    IN  [prevRecord |-> DocAt(n - 1),
         storedCreativeHash |-> CreativeHash(doc),
         supersededRecord |-> DocIn(superseded),
         itsPrevRecord |-> DocIn({m \in DOMAIN records : m + 1 \in superseded}),
         supersededBy |-> DocIn(LatestAttestation(records[n]))]

Valid(p, n) ==
    LET ctx == BuildVerifyContext(n)
        doc == records[n].doc
    IN  SevenChecks(doc, instance[p].ring, ctx) /\ CheckSupersedes(doc, instance[p].ring, ctx)

-----------------------------------------------------------------------------
(* External: the deployment.                                               *)
RecordInit ==
    /\ records = <<>> /\ written = <<>>
    /\ stored = [c \in Creatives |-> 0]
    /\ config = [key |-> 1, listed |-> {}]
    /\ instance = [p \in Gateways \cup Dashboards |->
                      IF p \in Gateways THEN LoadSigningKeys ELSE LoadVerifyKeys(FALSE)]
    /\ booted = [p \in Gateways \cup Dashboards |-> 1]

RecordNext ==
    \/ \E p \in Gateways :
           \/ \E s \in Creatives \cup {Null} : Evaluate(p, s)
           \/ \E n \in DOMAIN records : Attest(p, n)
    \/ \E p \in Gateways \cup Dashboards : Boot(p)
    \/ Rotate
    \/ \E c \in Creatives : EditCreative(c)
    \/ \E n \in DOMAIN records : Alter(n)

RecordSpec == RecordInit /\ [][RecordNext]_recordVars

-----------------------------------------------------------------------------
(* What a verdict rests on: the row, the one before it, the version it     *)
(* replaces and the one that replaces it, and those before these.          *)
Replaced(n) == WithHash(records[n].supersedes)
Replacing(n) == {m \in DOMAIN records : records[m].supersedes = records[n].hash}
About(n) == {n} \cup Replaced(n) \cup Replacing(n)
Neighbours(n) == About(n) \cup {m \in DOMAIN records : m + 1 \in About(n)}

(* The version its document names, which is another than the row replaces  *)
(* when that row had been given another's document before it was attested. *)
Named(n) == WithHash(records[n].doc.supersedes)
AsWritten(n) == records[n].doc = written[n]

(* A gateway knows the keys used until it booted, a dashboard those that   *)
(* had been replaced by then.                                              *)
Known(p, n) ==
    IF p \in Gateways THEN written[n].key_id <= booted[p] ELSE written[n].key_id < booted[p]

(* Verification tells the truth (docs/audit.md "Verification checks"), for *)
(* every row, at every process, across attestations, key rotations and     *)
(* restarts: a row found valid is as the gateway wrote it, and so is the   *)
(* version its document names; and a row that is, among neighbours that    *)
(* are, is found valid exactly when its creative still says what was shown *)
(* and it is attested, by itself or by a later version, or showed nothing. *)
VerifyTellsTheTruth ==
    \A p \in Gateways \cup Dashboards, n \in DOMAIN records :
        LET valid == Valid(p, n)
            doc == written[n]
        IN  /\ valid => \A m \in {n} \cup Named(n) : AsWritten(m)
            /\ /\ \A m \in Neighbours(n) : AsWritten(m)
               /\ \A m \in {n} \cup Replaced(n) : Known(p, m)
               => (valid <=> /\ doc.creative # Null => doc.creative[2] = stored[doc.creative[1]]
                             /\ doc.decision = "suppress" \/ About(n) # {n})
=============================================================================
