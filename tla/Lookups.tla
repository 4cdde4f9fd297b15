------------------------------- MODULE Lookups -------------------------------
(***************************************************************************)
(* The two lookups a record of device.metrics needs: the schema it was     *)
(* written with (pkg/schema: two caches over the schema registry) and the  *)
(* device it is about (services/processor/enricher.go: a cache with a TTL  *)
(* over PostgreSQL, which serves expired entries when a query fails).      *)
(*                                                                         *)
(* The callers share the caches of one process.  The services have one     *)
(* goroutine that looks up; the types promise that several may             *)
(* (registry.go 32), so there may be several here, and every section under *)
(* a lock is a step of its own.                                            *)
(*                                                                         *)
(* Abstractions.  The registry gives each schema an id of its own for      *)
(* ever, so the schema stands for its id and for its text.  A payload may  *)
(* be one that does not decode into a DeviceMetric, because it is cut or   *)
(* damaged or of a version that does not fit the struct: which ones are is *)
(* left open until they are decoded.  An entry of the device cache is fresh *)
(* until its TTL, a length of time left out here, has passed.  A query may *)
(* fail at any time; a device that is deleted is one whose queries fail    *)
(* from then on.                                                           *)
(***************************************************************************)
EXTENDS Integers, FiniteSets

CONSTANTS
    Callers,        \* the goroutines that look up
    Schemas,        \* the versions of the schema of device.metrics
    Devices,        \* the device ids
    Rows,           \* what the row of a device may say
    None            \* nothing: no entry, no row, no value

Empty == "empty"    \* the text of a 200 answer without a schema field
NoId == "no id"     \* 0, which the registry never gives

ASSUME LookupsAssumption ==
    /\ IsFiniteSet(Callers)
    /\ None \notin Schemas \union Rows \union {Empty, NoId}
    /\ None \notin [device : Rows, fresh : BOOLEAN]
    /\ {Empty, NoId} \intersect Schemas = {}

VARIABLES
    \* PostgreSQL
    row,            \* [Devices -> Rows]: the row, or the last there was
    \* the process
    texts,          \* RegistryClient.cache: the text of each id, or None
    schemas,        \* Deserializer.schemas: the parsed schema, or None
    cache,          \* enricher.cache: [device, fresh], or None
    pc,             \* what each caller does next
    record,         \* the record it has, or None
    device,         \* the device it has looked up last
    got,            \* what the call before this step returned
    entry,          \* GetDevice's copy of the cache entry
    \* history, since the process started
    answers,        \* [Schemas -> Nat]: the answers of the registry
    emptied,        \* the ids it has answered without a text
    enriched,       \* the devices that were looked up with success
    excused         \* [Callers -> BOOLEAN]: this lookup has met a cause to
                    \* fail that is none of the caches'

caches == <<texts, schemas, cache>>
locals == <<record, device, got, entry>>
history == <<answers, emptied, enriched, excused>>
vars == <<row, caches, pc, locals, history>>

(* What Serialize writes: the header holds the id that registration        *)
(* answered, which is 0 when the answer has none.                          *)
Headers(s) == {s, NoId}
Written == UNION {[by : {s}, id : Headers(s)] : s \in Schemas}
NotWire == [by |-> None, id |-> None]   \* too short, or another first byte

Entries == [device : Rows, fresh : BOOLEAN] \union {None}
PCs == {"idle", "schemas", "text", "fetch", "parse", "unmarshal",
        "undecodable", "device", "query", "store", "bare"}

TypeOK ==
    /\ row \in [Devices -> Rows]
    /\ texts \in [Schemas -> Schemas \union {Empty, None}]
    /\ schemas \in [Schemas -> Schemas \union {None}]
    /\ cache \in [Devices -> Entries]
    /\ pc \in [Callers -> PCs]
    /\ record \in [Callers -> Written \union {NotWire, None}]
    /\ device \in [Callers -> Devices \union {None}]
    /\ got \in [Callers -> Schemas \union Rows \union {Empty, None}]
    /\ entry \in [Callers -> Entries]
    /\ answers \in [Schemas -> Nat]
    /\ emptied \subseteq Schemas
    /\ enriched \subseteq Devices
    /\ excused \in [Callers -> BOOLEAN]

Go(c, from, to) == pc[c] = from /\ pc' = [pc EXCEPT ![c] = to]
Holds(c, value) == got' = [got EXCEPT ![c] = value]

-----------------------------------------------------------------------------
(* Deserialize is called with the next record.                             *)
Deserialize(c) ==
    /\ pc[c] \in {"idle", "undecodable", "bare"}
    /\ \E r \in Written \union {NotWire}, d \in Devices :
         /\ record' = [record EXCEPT ![c] = r]
         /\ device' = [device EXCEPT ![c] = d]
         /\ pc' = [pc EXCEPT ![c] = IF r = NotWire THEN "undecodable"
                                                   ELSE "schemas"]
         /\ excused' = [excused EXCEPT ![c] = r.id \notin Schemas]
    /\ UNCHANGED <<row, caches, got, entry, answers, emptied,
                   enriched>>

(* The parsed schemas.                                                     *)
CachedFor(known, id) == IF id \in Schemas THEN known[id] ELSE None
LastParsed(known, id) ==    \* mutant: one schema for the topic
    IF \E s \in Schemas : known[s] # None
    THEN CHOOSE t \in Schemas : \E s \in Schemas : known[s] = t ELSE None
ParsedSchema(known, id) == CachedFor(known, id)
GetParsed(c) ==
    LET found == ParsedSchema(schemas, record[c].id)
    IN /\ Go(c, "schemas", IF found = None THEN "text" ELSE "unmarshal")
       /\ Holds(c, found)
       /\ UNCHANGED <<row, caches, record, device, entry, history>>

(* The texts.                                                              *)
NeverCached(id) == None     \* mutant: every call goes to the registry
CachedText(id) == CachedFor(texts, id)
GetText(c) ==
    LET found == CachedText(record[c].id)
    IN /\ Go(c, "text", IF found = None THEN "fetch" ELSE "parse")
       /\ Holds(c, found)
       /\ UNCHANGED <<row, caches, record, device, entry, history>>

(* 200: the text is cached, also when the answer has none.                 *)
FetchAnswered(c) ==
    LET id == record[c].id
    IN /\ Go(c, "fetch", "parse")
       /\ id \in Schemas
       /\ \E text \in {id, Empty} :
            /\ texts' = [texts EXCEPT ![id] = text]
            /\ Holds(c, text)
            /\ emptied' = IF text = Empty THEN emptied \union {id} ELSE emptied
       /\ answers' = [answers EXCEPT ![id] = @ + 1]
       /\ UNCHANGED <<row, schemas, cache, record, device, entry,
                      enriched, excused>>

(* A timeout, another status, an answer that is not JSON.                  *)
CacheTheError(id) ==        \* mutant: the text that is left is cached
    IF id \in Schemas THEN [texts EXCEPT ![id] = Empty] ELSE texts
TextsAfterError(id) == texts
FetchFails(c) ==
    /\ Go(c, "fetch", "undecodable")
    /\ texts' = TextsAfterError(record[c].id)
    /\ excused' = [excused EXCEPT ![c] = TRUE]
    /\ UNCHANGED <<row, schemas, cache, locals, answers, emptied,
                   enriched>>

(* avro.Parse; what it returns is cached, an error is not.                 *)
Parse(c) ==
    LET id == record[c].id
    IN /\ Go(c, "parse", IF got[c] = Empty THEN "undecodable"
                                           ELSE "unmarshal")
       /\ schemas' = IF got[c] = Empty THEN schemas
                                       ELSE [schemas EXCEPT ![id] = got[c]]
       /\ UNCHANGED <<row, texts, cache, locals, history>>

(* avro.Unmarshal, which may refuse the payload.  That is the record's own *)
(* fault only if the schema tried is the one it was written with: another  *)
(* one may refuse a good record, or let a wrong one through.  No cache     *)
(* knows how it went.                                                      *)
Unmarshal(c) ==
    /\ pc[c] = "unmarshal"
    /\ \/ /\ pc' = [pc EXCEPT ![c] = "device"]
          /\ UNCHANGED excused
       \/ /\ pc' = [pc EXCEPT ![c] = "undecodable"]
          /\ excused' = [excused EXCEPT ![c] = got[c] = record[c].by]
    /\ UNCHANGED <<row, caches, locals, answers, emptied, enriched>>

-----------------------------------------------------------------------------
(* GetDevice: a copy of the entry, which is returned when it is fresh.     *)
ForEver(e) == e # None                  \* mutant: the TTL is not looked at
Fresh(e) == e # None /\ e.fresh
ReadCache(c) ==
    LET found == cache[device[c]]
    IN /\ Go(c, "device", IF Fresh(found) THEN "idle" ELSE "query")
       /\ entry' = [entry EXCEPT ![c] = IF Fresh(found) THEN None ELSE found]
       /\ record' = [record EXCEPT ![c] = None]
       /\ Holds(c, None)
       /\ excused' = [excused EXCEPT ![c] = device[c] \notin enriched]
       /\ UNCHANGED <<row, caches, device, answers, emptied,
                      enriched>>

QueryAnswered(c) ==
    /\ Go(c, "query", "store")
    /\ Holds(c, row[device[c]])
    /\ UNCHANGED <<row, caches, record, device, entry, history>>

(* An error, which no row is as well: an old entry is served however old it*)
(* is, and without one the record goes on with an empty location.          *)
FreshOnly(e) == Fresh(e)                \* mutant: only what is fresh is served
Usable(e) == e # None
CacheTheZero(d) ==                      \* mutant: the zero Device is cached
    [cache EXCEPT ![d] = [device |-> None, fresh |-> TRUE]]
CacheAfterError(d) == cache
QueryFails(c) ==
    /\ Go(c, "query", IF Usable(entry[c]) THEN "idle" ELSE "bare")
    /\ entry' = [entry EXCEPT ![c] = None]
    /\ cache' = CacheAfterError(device[c])
    /\ UNCHANGED <<row, texts, schemas, record, device, got, history>>

(* The TTL of the entry starts here and not when the row was read.         *)
StoreEntry(c) ==
    /\ Go(c, "store", "idle")
    /\ cache' = [cache EXCEPT ![device[c]] =
                   [device |-> got[c], fresh |-> TRUE]]
    /\ Holds(c, None)
    /\ entry' = [entry EXCEPT ![c] = None]
    /\ enriched' = enriched \union {device[c]}
    /\ excused' = [excused EXCEPT ![c] = FALSE]
    /\ UNCHANGED <<row, texts, schemas, record, device, answers,
                   emptied>>

(* The TTL of an entry has passed; one that is not positive at once.       *)
Expire(d) ==
    /\ cache[d] # None /\ cache[d].fresh
    /\ cache' = [cache EXCEPT ![d].fresh = FALSE]
    /\ UNCHANGED <<row, texts, schemas, pc, locals, history>>

-----------------------------------------------------------------------------
(* The registry of devices is edited.                                      *)
ChangeRow(d) ==
    /\ \E new \in Rows : row' = [row EXCEPT ![d] = new]
    /\ UNCHANGED <<caches, pc, locals, history>>

(* The process dies and another one starts with empty caches.              *)
Restart ==
    /\ texts' = [s \in Schemas |-> None]
    /\ schemas' = [s \in Schemas |-> None]
    /\ cache' = [d \in Devices |-> None]
    /\ pc' = [c \in Callers |-> "idle"]
    /\ record' = [c \in Callers |-> None]
    /\ device' = [c \in Callers |-> None]
    /\ got' = [c \in Callers |-> None]
    /\ entry' = [c \in Callers |-> None]
    /\ answers' = [s \in Schemas |-> 0]
    /\ emptied' = {}
    /\ enriched' = {}
    /\ excused' = [c \in Callers |-> FALSE]
    /\ UNCHANGED row

Init ==
    /\ row \in [Devices -> Rows]
    /\ texts = [s \in Schemas |-> None]
    /\ schemas = [s \in Schemas |-> None]
    /\ cache = [d \in Devices |-> None]
    /\ pc = [c \in Callers |-> "idle"]
    /\ record = [c \in Callers |-> None]
    /\ device = [c \in Callers |-> None]
    /\ got = [c \in Callers |-> None]
    /\ entry = [c \in Callers |-> None]
    /\ answers = [s \in Schemas |-> 0]
    /\ emptied = {}
    /\ enriched = {}
    /\ excused = [c \in Callers |-> FALSE]

LookupStep(c) ==
    \/ GetParsed(c) \/ GetText(c) \/ FetchAnswered(c) \/ FetchFails(c)
    \/ Parse(c) \/ Unmarshal(c)
    \/ ReadCache(c) \/ QueryAnswered(c) \/ QueryFails(c) \/ StoreEntry(c)

Next ==
    \/ \E c \in Callers : Deserialize(c) \/ LookupStep(c)
    \/ \E d \in Devices : Expire(d) \/ ChangeRow(d)
    \/ Restart

Spec == Init /\ [][Next]_vars

(* A lookup that has begun goes on, and time passes.                       *)
FairSpec ==
    /\ Spec
    /\ \A c \in Callers : WF_vars(LookupStep(c))
    /\ \A d \in Devices : WF_vars(Expire(d))

-----------------------------------------------------------------------------
(* A record that decodes is decoded with the schema it was written with,   *)
(* also when versions alternate and callers fill the caches at the same    *)
(* time (avro.go 101-104: several schema versions, transparently).         *)
DecodedAsWritten ==
    \A c \in Callers :
        pc[c] = "device" => got[c] = record[c].by

(* The registry answers at most once per caller for an id, also when the   *)
(* answer is unusable (registry.go 110-112: no request after the first     *)
(* fetch).                                                                 *)
OneFetchEach == \A s \in Schemas : answers[s] <= Cardinality(Callers)

(* A record fails to decode for a cause of its own: the schema it was      *)
(* written with does not decode it, it is not in wire format or has an id  *)
(* the registry never gave, the fetch of this very lookup failed, or the   *)
(* registry has answered without a text for its id.  So neither an outage, *)
(* a record that failed before by whichever caller, nor another version    *)
(* makes a good record fail; only the empty answer stays for the life of   *)
(* the process (avro.go 104-105: all lookups cached).                      *)
FailureHasACause ==
    \A c \in Callers : pc[c] = "undecodable" =>
        excused[c] \/ record[c].id \in emptied

(* A device that was looked up once is never missing again: the fallback   *)
(* to the old entry has no gap, whatever expires, fails or is deleted      *)
(* (enricher.go 26-28).                                                    *)
KnownDeviceIsServed == \A c \in Callers : pc[c] = "bare" => excused[c]

(* Once the row of a device stays as it is and no query fails any more,    *)
(* the cache comes to agree with it, as long as the device is looked up: a *)
(* slow caller that stores an old row is put right by the next expiry      *)
(* (enricher.go 21-23).  Nothing of the kind holds for a deleted row.      *)
EventuallyCurrent ==
    \A d \in Devices : \A v \in Rows :
        /\ <>[](row[d] = v)
        /\ <>[][\A c \in Callers : ~QueryFails(c)]_vars
        /\ []<>(\E c \in Callers : pc[c] = "device" /\ device[c] = d)
        => <>[](cache[d] = None \/ cache[d].device = v)

-----------------------------------------------------------------------------
(* The inductive invariant, part by part.                                  *)

(* What a caller has is from the record it has.                            *)
RecordsAgree ==
    \A c \in Callers :
      /\ pc[c] \in {"schemas", "text", "fetch", "parse", "unmarshal",
                  "device"} => record[c] \in Written
      /\ pc[c] \in {"parse", "unmarshal", "device"} =>
           record[c].id = record[c].by
      /\ pc[c] = "parse" =>
           \/ got[c] = record[c].by
           \/ got[c] = Empty /\ record[c].by \in emptied
      /\ pc[c] \in {"unmarshal", "device"} => got[c] = record[c].by
      /\ pc[c] = "store" => got[c] \in Rows
      /\ pc[c] # "idle" => device[c] \in Devices

(* The caches of the codec say of an id what the registry has said.        *)
SchemasAgree ==
    \A s \in Schemas :
      /\ schemas[s] \in {s, None}
      /\ texts[s] \in {s, Empty, None}
      /\ texts[s] = Empty => s \in emptied

(* An entry is never lost, and the copy a caller has is of that time.      *)
EntriesAgree ==
    /\ \A d \in enriched : cache[d] # None
    /\ \A c \in Callers : pc[c] = "query" /\ entry[c] = None => excused[c]

(* No caller asks the registry again after the first answer, so those that *)
(* are asking are those that may still get one.                            *)
Asking(s) == {c \in Callers : pc[c] = "fetch" /\ record[c].id = s}
AnswersLeft ==
    \A s \in Schemas :
      /\ texts[s] = None => answers[s] = 0
      /\ answers[s] + Cardinality(Asking(s)) <= Cardinality(Callers)

LookupsInv ==
    /\ TypeOK
    /\ RecordsAgree
    /\ SchemasAgree
    /\ EntriesAgree
    /\ AnswersLeft
    /\ FailureHasACause
    /\ KnownDeviceIsServed
=============================================================================
