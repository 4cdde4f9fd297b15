---------------------------- MODULE LookupsProofs ----------------------------
(***************************************************************************)
(* Proofs about Lookups for every value of its constants.  The invariant   *)
(* of the argument is LookupsInv; each of its parts has a lemma that says  *)
(* every step keeps it.                                                    *)
(***************************************************************************)
EXTENDS Lookups, FiniteSetTheorems, TLAPS

(* What the constants say of the values a caller can hold.                 *)
LEMMA ValueFacts ==
    /\ None \notin Schemas /\ None \notin Rows /\ None # Empty
    /\ Empty \notin Schemas /\ NoId \notin Schemas
    /\ None \notin [device : Rows, fresh : BOOLEAN]
    /\ \A r \in Written :
         r.by \in Schemas /\ r.id \in {r.by, NoId}
    /\ NotWire.id = None
<1>1. /\ None \notin Schemas /\ None \notin Rows /\ None # Empty
      /\ Empty \notin Schemas /\ NoId \notin Schemas
      /\ None \notin [device : Rows, fresh : BOOLEAN]
  BY LookupsAssumption DEF LookupsAssumption
<1>2. ASSUME NEW r \in Written
      PROVE  r.by \in Schemas /\ r.id \in {r.by, NoId}
  <2>1. PICK s \in Schemas : r \in [by : {s}, id : Headers(s)]
    BY DEF Written
  <2> QED
    BY <2>1 DEF Headers
<1> QED
  BY <1>1, <1>2 DEF NotWire

(* Every step keeps the types.                                             *)
LEMMA TypeStep ==
    ASSUME TypeOK, RecordsAgree, [Next]_vars
    PROVE  TypeOK'
<1>1. ASSUME NEW c \in Callers, Deserialize(c) PROVE TypeOK'
  BY <1>1 DEF TypeOK, PCs, Deserialize, caches
<1>2. ASSUME NEW c \in Callers, GetParsed(c) PROVE TypeOK'
  BY <1>2
  DEF TypeOK, PCs, GetParsed, Go, Holds, ParsedSchema, CachedFor, caches, history
<1>3. ASSUME NEW c \in Callers, GetText(c) PROVE TypeOK'
  BY <1>3
  DEF TypeOK, PCs, GetText, Go, Holds, CachedText, CachedFor, caches, history
<1>4. ASSUME NEW c \in Callers, FetchAnswered(c) PROVE TypeOK'
  <2>1. PICK text \in {record[c].id, Empty} :
          /\ texts' = [texts EXCEPT ![record[c].id] = text]
          /\ got' = [got EXCEPT ![c] = text]
          /\ emptied' = IF text = Empty THEN emptied \union {record[c].id}
                                        ELSE emptied
    BY <1>4 DEF FetchAnswered, Holds
  <2>2. record[c].id \in Schemas
    BY <1>4 DEF FetchAnswered
  <2> QED
    BY <1>4, <2>1, <2>2 DEF TypeOK, PCs, FetchAnswered, Go
<1>5. ASSUME NEW c \in Callers, FetchFails(c) PROVE TypeOK'
  BY <1>5 DEF TypeOK, PCs, FetchFails, Go, TextsAfterError, locals
<1>6. ASSUME NEW c \in Callers, Parse(c) PROVE TypeOK'
  <2>1. got[c] # Empty => got[c] \in Schemas
    BY <1>6, ValueFacts DEF Parse, Go, RecordsAgree
  <2> QED
    BY <1>6, <2>1 DEF TypeOK, PCs, Parse, Go, locals, history
<1>7. ASSUME NEW c \in Callers, ReadCache(c) PROVE TypeOK'
  <2>1. device[c] \in Devices
    BY <1>7 DEF ReadCache, Go, RecordsAgree
  <2> QED
    BY <1>7, <2>1 DEF TypeOK, PCs, Entries, ReadCache, Go, Holds, caches
<1>8. ASSUME NEW c \in Callers, QueryAnswered(c) PROVE TypeOK'
  <2>1. device[c] \in Devices
    BY <1>8 DEF QueryAnswered, Go, RecordsAgree
  <2> QED
    BY <1>8, <2>1 DEF TypeOK, PCs, QueryAnswered, Go, Holds, caches, history
<1>9. ASSUME NEW c \in Callers, QueryFails(c) PROVE TypeOK'
  BY <1>9 DEF TypeOK, PCs, Entries, QueryFails, Go, CacheAfterError, history
<1>10. ASSUME NEW c \in Callers, StoreEntry(c) PROVE TypeOK'
  <2>1. device[c] \in Devices /\ got[c] \in Rows
    BY <1>10 DEF StoreEntry, Go, RecordsAgree
  <2> QED
    BY <1>10, <2>1 DEF TypeOK, PCs, Entries, StoreEntry, Go, Holds
<1>11. ASSUME NEW d \in Devices, Expire(d) PROVE TypeOK'
  <2>1. cache[d] \in [device : Rows, fresh : BOOLEAN]
    BY <1>11 DEF Expire, TypeOK, Entries
  <2>2. cache' \in [Devices -> Entries]
    BY <1>11, <2>1 DEF Expire, TypeOK, Entries
  <2> QED
    BY <1>11, <2>2 DEF TypeOK, Expire, locals, history
<1>12. ASSUME NEW d \in Devices, ChangeRow(d) PROVE TypeOK'
  BY <1>12 DEF TypeOK, ChangeRow, caches, locals, history
<1>13. CASE Restart
  BY <1>13 DEF TypeOK, PCs, Entries, Restart
<1>14. CASE UNCHANGED vars
  BY <1>14 DEF TypeOK, vars, caches, locals, history
<1>15. ASSUME NEW c \in Callers, Unmarshal(c) PROVE TypeOK'
  BY <1>15 DEF TypeOK, PCs, Unmarshal, caches, locals
<1> QED
  BY <1>1, <1>2, <1>3, <1>4, <1>5, <1>6, <1>7, <1>8, <1>9, <1>10, <1>11,
     <1>12, <1>13, <1>14, <1>15
  DEF Next, LookupStep

(* A caller's values stay those of its record.                             *)
LEMMA RecordsStep ==
    ASSUME TypeOK, TypeOK', RecordsAgree, SchemasAgree, [Next]_vars
    PROVE  RecordsAgree'
<1> USE ValueFacts DEF RecordsAgree
<1>1. ASSUME NEW c \in Callers, Deserialize(c) PROVE RecordsAgree'
  BY <1>1 DEF TypeOK, Deserialize
<1>2. ASSUME NEW c \in Callers, GetParsed(c) PROVE RecordsAgree'
  <2>1. record[c] \in Written
    BY <1>2 DEF GetParsed, Go
  <2>2. CASE CachedFor(schemas, record[c].id) = None
    BY <1>2, <2>1, <2>2
    DEF TypeOK, GetParsed, Go, Holds, ParsedSchema, history
  <2>3. CASE CachedFor(schemas, record[c].id) # None
    <3>1. record[c].id = record[c].by
      BY <2>1, <2>3 DEF CachedFor
    <3>2. CachedFor(schemas, record[c].id) = record[c].by
      BY <2>1, <2>3, <3>1 DEF CachedFor, SchemasAgree
    <3> QED
      BY <1>2, <2>1, <2>3, <3>1, <3>2
      DEF TypeOK, GetParsed, Go, Holds, ParsedSchema, history
  <2> QED
    BY <2>2, <2>3
<1>3. ASSUME NEW c \in Callers, GetText(c) PROVE RecordsAgree'
  <2>1. record[c] \in Written
    BY <1>3 DEF GetText, Go
  <2>2. CASE CachedFor(texts, record[c].id) = None
    BY <1>3, <2>1, <2>2
    DEF TypeOK, GetText, Go, Holds, CachedText, history
  <2>3. CASE CachedFor(texts, record[c].id) # None
    <3>1. record[c].id = record[c].by
      BY <2>1, <2>3 DEF CachedFor
    <3>2. \/ CachedFor(texts, record[c].id) = record[c].by
          \/ /\ CachedFor(texts, record[c].id) = Empty
             /\ record[c].by \in emptied
      BY <2>1, <2>3, <3>1 DEF CachedFor, SchemasAgree
    <3> QED
      BY <1>3, <2>1, <2>3, <3>1, <3>2
      DEF TypeOK, GetText, Go, Holds, CachedText, history
  <2> QED
    BY <2>2, <2>3
<1>4. ASSUME NEW c \in Callers, FetchAnswered(c) PROVE RecordsAgree'
  <2>1. record[c] \in Written /\ record[c].id = record[c].by
    BY <1>4 DEF FetchAnswered, Go
  <2>2. PICK text \in {record[c].id, Empty} :
          /\ got' = [got EXCEPT ![c] = text]
          /\ emptied' = IF text = Empty THEN emptied \union {record[c].id}
                                        ELSE emptied
    BY <1>4 DEF FetchAnswered, Holds
  <2> QED
    BY <1>4, <2>1, <2>2 DEF TypeOK, FetchAnswered, Go
<1>5. ASSUME NEW c \in Callers, FetchFails(c) PROVE RecordsAgree'
  BY <1>5 DEF TypeOK, FetchFails, Go, locals
<1>6. ASSUME NEW c \in Callers, Parse(c) PROVE RecordsAgree'
  BY <1>6 DEF TypeOK, Parse, Go, locals, history
<1>7. ASSUME NEW c \in Callers, ReadCache(c) PROVE RecordsAgree'
  BY <1>7 DEF TypeOK, ReadCache, Go, Holds
<1>8. ASSUME NEW c \in Callers, QueryAnswered(c) PROVE RecordsAgree'
  <2>1. row[device[c]] \in Rows
    BY <1>8 DEF TypeOK, QueryAnswered, Go
  <2> QED
    BY <1>8, <2>1 DEF TypeOK, QueryAnswered, Go, Holds, history
<1>9. ASSUME NEW c \in Callers, QueryFails(c) PROVE RecordsAgree'
  BY <1>9 DEF TypeOK, QueryFails, Go, history
<1>10. ASSUME NEW c \in Callers, StoreEntry(c) PROVE RecordsAgree'
  BY <1>10 DEF TypeOK, StoreEntry, Go, Holds
<1>11. ASSUME NEW d \in Devices, Expire(d) PROVE RecordsAgree'
  BY <1>11 DEF Expire, locals, history
<1>12. ASSUME NEW d \in Devices, ChangeRow(d) PROVE RecordsAgree'
  BY <1>12 DEF ChangeRow, locals, history
<1>13. CASE Restart
  BY <1>13 DEF Restart
<1>14. CASE UNCHANGED vars
  BY <1>14 DEF vars, locals, history
<1>15. ASSUME NEW c \in Callers, Unmarshal(c) PROVE RecordsAgree'
  BY <1>15 DEF TypeOK, Unmarshal, locals
<1> QED
  BY <1>1, <1>2, <1>3, <1>4, <1>5, <1>6, <1>7, <1>8, <1>9, <1>10, <1>11,
     <1>12, <1>13, <1>14, <1>15
  DEF Next, LookupStep

(* The caches of the codec are filled with what the registry answers.      *)
LEMMA SchemasStep ==
    ASSUME TypeOK, RecordsAgree, SchemasAgree, [Next]_vars
    PROVE  SchemasAgree'
<1> USE ValueFacts DEF SchemasAgree
<1>1. ASSUME NEW c \in Callers, FetchAnswered(c) PROVE SchemasAgree'
  <2>1. record[c].id \in Schemas
    BY <1>1 DEF FetchAnswered
  <2>2. PICK text \in {record[c].id, Empty} :
          /\ texts' = [texts EXCEPT ![record[c].id] = text]
          /\ emptied' = IF text = Empty THEN emptied \union {record[c].id}
                                        ELSE emptied
    BY <1>1 DEF FetchAnswered
  <2> QED
    BY <1>1, <2>1, <2>2 DEF TypeOK, FetchAnswered
<1>2. ASSUME NEW c \in Callers, FetchFails(c) PROVE SchemasAgree'
  BY <1>2 DEF FetchFails, TextsAfterError
<1>3. ASSUME NEW c \in Callers, Parse(c) PROVE SchemasAgree'
  BY <1>3 DEF TypeOK, RecordsAgree, Parse, Go, locals, history
<1>4. CASE Restart
  BY <1>4 DEF Restart
<1>5. ASSUME NEW c \in Callers,
             \/ Deserialize(c) \/ GetParsed(c) \/ GetText(c) \/ ReadCache(c)
             \/ QueryAnswered(c) \/ QueryFails(c) \/ StoreEntry(c)
             \/ Unmarshal(c)
      PROVE  SchemasAgree'
  BY <1>5
  DEF Deserialize, GetParsed, GetText, ReadCache, QueryAnswered, QueryFails,
      StoreEntry, Unmarshal, caches, history
<1>6. ASSUME NEW d \in Devices, Expire(d) \/ ChangeRow(d) PROVE SchemasAgree'
  BY <1>6 DEF Expire, ChangeRow, caches, history
<1>7. CASE UNCHANGED vars
  BY <1>7 DEF vars, caches, history
<1> QED
  BY <1>1, <1>2, <1>3, <1>4, <1>5, <1>6, <1>7 DEF Next, LookupStep

(* Entries are replaced and never removed.                                 *)
LEMMA EntriesStep ==
    ASSUME TypeOK, TypeOK', RecordsAgree, EntriesAgree, [Next]_vars
    PROVE  EntriesAgree'
<1> USE ValueFacts DEF EntriesAgree
<1>1. ASSUME NEW c \in Callers, Deserialize(c) PROVE EntriesAgree'
  BY <1>1 DEF TypeOK, Deserialize, caches
<1>2. ASSUME NEW c \in Callers,
             \/ GetParsed(c) \/ GetText(c) \/ FetchAnswered(c) \/ Parse(c)
             \/ Unmarshal(c)
      PROVE  EntriesAgree'
  BY <1>2
  DEF TypeOK, GetParsed, GetText, FetchAnswered, Parse, Unmarshal, Go, caches,
      locals, history
<1>3. ASSUME NEW c \in Callers, FetchFails(c) PROVE EntriesAgree'
  BY <1>3 DEF TypeOK, FetchFails, Go, locals
<1>4. ASSUME NEW c \in Callers, ReadCache(c) PROVE EntriesAgree'
  <2>1. cache[device[c]] = None => device[c] \notin enriched
    OBVIOUS
  <2> QED
    BY <1>4, <2>1 DEF TypeOK, ReadCache, Go, caches
<1>5. ASSUME NEW c \in Callers, QueryAnswered(c) PROVE EntriesAgree'
  BY <1>5 DEF TypeOK, QueryAnswered, Go, caches, history
<1>6. ASSUME NEW c \in Callers, QueryFails(c) PROVE EntriesAgree'
  BY <1>6 DEF TypeOK, QueryFails, Go, CacheAfterError, history
<1>7. ASSUME NEW c \in Callers, StoreEntry(c) PROVE EntriesAgree'
  <2>1. device[c] \in Devices /\ got[c] \in Rows
    BY <1>7 DEF StoreEntry, Go, RecordsAgree
  <2>2. cache'[device[c]] \in [device : Rows, fresh : BOOLEAN]
    BY <1>7, <2>1 DEF TypeOK, StoreEntry
  <2> QED
    BY <1>7, <2>1, <2>2 DEF TypeOK, StoreEntry, Go
<1>8. ASSUME NEW d \in Devices, Expire(d) PROVE EntriesAgree'
  <2>1. cache[d] \in [device : Rows, fresh : BOOLEAN]
    BY <1>8 DEF Expire, TypeOK, Entries
  <2>2. cache'[d] \in [device : Rows, fresh : BOOLEAN]
    BY <1>8, <2>1 DEF Expire, TypeOK
  <2> QED
    BY <1>8, <2>2 DEF TypeOK, Expire, locals, history
<1>9. ASSUME NEW d \in Devices, ChangeRow(d) PROVE EntriesAgree'
  BY <1>9 DEF ChangeRow, caches, locals, history
<1>10. CASE Restart
  BY <1>10 DEF Restart
<1>11. CASE UNCHANGED vars
  BY <1>11 DEF vars, caches, locals, history
<1> QED
  BY <1>1, <1>2, <1>3, <1>4, <1>5, <1>6, <1>7, <1>8, <1>9, <1>10, <1>11
  DEF Next, LookupStep

(* A lookup fails at no other place than those with a cause.               *)
LEMMA CauseStep ==
    ASSUME TypeOK, RecordsAgree, FailureHasACause, [Next]_vars
    PROVE  FailureHasACause'
<1> USE ValueFacts DEF FailureHasACause
<1>1. ASSUME NEW c \in Callers, Deserialize(c) PROVE FailureHasACause'
  <2>1. PICK r \in Written \union {NotWire} :
          /\ record' = [record EXCEPT ![c] = r]
          /\ pc' = [pc EXCEPT ![c] = IF r = NotWire THEN "undecodable"
                                                    ELSE "schemas"]
          /\ excused' = [excused EXCEPT ![c] = r.id \notin Schemas]
    BY <1>1 DEF Deserialize
  <2>2. pc'[c] = "undecodable" => excused'[c]
    BY <2>1 DEF TypeOK
  <2>3. UNCHANGED emptied
    BY <1>1 DEF Deserialize
  <2> QED
    BY <2>1, <2>2, <2>3 DEF TypeOK
<1>2. ASSUME NEW c \in Callers, FetchAnswered(c) PROVE FailureHasACause'
  <2>1. emptied \subseteq emptied'
    BY <1>2 DEF FetchAnswered
  <2> QED
    BY <1>2, <2>1 DEF TypeOK, FetchAnswered, Go
<1>3. ASSUME NEW c \in Callers, FetchFails(c) PROVE FailureHasACause'
  BY <1>3 DEF TypeOK, FetchFails, Go, locals
<1>4. ASSUME NEW c \in Callers, Parse(c) PROVE FailureHasACause'
  <2>1. got[c] = Empty => record[c].id \in emptied
    BY <1>4 DEF Parse, Go, RecordsAgree
  <2> QED
    BY <1>4, <2>1 DEF TypeOK, Parse, Go, locals, history
<1>5. ASSUME NEW c \in Callers, ReadCache(c) PROVE FailureHasACause'
  BY <1>5 DEF TypeOK, ReadCache, Go
<1>6. ASSUME NEW c \in Callers, StoreEntry(c) PROVE FailureHasACause'
  BY <1>6 DEF TypeOK, StoreEntry, Go
<1>7. ASSUME NEW c \in Callers,
             GetParsed(c) \/ GetText(c) \/ QueryAnswered(c) \/ QueryFails(c)
      PROVE  FailureHasACause'
  BY <1>7
  DEF TypeOK, GetParsed, GetText, QueryAnswered, QueryFails, Go, history
<1>8. ASSUME NEW d \in Devices, Expire(d) \/ ChangeRow(d)
      PROVE  FailureHasACause'
  BY <1>8 DEF Expire, ChangeRow, locals, history
<1>9. CASE Restart
  BY <1>9 DEF Restart
<1>10. CASE UNCHANGED vars
  BY <1>10 DEF vars, locals, history
<1>11. ASSUME NEW c \in Callers, Unmarshal(c) PROVE FailureHasACause'
  <2>1. got[c] = record[c].by
    BY <1>11 DEF Unmarshal, RecordsAgree
  <2> QED
    BY <1>11, <2>1 DEF TypeOK, Unmarshal, locals
<1> QED
  BY <1>1, <1>2, <1>3, <1>4, <1>5, <1>6, <1>7, <1>8, <1>9, <1>10, <1>11
  DEF Next, LookupStep

(* Only a device that was never looked up before is missing.               *)
LEMMA ServedStep ==
    ASSUME TypeOK, EntriesAgree, KnownDeviceIsServed, [Next]_vars
    PROVE  KnownDeviceIsServed'
<1> USE DEF KnownDeviceIsServed
<1>1. ASSUME NEW c \in Callers, Deserialize(c) PROVE KnownDeviceIsServed'
  BY <1>1 DEF TypeOK, Deserialize
<1>2. ASSUME NEW c \in Callers, FetchFails(c) PROVE KnownDeviceIsServed'
  BY <1>2 DEF TypeOK, FetchFails, Go
<1>3. ASSUME NEW c \in Callers, ReadCache(c) PROVE KnownDeviceIsServed'
  BY <1>3 DEF TypeOK, ReadCache, Go
<1>4. ASSUME NEW c \in Callers, QueryFails(c) PROVE KnownDeviceIsServed'
  <2>1. entry[c] = None => excused[c]
    BY <1>4 DEF QueryFails, Go, EntriesAgree
  <2> QED
    BY <1>4, <2>1 DEF TypeOK, QueryFails, Go, Usable, history
<1>5. ASSUME NEW c \in Callers, StoreEntry(c) PROVE KnownDeviceIsServed'
  BY <1>5 DEF TypeOK, StoreEntry, Go
<1>6. ASSUME NEW c \in Callers,
             \/ GetParsed(c) \/ GetText(c) \/ FetchAnswered(c) \/ Parse(c)
             \/ Unmarshal(c) \/ QueryAnswered(c)
      PROVE  KnownDeviceIsServed'
  BY <1>6
  DEF TypeOK, GetParsed, GetText, FetchAnswered, Parse, Unmarshal,
      QueryAnswered, Go, history
<1>7. ASSUME NEW d \in Devices, Expire(d) \/ ChangeRow(d)
      PROVE  KnownDeviceIsServed'
  BY <1>7 DEF Expire, ChangeRow, history
<1>8. CASE Restart
  BY <1>8 DEF Restart
<1>9. CASE UNCHANGED vars
  BY <1>9 DEF vars, history
<1> QED
  BY <1>1, <1>2, <1>3, <1>4, <1>5, <1>6, <1>7, <1>8, <1>9 DEF Next, LookupStep

(* Fewer callers ask, and no more answers have come.                       *)
LEMMA FewerAsk ==
    ASSUME TypeOK, AnswersLeft, UNCHANGED answers,
           \A s \in Schemas : /\ texts'[s] = None => texts[s] = None
                              /\ Asking(s)' \subseteq Asking(s)
    PROVE  AnswersLeft'
<1> SUFFICES ASSUME NEW s \in Schemas
             PROVE  /\ texts'[s] = None => answers'[s] = 0
                    /\ answers'[s] + Cardinality(Asking(s)') <= Cardinality(Callers)
  BY DEF AnswersLeft
<1> USE LookupsAssumption DEF LookupsAssumption
<1>1. Asking(s) \subseteq Callers
  BY DEF Asking
<1>2. IsFiniteSet(Asking(s))
  BY <1>1, FS_Subset
<1>3. /\ Cardinality(Asking(s)') <= Cardinality(Asking(s))
      /\ Cardinality(Asking(s)') \in Nat /\ Cardinality(Asking(s)) \in Nat
      /\ Cardinality(Callers) \in Nat
  BY <1>2, FS_Subset, FS_CardinalityType
<1> QED
  BY <1>3 DEF AnswersLeft, TypeOK

(* After the first answer nobody begins to ask, and an answer is one asker *)
(* less.                                                                   *)
LEMMA AnswersStep ==
    ASSUME TypeOK, RecordsAgree, AnswersLeft, [Next]_vars
    PROVE  AnswersLeft'
<1> USE LookupsAssumption, ValueFacts DEF LookupsAssumption
<1>0. \A s \in Schemas : /\ Asking(s) \subseteq Callers
                         /\ Asking(s)' \subseteq Callers
  BY DEF Asking
<1>1. ASSUME NEW c \in Callers, Deserialize(c) PROVE AnswersLeft'
  <2>1. UNCHANGED <<answers, texts>>
    BY <1>1 DEF Deserialize, caches
  <2>2. \A s \in Schemas : Asking(s)' \subseteq Asking(s)
    BY <1>1 DEF TypeOK, Deserialize, Asking
  <2> QED
    BY <2>1, <2>2, FewerAsk
<1>2. ASSUME NEW c \in Callers, GetText(c) PROVE AnswersLeft'
  <2>1. UNCHANGED <<answers, texts>>
    BY <1>2 DEF GetText, caches, history
  <2>2. ASSUME NEW s \in Schemas
        PROVE  /\ texts'[s] = None => answers'[s] = 0
               /\ answers'[s] + Cardinality(Asking(s)') <= Cardinality(Callers)
    <3>1. CASE texts[s] = None
      <4>1. answers'[s] = 0
        BY <2>1, <3>1 DEF AnswersLeft
      <4>2. Cardinality(Asking(s)') <= Cardinality(Callers)
        BY <1>0, FS_Subset
      <4>3. Cardinality(Asking(s)') \in Nat
        BY <1>0, FS_Subset, FS_CardinalityType
      <4> QED
        BY <4>1, <4>2, <4>3
    <3>2. CASE texts[s] # None
      <4>1. Asking(s)' \subseteq Asking(s)
        BY <1>2, <3>2
        DEF TypeOK, GetText, Go, CachedText, CachedFor, Asking
      <4>2. IsFiniteSet(Asking(s))
        BY <1>0, FS_Subset
      <4>3. /\ Cardinality(Asking(s)') <= Cardinality(Asking(s))
            /\ Cardinality(Asking(s)') \in Nat /\ Cardinality(Asking(s)) \in Nat
            /\ Cardinality(Callers) \in Nat
        BY <4>1, <4>2, FS_Subset, FS_CardinalityType
      <4> QED
        BY <2>1, <3>2, <4>3 DEF AnswersLeft, TypeOK
    <3> QED
      BY <3>1, <3>2
  <2> QED
    BY <2>2 DEF AnswersLeft
<1>3. ASSUME NEW c \in Callers, FetchAnswered(c) PROVE AnswersLeft'
  <2> DEFINE id == record[c].id
  <2>1. id \in Schemas /\ c \in Asking(id)
    BY <1>3 DEF FetchAnswered, Go, Asking
  <2>2. ASSUME NEW s \in Schemas
        PROVE  Asking(s)' = Asking(s) \ {c}
    BY <1>3 DEF TypeOK, FetchAnswered, Go, Asking
  <2>3. ASSUME NEW s \in Schemas
        PROVE  /\ texts'[s] = None => answers'[s] = 0
               /\ answers'[s] + Cardinality(Asking(s)') <= Cardinality(Callers)
    <3>1. IsFiniteSet(Asking(s))
      BY <1>0, FS_Subset
    <3>2. /\ Cardinality(Asking(s)) \in Nat /\ Cardinality(Callers) \in Nat
          /\ Cardinality(Asking(s)') = IF c \in Asking(s)
                                       THEN Cardinality(Asking(s)) - 1
                                       ELSE Cardinality(Asking(s))
      BY <2>2, <3>1, FS_RemoveElement, FS_CardinalityType
    <3>3. CASE s = id
      <4>1. texts'[s] # None
        BY <1>3, <2>1, <3>3 DEF TypeOK, FetchAnswered
      <4>2. answers'[s] = answers[s] + 1
        BY <1>3, <2>1, <3>3 DEF TypeOK, FetchAnswered
      <4> QED
        BY <2>1, <3>2, <3>3, <4>1, <4>2 DEF AnswersLeft, TypeOK
    <3>4. CASE s # id
      <4>1. texts'[s] = texts[s] /\ answers'[s] = answers[s]
        BY <1>3, <2>1, <3>4 DEF TypeOK, FetchAnswered
      <4>2. c \notin Asking(s)
        BY <3>4 DEF Asking
      <4> QED
        BY <3>2, <4>1, <4>2 DEF AnswersLeft
    <3> QED
      BY <3>3, <3>4
  <2> QED
    BY <2>3 DEF AnswersLeft
<1>4. ASSUME NEW c \in Callers,
             \/ GetParsed(c) \/ FetchFails(c) \/ Parse(c) \/ QueryAnswered(c)
             \/ QueryFails(c) \/ Unmarshal(c)
      PROVE  AnswersLeft'
  <2>1. UNCHANGED <<answers, texts>>
    BY <1>4
    DEF GetParsed, FetchFails, TextsAfterError, Parse, QueryAnswered,
        QueryFails, Unmarshal, caches, history
  <2>2. \A s \in Schemas : Asking(s)' \subseteq Asking(s)
    BY <1>4
    DEF TypeOK, GetParsed, FetchFails, Parse, Unmarshal, QueryAnswered,
        QueryFails, Go, locals, Asking
  <2> QED
    BY <2>1, <2>2, FewerAsk
<1>5. ASSUME NEW c \in Callers, ReadCache(c) \/ StoreEntry(c)
      PROVE  AnswersLeft'
  <2>1. UNCHANGED <<answers, texts>>
    BY <1>5 DEF ReadCache, StoreEntry, caches
  <2>2. \A s \in Schemas : Asking(s)' \subseteq Asking(s)
    BY <1>5 DEF TypeOK, ReadCache, StoreEntry, Go, Asking
  <2> QED
    BY <2>1, <2>2, FewerAsk
<1>6. ASSUME NEW d \in Devices, Expire(d) \/ ChangeRow(d) PROVE AnswersLeft'
  <2>1. UNCHANGED <<answers, texts, pc, record>>
    BY <1>6 DEF Expire, ChangeRow, caches, locals, history
  <2> QED
    BY <2>1, FewerAsk DEF Asking
<1>7. CASE Restart
  <2>1. \A s \in Schemas : answers'[s] = 0 /\ Asking(s)' = {}
    BY <1>7 DEF Restart, Asking
  <2>2. Cardinality({}) = 0 /\ Cardinality(Callers) \in Nat
    BY FS_EmptySet, FS_CardinalityType
  <2> QED
    BY <2>1, <2>2 DEF AnswersLeft
<1>8. CASE UNCHANGED vars
  <2>1. UNCHANGED <<answers, texts, pc, record>>
    BY <1>8 DEF vars, caches, locals, history
  <2> QED
    BY <2>1, FewerAsk DEF Asking
<1> QED
  BY <1>1, <1>2, <1>3, <1>4, <1>5, <1>6, <1>7, <1>8 DEF Next, LookupStep

-----------------------------------------------------------------------------
(* The caches are empty at the start.                                      *)
LEMMA InvInit == Init => LookupsInv
<1> SUFFICES ASSUME Init PROVE LookupsInv
  OBVIOUS
<1> USE DEF Init
<1>1. TypeOK
  BY DEF TypeOK, PCs, Entries
<1>2. RecordsAgree /\ SchemasAgree /\ EntriesAgree
  BY ValueFacts DEF RecordsAgree, SchemasAgree, EntriesAgree
<1>3. AnswersLeft
  <2>1. \A s \in Schemas : answers[s] = 0 /\ Asking(s) = {}
    BY DEF Asking
  <2>2. Cardinality({}) = 0 /\ Cardinality(Callers) \in Nat
    BY LookupsAssumption, FS_EmptySet, FS_CardinalityType
    DEF LookupsAssumption
  <2> QED
    BY <2>1, <2>2 DEF AnswersLeft
<1>4. FailureHasACause /\ KnownDeviceIsServed
  BY DEF FailureHasACause, KnownDeviceIsServed
<1> QED
  BY <1>1, <1>2, <1>3, <1>4 DEF LookupsInv

(* Every step keeps the invariant.                                         *)
LEMMA InvStep == LookupsInv /\ [Next]_vars => LookupsInv'
<1> SUFFICES ASSUME LookupsInv, [Next]_vars PROVE LookupsInv'
  OBVIOUS
<1> USE DEF LookupsInv
<1>1. TypeOK'
  BY TypeStep
<1>2. RecordsAgree' /\ SchemasAgree' /\ EntriesAgree'
  BY <1>1, RecordsStep, SchemasStep, EntriesStep
<1>3. AnswersLeft' /\ FailureHasACause' /\ KnownDeviceIsServed'
  BY AnswersStep, CauseStep, ServedStep
<1> QED
  BY <1>1, <1>2, <1>3

(* The invariant holds in every reachable state, for any callers, schemas, *)
(* devices and rows.                                                       *)
THEOREM LookupsInvariant == Spec => []LookupsInv
BY InvInit, InvStep, PTL DEF Spec

(* The types hold.                                                         *)
THEOREM LookupsTypes == Spec => []TypeOK
<1>1. LookupsInv => TypeOK
  BY DEF LookupsInv
<1> QED
  BY <1>1, LookupsInvariant, PTL

(* A record is decoded with the schema it was written with, whatever the   *)
(* number of callers and of versions.                                      *)
THEOREM WritersSchema == Spec => []DecodedAsWritten
<1>1. LookupsInv => DecodedAsWritten
  BY DEF LookupsInv, RecordsAgree, DecodedAsWritten
<1> QED
  BY <1>1, LookupsInvariant, PTL

(* The registry answers at most once per caller for an id.                 *)
THEOREM FewAnswers == Spec => []OneFetchEach
<1>1. LookupsInv => OneFetchEach
  <2> SUFFICES ASSUME LookupsInv, NEW s \in Schemas
               PROVE  answers[s] <= Cardinality(Callers)
    BY DEF OneFetchEach
  <2>1. Asking(s) \subseteq Callers
    BY DEF Asking
  <2>2. Cardinality(Asking(s)) \in Nat /\ Cardinality(Callers) \in Nat
    BY <2>1, LookupsAssumption, FS_Subset, FS_CardinalityType
    DEF LookupsAssumption
  <2> QED
    BY <2>2 DEF LookupsInv, AnswersLeft, TypeOK
<1> QED
  BY <1>1, LookupsInvariant, PTL

(* A record fails to decode for a cause of its own, or after an answer of  *)
(* the registry without a text for its id.  None fails because of a cache. *)
THEOREM FailuresExplained == Spec => []FailureHasACause
<1>1. LookupsInv => FailureHasACause
  BY DEF LookupsInv
<1> QED
  BY <1>1, LookupsInvariant, PTL

(* A device that was looked up once is never missing again.                *)
THEOREM OldEntryServed == Spec => []KnownDeviceIsServed
<1>1. LookupsInv => KnownDeviceIsServed
  BY DEF LookupsInv
<1> QED
  BY <1>1, LookupsInvariant, PTL
=============================================================================
