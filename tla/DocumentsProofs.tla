--------------------------- MODULE DocumentsProofs ---------------------------
(***************************************************************************)
(* Theorems about Documents, for any number of files, documents, packs and *)
(* requests.                                                               *)
(***************************************************************************)
EXTENDS Documents, FiniteSetTheorems, TLAPS

DocRow == [current : Nat, hash : Contents \cup {NoFile}, path : Paths \cup {NoFile},
           name : Names \cup {NoFile}, verified : BOOLEAN]

VersionRow == [of : Refs, number : Nat \ {0}, hash : Contents, path : Paths, name : Names]

FileJobs == [of : Refs, task : {"UPLOAD", "REPLACE"}, hash : Contents, path : Paths, name : Names]

DocumentsRequestsOK ==
    /\ step \in [Requests -> {"idle", "stored", "compared"}]
    /\ DOMAIN job = Requests
    /\ DOMAIN seen = Requests

HasFile(r) == step[r] = "stored" /\ job[r].task \in {"UPLOAD", "REPLACE"}
HasPack(r) == step[r] = "stored" /\ job[r].task = "PACK"

\* A row of the document, as it is or as a request has loaded it, against its versions.
Shown(d, row) ==
    /\ row \in DocRow
    /\ \E v \in VersionsOf(d) : v.number = row.current /\ v.path = row.path
    /\ ~Forked(d) => Version(d, row.current, row.hash, row.path, row.name) \in versions
    /\ Mixable(d) \/ \E v \in VersionsOf(d) : v.path = row.path /\ v.hash = row.hash

Based(r) == Of(r) \in Documented /\ Shown(Of(r), seen[r])

Alarmed(d) == Mixable(d) \/ \E v \in VersionsOf(d) : store[v.path] = Corrupt

\* A stored file has no row until its request commits.
Storing(r) ==
    /\ job[r] \in FileJobs
    /\ store[job[r].path] \in {job[r].hash, Corrupt}
    /\ \A v \in versions : v.path # job[r].path
    /\ job[r].task = "REPLACE" => Based(r)

Packing(r) == job[r] \in [of : PackRefs, task : {"PACK"}] /\ Of(r) \in packStored \ packs

Verifying(r) ==
    /\ job[r] \in [of : Refs, task : {"VERIFY"}, match : BOOLEAN]
    /\ Based(r)
    /\ ~job[r].match => Alarmed(Of(r))

DocumentsWork(r) ==
    \/ step[r] = "stored" /\ (Storing(r) \/ Packing(r))
    \/ step[r] = "compared" /\ Verifying(r)

\* No two requests have stored a file at the same path or the same pack.
StoredApart ==
    \A q, r \in Requests : q # r =>
        /\ HasFile(q) /\ HasFile(r) => job[q].path # job[r].path
        /\ HasPack(q) /\ HasPack(r) => Of(q) # Of(r)

VersionsOfDocuments == \A v \in versions : v.of \in Documented

\* The document against its versions, whose numbers are those from one to the last.
Chained(d) ==
    /\ \E k \in Nat : NumbersOf(d) = 1 .. k
    /\ d \in Documented => Shown(d, doc[d])
    /\ d \in Documented /\ ~Forked(d) => \A n \in NumbersOf(d) : n <= doc[d].current

\* The inductive invariant.
DocumentsInv ==
    /\ DocumentsTypeOK
    /\ DocumentsRequestsOK
    /\ \A r \in Requests : step[r] # "idle" => DocumentsWork(r)
    /\ StoredApart
    /\ VersionsOfDocuments
    /\ RowsHaveFiles
    /\ \A d \in Refs : Chained(d)
    /\ \A d \in Refs : ~doc[d].verified => Alarmed(d)

-----------------------------------------------------------------------------
(***************************************************************************)
(* Facts about states.                                                     *)
(***************************************************************************)
\* The shape of the tables, by the names the proofs use.
LEMMA DocumentTables ==
    ASSUME DocumentsTypeOK
    PROVE  /\ doc \in [Refs -> DocRow]
           /\ versions \subseteq VersionRow
           /\ packs \subseteq PackRefs /\ packStored \subseteq PackRefs
           /\ store \in [Paths -> Contents \cup {Corrupt, NoFile}]
BY DEF DocumentsTypeOK, DocRow, VersionRow

\* The document a commit leaves behind, column by column.
LEMMA WrittenDocument ==
    ASSUME NEW row \in DocRow, NEW old \in DocRow, NEW new \in DocRow
    PROVE  /\ Written(row, old, new) \in DocRow
           /\ Written(row, old, new).current = IF new.current = old.current THEN row.current ELSE new.current
           /\ Written(row, old, new).hash = IF new.hash = old.hash THEN row.hash ELSE new.hash
           /\ Written(row, old, new).path = IF new.path = old.path THEN row.path ELSE new.path
           /\ Written(row, old, new).name = IF new.name = old.name THEN row.name ELSE new.name
           /\ Written(row, old, new).verified = IF new.verified = old.verified THEN row.verified ELSE new.verified
<1>1. Written(row, old, new) =
        [current |-> IF new.current = old.current THEN row.current ELSE new.current,
         hash |-> IF new.hash = old.hash THEN row.hash ELSE new.hash,
         path |-> IF new.path = old.path THEN row.path ELSE new.path,
         name |-> IF new.name = old.name THEN row.name ELSE new.name,
         verified |-> IF new.verified = old.verified THEN row.verified ELSE new.verified]
    BY DEF Written, DocRow
<1>. QED BY <1>1 DEF DocRow

\* A document with a further file.
LEMMA RenumberedDocument ==
    ASSUME NEW row \in DocRow, NEW j \in FileJobs
    PROVE  /\ Renumbered(row, j) \in DocRow
           /\ Renumbered(row, j).current = row.current + 1
           /\ Renumbered(row, j).hash = j.hash
           /\ Renumbered(row, j).path = j.path
           /\ Renumbered(row, j).name = j.name
           /\ Renumbered(row, j).verified = row.verified
<1>1. row = [current |-> row.current, hash |-> row.hash, path |-> row.path, name |-> row.name,
             verified |-> row.verified]
    BY DEF DocRow
<1>2. Renumbered(row, j) =
        [current |-> row.current + 1, hash |-> j.hash, path |-> j.path, name |-> j.name, verified |-> row.verified]
  <2>1. Renumbered(row, j) = [row EXCEPT !.current = row.current + 1, !.hash = j.hash, !.path = j.path, !.name = j.name]
      BY DEF Renumbered
  <2>. QED BY <1>1, <2>1
<1>. QED BY <1>2 DEF DocRow, FileJobs

\* The fields of a new version.
LEMMA VersionFields ==
    ASSUME NEW d, NEW n, NEW h, NEW p, NEW name
    PROVE  /\ Version(d, n, h, p, name).of = d /\ Version(d, n, h, p, name).number = n
           /\ Version(d, n, h, p, name).hash = h /\ Version(d, n, h, p, name).path = p
           /\ Version(d, n, h, p, name).name = name
BY DEF Version

\* The next reference is one of the references.
LEMMA NextRef ==
    ASSUME DocumentsInv, Cardinality(Documented) + 1 <= MaxDocs
    PROVE  Cardinality(Documented) + 1 \in Refs
<1>1. IsFiniteSet(1 .. MaxDocs)
    BY FS_Interval, DocumentsAssumption
<1>2. IsFiniteSet(Documented)
    BY <1>1, FS_Subset DEF Documented, Refs
<1>3. Cardinality(Documented) \in Nat
    BY <1>2, FS_CardinalityType
<1>. QED BY <1>3, DocumentsAssumption DEF Refs

\* Versions are only added, so that overlaps stay on record.
LEMMA MoreVersions ==
    ASSUME NEW d, versions \subseteq versions'
    PROVE  /\ VersionsOf(d) \subseteq VersionsOf(d)'
           /\ Forked(d) => Forked(d)'
           /\ Mixable(d) => Mixable(d)'
<1>1. VersionsOf(d) \subseteq VersionsOf(d)'
    BY DEF VersionsOf
<1>2. Forked(d) => Forked(d)'
    BY <1>1 DEF Forked
<1>. QED BY <1>1, <1>2 DEF Mixable

LEMMA StaysShown ==
    ASSUME NEW d, NEW row, Shown(d, row), versions \subseteq versions'
    PROVE  /\ row \in DocRow
           /\ \E v \in VersionsOf(d)' : v.number = row.current /\ v.path = row.path
           /\ ~Forked(d)' => Version(d, row.current, row.hash, row.path, row.name) \in versions'
           /\ Mixable(d)' \/ \E v \in VersionsOf(d)' : v.path = row.path /\ v.hash = row.hash
BY MoreVersions DEF Shown

LEMMA StaysAlarmed ==
    ASSUME NEW d, Alarmed(d), versions \subseteq versions',
           \A v \in versions : store[v.path] = Corrupt => store'[v.path] = Corrupt
    PROVE  Alarmed(d)'
<1>1. \A v \in VersionsOf(d) : v \in versions /\ v \in VersionsOf(d)'
    BY MoreVersions DEF VersionsOf
<1>. QED BY <1>1, MoreVersions DEF Alarmed

\* Nothing a request relies on is taken away while the tables only grow and the files
\* of versions stay as they are.
LEMMA KeepsDocumentsWork ==
    ASSUME DocumentsInv, NEW q \in Requests, DocumentsWork(q),
           step'[q] = step[q], job'[q] = job[q], seen'[q] = seen[q],
           versions \subseteq versions', Documented \subseteq Documented',
           \A v \in versions : store[v.path] = Corrupt => store'[v.path] = Corrupt,
           HasFile(q) => /\ store'[job[q].path] \in {job[q].hash, Corrupt}
                         /\ \A v \in versions' \ versions : v.path # job[q].path,
           HasPack(q) => Of(q) \in packStored' \ packs'
    PROVE  DocumentsWork(q)'
<1>1. Of(q)' = Of(q)
    BY DEF Of
<1>2. ASSUME Based(q) PROVE Based(q)'
  <2>. PICK d \in Documented : d = Of(q)
      BY <1>2 DEF Based
  <2>. PICK row \in DocRow : row = seen[q]
      BY <1>2 DEF Based, Shown
  <2>1. Shown(d, row)'
      BY <1>2, StaysShown DEF Based, Shown, DocRow
  <2>2. d \in Documented' /\ Of(q)' = d /\ seen'[q] = row
      BY <1>1
  <2>. QED BY <2>1, <2>2 DEF Based, Shown, Version
<1>3. ASSUME step[q] = "stored", Storing(q) PROVE DocumentsWork(q)'
  <2>1. HasFile(q)
      BY <1>3 DEF HasFile, Storing, FileJobs
  <2>2. \A v \in versions' : v.path # job[q].path
      BY <1>3, <2>1 DEF Storing
  <2>. QED BY <1>2, <1>3, <2>1, <2>2 DEF DocumentsWork, Storing
<1>4. ASSUME step[q] = "stored", Packing(q) PROVE DocumentsWork(q)'
  <2>1. HasPack(q)
      BY <1>4 DEF HasPack, Packing
  <2>. QED BY <1>1, <1>4, <2>1 DEF DocumentsWork, Packing
<1>5. ASSUME step[q] = "compared", Verifying(q) PROVE DocumentsWork(q)'
  <2>. PICK d \in Refs : d = Of(q)
      BY <1>5 DEF Verifying, Of
  <2>1. ~job'[q].match => Alarmed(d)'
      BY <1>5, StaysAlarmed DEF Verifying
  <2>. QED BY <1>1, <1>2, <1>5, <2>1 DEF DocumentsWork, Verifying
<1>. QED BY <1>3, <1>4, <1>5 DEF DocumentsWork

\* The requests after one of them has ended.
LEMMA Finished ==
    ASSUME DocumentsInv, NEW r \in Requests, Finish(r)
    PROVE  /\ DocumentsRequestsOK'
           /\ StoredApart'
           /\ step'[r] = "idle"
           /\ \A q \in Requests \ {r} : step'[q] = step[q] /\ job'[q] = job[q] /\ seen'[q] = seen[q]
<1>1. DocumentsRequestsOK /\ DocumentsRequestsOK'
    BY DEF DocumentsInv, DocumentsRequestsOK, Finish
<1>2. /\ step'[r] = "idle"
      /\ \A q \in Requests \ {r} : step'[q] = step[q] /\ job'[q] = job[q] /\ seen'[q] = seen[q]
    BY <1>1 DEF DocumentsRequestsOK, Finish
<1>3. StoredApart'
    BY <1>2 DEF DocumentsInv, StoredApart, HasFile, HasPack, Of
<1>. QED BY <1>1, <1>2, <1>3

\* The requests after one of them has arrived.
LEMMA Arrived ==
    ASSUME DocumentsInv, NEW r \in Requests, NEW j, NEW s \in {"stored", "compared"}, NEW row, Arrive(r, j, s, row)
    PROVE  /\ DocumentsRequestsOK'
           /\ step[r] = "idle"
           /\ step'[r] = s /\ job'[r] = j /\ seen'[r] = row
           /\ \A q \in Requests \ {r} : step'[q] = step[q] /\ job'[q] = job[q] /\ seen'[q] = seen[q]
<1>1. DocumentsRequestsOK /\ DocumentsRequestsOK'
    BY DEF DocumentsInv, DocumentsRequestsOK, Arrive
<1>. QED BY <1>1 DEF DocumentsRequestsOK, Arrive

-----------------------------------------------------------------------------
(***************************************************************************)
(* Steps that leave documents, versions and packs alone.                   *)
(***************************************************************************)
LEMMA DocumentsInitInv == DocumentsInit => DocumentsInv
<1>. SUFFICES ASSUME DocumentsInit PROVE DocumentsInv
    OBVIOUS
<1>. USE DEF DocumentsInit, RequestsInit
<1>1. DocumentsTypeOK
    BY DEF DocumentsTypeOK, NoDoc
<1>2. DocumentsRequestsOK /\ StoredApart /\ \A r \in Requests : step[r] = "idle"
    BY DEF DocumentsRequestsOK, StoredApart, HasFile, HasPack
<1>3. VersionsOfDocuments /\ RowsHaveFiles /\ \A d \in Refs : doc[d].verified = TRUE
    BY DEF VersionsOfDocuments, RowsHaveFiles, NoDoc
<1>4. Documented = {} /\ \A d \in Refs : NumbersOf(d) = 1 .. 0
    BY DEF Documented, NoDoc, NumbersOf, VersionsOf
<1>5. \A d \in Refs : Chained(d)
    BY <1>4 DEF Chained
<1>. QED BY <1>1, <1>2, <1>3, <1>5 DEF DocumentsInv

LEMMA TablesKept ==
    ASSUME DocumentsInv, UNCHANGED <<doc, versions, packs>>,
           store' \in [Paths -> Contents \cup {Corrupt, NoFile}], packStored' \subseteq PackRefs,
           \A v \in versions : store'[v.path] \in {store[v.path], Corrupt},
           packs \subseteq packStored',
           DocumentsRequestsOK', StoredApart', \A q \in Requests : step'[q] # "idle" => DocumentsWork(q)'
    PROVE  DocumentsInv'
<1>1. DocumentsTypeOK'
    BY DEF DocumentsInv, DocumentsTypeOK
<1>2. VersionsOfDocuments' /\ RowsHaveFiles'
    BY DEF DocumentsInv, VersionsOfDocuments, Documented, RowsHaveFiles
<1>3. \A d \in Refs : Chained(d)'
    BY DEF DocumentsInv, Chained, Shown, Mixable, Forked, VersionsOf, NumbersOf, Documented
<1>4. \A d \in Refs : ~doc'[d].verified => Alarmed(d)'
    BY StaysAlarmed DEF DocumentsInv
<1>. QED BY <1>1, <1>2, <1>3, <1>4 DEF DocumentsInv

LEMMA DamageInv ==
    ASSUME DocumentsInv, NEW p \in Paths, Damage(p)
    PROVE  DocumentsInv'
<1>1. /\ store' = [store EXCEPT ![p] = Corrupt]
      /\ UNCHANGED <<doc, versions, packs, packStored, job, step, seen>>
    BY DEF Damage, docTables, requestVars
<1>2. store' \in [Paths -> Contents \cup {Corrupt, NoFile}] /\ \A q \in Paths : store'[q] \in {store[q], Corrupt}
    BY <1>1, DocumentTables DEF DocumentsInv
<1>3. \A v \in versions : v.path \in Paths
    BY DocumentTables DEF DocumentsInv, VersionRow
<1>4. DocumentsRequestsOK' /\ StoredApart'
    BY <1>1 DEF DocumentsInv, DocumentsRequestsOK, StoredApart, HasFile, HasPack, Of
<1>5. ASSUME NEW q \in Requests, step'[q] # "idle" PROVE DocumentsWork(q)'
  <2>1. DocumentsWork(q)
      BY <1>1, <1>5 DEF DocumentsInv
  <2>2. /\ HasFile(q) => store'[job[q].path] \in {job[q].hash, Corrupt}
        /\ HasPack(q) => Of(q) \in packStored \ packs
      BY <1>2, <2>1 DEF DocumentsWork, Storing, Packing, Verifying, HasFile, HasPack, FileJobs
  <2>3. \A v \in versions : store[v.path] = Corrupt => store'[v.path] = Corrupt
      BY <1>2, <1>3
  <2>. QED BY <1>1, <2>1, <2>2, <2>3, KeepsDocumentsWork DEF Documented
<1>. QED BY <1>1, <1>2, <1>3, <1>4, <1>5, TablesKept
            DEF DocumentsInv, DocumentsTypeOK, RowsHaveFiles

\* What another request has stored is there.
LEMMA StoredThings ==
    ASSUME DocumentsInv, NEW q \in Requests, step[q] # "idle"
    PROVE  /\ DocumentsWork(q)
           /\ HasFile(q) => /\ Storing(q) /\ job[q] \in FileJobs
                         /\ store[job[q].path] \in {job[q].hash, Corrupt}
                         /\ \A v \in versions : v.path # job[q].path
           /\ HasPack(q) => Of(q) \in packStored \ packs
<1>1. DocumentsWork(q)
    BY DEF DocumentsInv
<1>. QED BY <1>1 DEF DocumentsWork, Storing, Packing, Verifying, HasFile, HasPack, FileJobs

\* A document as a request loads it agrees with its versions.
LEMMA LoadedIsBased ==
    ASSUME DocumentsInv, NEW r \in Requests, NEW d \in Documented,
           Of(r)' = d, seen'[r] = doc[d], UNCHANGED <<doc, versions>>
    PROVE  Based(r)'
<1>1. Shown(d, doc[d]) /\ d \in Refs
    BY DEF DocumentsInv, Chained, Documented
<1>2. d \in Documented'
    BY DEF Documented
<1>. QED BY <1>1, <1>2 DEF Based, Shown, Forked, Mixable, VersionsOf

LEMMA StoreFileInv ==
    ASSUME DocumentsInv, NEW r \in Requests, NEW d \in Refs, NEW task \in {"UPLOAD", "REPLACE"},
           NEW h \in Contents, NEW p \in Paths, NEW name \in Names, NEW row,
           StoreFile(r, d, task, row, h, p, name),
           task = "REPLACE" => d \in Documented /\ row = doc[d]
    PROVE  DocumentsInv'
<1>. DEFINE j == [of |-> d, task |-> task, hash |-> h, path |-> p, name |-> name]
<1>1. /\ store[p] = NoFile /\ store' = [store EXCEPT ![p] = h]
      /\ Arrive(r, j, "stored", row)
      /\ UNCHANGED <<doc, versions, packs, packStored>>
    BY DEF StoreFile, docTables
<1>2. j \in FileJobs /\ j.of = d /\ j.task = task /\ j.hash = h /\ j.path = p
    BY DEF FileJobs
<1>. HIDE DEF j
<1>3. /\ DocumentsRequestsOK' /\ step[r] = "idle" /\ step'[r] = "stored" /\ job'[r] = j /\ seen'[r] = row
      /\ \A q \in Requests \ {r} : step'[q] = step[q] /\ job'[q] = job[q] /\ seen'[q] = seen[q]
    BY <1>1, Arrived
<1>4. /\ store' \in [Paths -> Contents \cup {Corrupt, NoFile}]
      /\ store'[p] = h /\ \A q \in Paths \ {p} : store'[q] = store[q]
    BY <1>1, DocumentTables DEF DocumentsInv
<1>5. \A v \in versions : v.path \in Paths /\ v.path # p
  <2>1. \A v \in versions : v.path \in Paths /\ v.hash # NoFile
      BY DocumentTables, DocumentsAssumption DEF DocumentsInv, VersionRow
  <2>. QED BY <1>1, <2>1, DocumentsAssumption DEF DocumentsInv, RowsHaveFiles
<1>6. DocumentsWork(r)'
  <2>1. task = "REPLACE" => Based(r)'
      BY <1>1, <1>2, <1>3, LoadedIsBased DEF Of
  <2>. QED BY <1>1, <1>2, <1>3, <1>4, <1>5, <2>1 DEF DocumentsWork, Storing
<1>7. ASSUME NEW t \in Requests \ {r}, HasFile(t) PROVE job[t].path # p /\ job[t].path \in Paths
  <2>1. step[t] # "idle"
      BY <1>7 DEF HasFile
  <2>2. store[job[t].path] \in {job[t].hash, Corrupt} /\ job[t].hash \in Contents /\ job[t].path \in Paths
      BY <1>7, <2>1, StoredThings DEF FileJobs
  <2>. QED BY <1>1, <2>2, DocumentsAssumption
<1>8. ASSUME NEW q \in Requests \ {r}, step[q] # "idle" PROVE DocumentsWork(q)'
  <2>1. HasFile(q) => store'[job[q].path] \in {job[q].hash, Corrupt}
      BY <1>4, <1>7, <1>8, StoredThings
  <2>2. \A v \in versions : store'[v.path] = store[v.path]
      BY <1>4, <1>5
  <2>. QED BY <1>1, <1>3, <1>8, <2>1, <2>2, StoredThings, KeepsDocumentsWork DEF Documented
<1>9. StoredApart'
  <2>. SUFFICES ASSUME NEW q \in Requests, NEW t \in Requests, q # t
                PROVE  /\ HasFile(q)' /\ HasFile(t)' => job'[q].path # job'[t].path
                       /\ HasPack(q)' /\ HasPack(t)' => Of(q)' # Of(t)'
      BY DEF StoredApart
  <2>1. ASSUME NEW o \in Requests \ {r}
        PROVE  /\ HasFile(o)' <=> HasFile(o)
               /\ HasPack(o)' <=> HasPack(o)
               /\ Of(o)' = Of(o)
               /\ HasFile(o) => job[o].path # p
      BY <1>3, <1>7 DEF HasFile, HasPack, Of
  <2>2. ~HasPack(r)' /\ job'[r].path = p
      BY <1>2, <1>3 DEF HasPack
  <2>. QED BY <1>3, <2>1, <2>2 DEF DocumentsInv, StoredApart
<1>10. \A v \in versions : store'[v.path] = store[v.path]
    BY <1>4, <1>5
<1>. QED BY <1>1, <1>3, <1>4, <1>6, <1>8, <1>9, <1>10, TablesKept
            DEF DocumentsInv, DocumentsTypeOK, RowsHaveFiles

LEMMA LoadVerifyInv ==
    ASSUME DocumentsInv, NEW r \in Requests, NEW d \in Refs, LoadVerify(r, d)
    PROVE  DocumentsInv'
<1>. DEFINE match == store[doc[d].path] = doc[d].hash
            j == [of |-> d, task |-> "VERIFY", match |-> match]
<1>1. /\ d \in Documented /\ store[doc[d].path] # NoFile
      /\ UNCHANGED <<doc, versions, packs, store, packStored>>
    BY DEF LoadVerify, docTables, storeVars
<1>2. j \in [of : Refs, task : {"VERIFY"}, match : BOOLEAN] /\ j.of = d /\ j.task = "VERIFY" /\ (j.match <=> match)
    BY DEF Refs
<1>3. /\ DocumentsRequestsOK' /\ step[r] = "idle" /\ step'[r] = "compared" /\ job'[r] = j /\ seen'[r] = doc[d]
      /\ \A q \in Requests \ {r} : step'[q] = step[q] /\ job'[q] = job[q] /\ seen'[q] = seen[q]
  <2>1. Arrive(r, j, "compared", doc[d])
      BY DEF LoadVerify, Compare
  <2>. HIDE DEF j
  <2>. QED BY <2>1, Arrived
<1>. HIDE DEF j
<1>4. ~match => Alarmed(d)
  <2>1. Shown(d, doc[d])
      BY <1>1 DEF DocumentsInv, Chained
  <2>2. ASSUME ~match, NEW v \in VersionsOf(d), v.path = doc[d].path, v.hash = doc[d].hash
        PROVE  store[v.path] = Corrupt
      BY <2>2 DEF DocumentsInv, RowsHaveFiles, VersionsOf
  <2>. QED BY <2>1, <2>2 DEF Shown, Alarmed
<1>. HIDE DEF match
<1>5. DocumentsWork(r)'
  <2>1. Of(r)' = d
      BY <1>2, <1>3 DEF Of
  <2>2. Based(r)'
      BY <1>1, <1>3, <2>1, LoadedIsBased
  <2>3. Alarmed(d) => Alarmed(d)'
      BY <1>1, StaysAlarmed
  <2>. QED BY <1>2, <1>3, <1>4, <2>1, <2>2, <2>3 DEF DocumentsWork, Verifying
<1>6. ASSUME NEW q \in Requests \ {r}, step[q] # "idle" PROVE DocumentsWork(q)'
    BY <1>1, <1>3, <1>6, StoredThings, KeepsDocumentsWork DEF Documented
<1>7. StoredApart'
    BY <1>3 DEF DocumentsInv, StoredApart, HasFile, HasPack, Of
<1>. QED BY <1>1, <1>3, <1>5, <1>6, <1>7, TablesKept
            DEF DocumentsInv, DocumentsTypeOK, RowsHaveFiles

LEMMA StorePackInv ==
    ASSUME DocumentsInv, NEW r \in Requests, StorePack(r)
    PROVE  DocumentsInv'
<1>. DEFINE k == Cardinality(packs) + 1
            j == [of |-> k, task |-> "PACK"]
<1>1. /\ k \in PackRefs /\ k \notin packStored /\ packStored' = packStored \cup {k}
      /\ Arrive(r, j, "stored", NoJob)
      /\ UNCHANGED <<doc, versions, packs, store>>
    BY DEF StorePack, docTables
<1>2. j \in [of : PackRefs, task : {"PACK"}] /\ j.of = k /\ j.task = "PACK"
    BY <1>1
<1>. HIDE DEF j, k
<1>3. /\ DocumentsRequestsOK' /\ step[r] = "idle" /\ step'[r] = "stored" /\ job'[r] = j
      /\ \A q \in Requests \ {r} : step'[q] = step[q] /\ job'[q] = job[q] /\ seen'[q] = seen[q]
    BY <1>1, Arrived
<1>4. packs \subseteq packStored
    BY DEF DocumentsInv, RowsHaveFiles
<1>5. DocumentsWork(r)'
    BY <1>1, <1>2, <1>3, <1>4 DEF DocumentsWork, Packing, Of
<1>6. ASSUME NEW q \in Requests \ {r}, step[q] # "idle" PROVE DocumentsWork(q)'
    BY <1>1, <1>3, <1>6, StoredThings, KeepsDocumentsWork DEF Documented
<1>7. StoredApart'
  <2>. SUFFICES ASSUME NEW q \in Requests, NEW p \in Requests, q # p
                PROVE  /\ HasFile(q)' /\ HasFile(p)' => job'[q].path # job'[p].path
                       /\ HasPack(q)' /\ HasPack(p)' => Of(q)' # Of(p)'
      BY DEF StoredApart
  <2>1. ASSUME NEW t \in Requests \ {r}
        PROVE  /\ HasFile(t)' <=> HasFile(t)
               /\ HasPack(t)' <=> HasPack(t)
               /\ Of(t)' = Of(t)
               /\ HasPack(t) => Of(t) # k
      BY <1>1, <1>3, StoredThings DEF HasFile, HasPack, Of
  <2>2. ~HasFile(r)' /\ Of(r)' = k
      BY <1>2, <1>3 DEF HasFile, Of
  <2>. QED BY <1>3, <2>1, <2>2 DEF DocumentsInv, StoredApart
<1>. QED BY <1>1, <1>3, <1>4, <1>5, <1>6, <1>7, TablesKept
            DEF DocumentsInv, DocumentsTypeOK, RowsHaveFiles

\* A failed commit takes back what its own request has stored; a lost one leaves it.
LEMMA FailInv ==
    ASSUME DocumentsInv, NEW r \in Requests, FailFile(r) \/ FailPack(r) \/ AbandonFile(r)
    PROVE  DocumentsInv'
<1>1. Finish(r) /\ step[r] # "idle" /\ UNCHANGED <<doc, versions, packs>>
    BY DEF FailFile, FailPack, AbandonFile, Abandon, docTables
<1>2. \/ HasFile(r) /\ store' = [store EXCEPT ![job[r].path] = NoFile] /\ packStored' = packStored
      \/ HasPack(r) /\ packStored' = packStored \ {Of(r)} /\ store' = store
      \/ UNCHANGED <<store, packStored>>
    BY DEF FailFile, FailPack, AbandonFile, storeVars, HasFile, HasPack
<1>3. /\ HasFile(r) => job[r].path \in Paths /\ \A v \in versions : v.path # job[r].path
      /\ HasPack(r) => Of(r) \in packStored \ packs
    BY <1>1, StoredThings DEF FileJobs
<1>4. /\ store' \in [Paths -> Contents \cup {Corrupt, NoFile}]
      /\ \A p \in Paths : store'[p] = store[p] \/ (HasFile(r) /\ p = job[r].path)
    BY <1>2, DocumentTables DEF DocumentsInv
<1>5. \A v \in versions : v.path \in Paths /\ store'[v.path] = store[v.path]
  <2>1. \A v \in versions : v.path \in Paths
      BY DocumentTables DEF DocumentsInv, VersionRow
  <2>. QED BY <1>3, <1>4, <2>1
<1>6. packs \subseteq packStored' /\ packStored' \subseteq PackRefs
    BY <1>2, <1>3 DEF DocumentsInv, DocumentsTypeOK, RowsHaveFiles
<1>7. /\ DocumentsRequestsOK' /\ StoredApart' /\ step'[r] = "idle"
      /\ \A q \in Requests \ {r} : step'[q] = step[q] /\ job'[q] = job[q] /\ seen'[q] = seen[q]
    BY <1>1, Finished
<1>8. ASSUME NEW q \in Requests, step'[q] # "idle" PROVE DocumentsWork(q)'
  <2>1. q # r /\ step[q] # "idle"
      BY <1>7, <1>8
  <2>2. HasFile(q) => store'[job[q].path] \in {job[q].hash, Corrupt}
    <3>1. ASSUME HasFile(q) PROVE job[q].path \in Paths /\ (HasFile(r) => job[q].path # job[r].path)
        BY <2>1, <3>1, StoredThings DEF DocumentsInv, StoredApart, FileJobs
    <3>. QED BY <1>4, <2>1, <3>1, StoredThings
  <2>3. HasPack(q) => Of(q) \in packStored' \ packs'
      BY <1>1, <1>2, <2>1, StoredThings DEF DocumentsInv, StoredApart
  <2>. QED BY <1>1, <1>5, <1>7, <2>1, <2>2, <2>3, StoredThings, KeepsDocumentsWork DEF Documented
<1>. QED BY <1>1, <1>4, <1>5, <1>6, <1>7, <1>8, TablesKept

-----------------------------------------------------------------------------
(***************************************************************************)
(* Steps that write documents, versions or packs.                          *)
(***************************************************************************)
\* A version of one document leaves the others alone.
LEMMA OthersChained ==
    ASSUME DocumentsInv, NEW d \in Refs, NEW e \in Refs, e # d,
           NEW x, x.of = d, versions' = versions \cup {x}, UNCHANGED store,
           doc'[e] = doc[e]
    PROVE  Chained(e)' /\ (~doc'[e].verified => Alarmed(e)')
<1>1. VersionsOf(e)' = VersionsOf(e)
    BY DEF VersionsOf
<1>2. /\ NumbersOf(e)' = NumbersOf(e) /\ (Forked(e)' <=> Forked(e)) /\ (Mixable(e)' <=> Mixable(e))
      /\ (e \in Documented' <=> e \in Documented)
    BY <1>1 DEF NumbersOf, Forked, Mixable, Documented
<1>3. \A z : z.of = e => (z \in versions' <=> z \in versions)
    OBVIOUS
<1>4. Shown(e, doc[e]) => Shown(e, doc[e])'
    BY StaysShown DEF Shown, DocRow, VersionsOf, Forked, Mixable
<1>. QED BY <1>1, <1>2, <1>4, StaysAlarmed
            DEF DocumentsInv, Chained, Shown, DocRow, Forked, Mixable, VersionsOf

LEMMA CommitUploadInv ==
    ASSUME DocumentsInv, NEW r \in Requests, CommitUpload(r)
    PROVE  DocumentsInv'
<1>1. step[r] = "stored" /\ job[r].task = "UPLOAD" /\ Storing(r) /\ job[r] \in FileJobs
    BY StoredThings DEF CommitUpload, HasFile
<1>. PICK d \in Refs : d = Of(r)
    BY <1>1 DEF FileJobs, Of
<1>. PICK j \in FileJobs : j = job[r]
    BY <1>1
<1>. DEFINE row == Renumbered(NoDoc, j)
            x == Version(d, 1, j.hash, j.path, j.name)
<1>2. /\ d \notin Documented /\ doc' = [doc EXCEPT ![d] = row] /\ versions' = versions \cup {x}
      /\ Finish(r) /\ UNCHANGED <<packs, store, packStored>>
    BY DEF CommitUpload, storeVars, VersionOf
<1>3. /\ row \in DocRow /\ row.current = 1 /\ row.hash = j.hash /\ row.path = j.path /\ row.name = j.name
      /\ row.verified = TRUE
  <2>1. NoDoc \in DocRow /\ NoDoc.current = 0 /\ NoDoc.verified = TRUE
      BY DEF NoDoc, DocRow
  <2>. QED BY <2>1, RenumberedDocument
<1>4. /\ x.of = d /\ x.number = 1 /\ x.hash = j.hash /\ x.path = j.path /\ x.name = j.name
      /\ x = Version(d, 1, j.hash, j.path, j.name) /\ x \in VersionRow
    BY VersionFields DEF Version, VersionRow, FileJobs
<1>. HIDE DEF row, x
<1>5. store[x.path] \in {x.hash, Corrupt} /\ \A v \in versions : v.path # x.path
    BY <1>1, <1>4 DEF Storing
<1>6. doc' \in [Refs -> DocRow] /\ doc'[d] = row /\ \A e \in Refs \ {d} : doc'[e] = doc[e]
    BY <1>2, <1>3, DocumentTables DEF DocumentsInv
<1>7. Documented' = Documented \cup {d}
    BY <1>3, <1>6 DEF Documented
<1>8. \A v \in versions : v.of # d
    BY <1>2 DEF DocumentsInv, VersionsOfDocuments
<1>9. DocumentsTypeOK'
    BY <1>2, <1>4, <1>6, DocumentTables DEF DocumentsInv, DocumentsTypeOK, DocRow, VersionRow
<1>10. /\ DocumentsRequestsOK' /\ StoredApart' /\ step'[r] = "idle"
       /\ \A q \in Requests \ {r} : step'[q] = step[q] /\ job'[q] = job[q] /\ seen'[q] = seen[q]
    BY <1>2, Finished
<1>11. ASSUME NEW q \in Requests, step'[q] # "idle" PROVE DocumentsWork(q)'
  <2>1. q # r /\ step[q] # "idle"
      BY <1>10, <1>11
  <2>2. HasFile(q) => \A v \in versions' \ versions : v.path # job[q].path
      BY <1>1, <1>2, <1>4, <2>1 DEF DocumentsInv, StoredApart, HasFile
  <2>. QED BY <1>2, <1>7, <1>10, <2>1, <2>2, StoredThings, KeepsDocumentsWork
<1>12. VersionsOfDocuments' /\ RowsHaveFiles'
    BY <1>2, <1>4, <1>5, <1>7 DEF DocumentsInv, VersionsOfDocuments, RowsHaveFiles
<1>13. Chained(d)'
  <2>1. VersionsOf(d)' = {x}
      BY <1>2, <1>4, <1>8 DEF VersionsOf
  <2>2. NumbersOf(d)' = 1 .. 1 /\ ~Forked(d)'
      BY <1>4, <2>1 DEF NumbersOf, Forked
  <2>3. Version(d, row.current, row.hash, row.path, row.name) = x /\ x \in versions'
      BY <1>2, <1>3, <1>4
  <2>4. Shown(d, doc[d])'
      BY <1>3, <1>4, <1>6, <2>1, <2>3 DEF Shown, DocRow, Version
  <2>. QED BY <1>3, <1>6, <2>2, <2>4 DEF Chained
<1>14. ASSUME NEW e \in Refs PROVE Chained(e)' /\ (~doc'[e].verified => Alarmed(e)')
  <2>1. CASE e = d
      BY <1>3, <1>6, <1>13, <2>1
  <2>2. CASE e # d
      BY <1>2, <1>4, <1>6, <2>2, OthersChained
  <2>. QED BY <2>1, <2>2
<1>. QED BY <1>9, <1>10, <1>11, <1>12, <1>14 DEF DocumentsInv

LEMMA CommitReplacementInv ==
    ASSUME DocumentsInv, NEW r \in Requests, CommitReplacement(r)
    PROVE  DocumentsInv'
<1>1. step[r] = "stored" /\ job[r].task = "REPLACE" /\ Storing(r) /\ Based(r) /\ job[r] \in FileJobs
  <2>1. step[r] = "stored" /\ job[r].task = "REPLACE" /\ Storing(r) /\ job[r] \in FileJobs
      BY StoredThings DEF CommitReplacement, HasFile
  <2>. QED BY <2>1 DEF Storing
<1>. PICK d \in Refs : d = Of(r)
    BY <1>1 DEF FileJobs, Of
<1>. PICK j \in FileJobs : j = job[r]
    BY <1>1
<1>. PICK old \in DocRow : old = seen[r]
    BY <1>1 DEF Based, Shown
<1>. DEFINE n == old.current + 1
            new == Renumbered(old, j)
            row == Written(doc[d], old, new)
            x == Version(d, n, j.hash, j.path, j.name)
<1>2. /\ doc' = [doc EXCEPT ![d] = row] /\ versions' = versions \cup {x}
      /\ Finish(r) /\ UNCHANGED <<packs, store, packStored>>
    BY DEF CommitReplacement, storeVars, VersionOf
<1>3. doc \in [Refs -> DocRow] /\ d \in Documented /\ Shown(d, old) /\ Chained(d)
    BY <1>1, DocumentTables DEF DocumentsInv, Based
<1>4. old.current \in Nat /\ n \in Nat \ {0}
    BY DEF DocRow
<1>5. /\ x.of = d /\ x.number = n /\ x.hash = j.hash /\ x.path = j.path /\ x.name = j.name
      /\ x = Version(d, n, j.hash, j.path, j.name) /\ x \in VersionRow
    BY <1>4, VersionFields DEF Version, VersionRow, FileJobs
<1>6. store[x.path] \in {x.hash, Corrupt} /\ \A v \in versions : v.path # x.path
    BY <1>1, <1>5 DEF Storing
<1>7. j.path # old.path
    BY <1>3, <1>5, <1>6 DEF Shown, VersionsOf
<1>8. /\ row \in DocRow
      /\ row.current = n /\ row.path = j.path /\ row.verified = doc[d].verified
      /\ row.hash = IF j.hash = old.hash THEN doc[d].hash ELSE j.hash
      /\ row.name = IF j.name = old.name THEN doc[d].name ELSE j.name
  <2>1. /\ new \in DocRow /\ new.current = n /\ new.hash = j.hash /\ new.path = j.path /\ new.name = j.name
        /\ new.verified = old.verified
      BY RenumberedDocument
  <2>2. n # old.current
      BY <1>4
  <2>. HIDE DEF new, n
  <2>3. /\ row \in DocRow
        /\ row.current = IF new.current = old.current THEN doc[d].current ELSE new.current
        /\ row.hash = IF new.hash = old.hash THEN doc[d].hash ELSE new.hash
        /\ row.path = IF new.path = old.path THEN doc[d].path ELSE new.path
        /\ row.name = IF new.name = old.name THEN doc[d].name ELSE new.name
        /\ row.verified = IF new.verified = old.verified THEN doc[d].verified ELSE new.verified
      BY <1>3, <2>1, WrittenDocument
  <2>. HIDE DEF row
  <2>. QED BY <1>7, <2>1, <2>2, <2>3
<1>. HIDE DEF row, x
<1>9. doc' \in [Refs -> DocRow] /\ doc'[d] = row /\ \A e \in Refs \ {d} : doc'[e] = doc[e]
    BY <1>2, <1>3, <1>8
<1>10. Documented' = Documented
    BY <1>3, <1>4, <1>8, <1>9 DEF Documented
<1>11. DocumentsTypeOK'
    BY <1>2, <1>5, <1>9, DocumentTables DEF DocumentsInv, DocumentsTypeOK, DocRow, VersionRow
<1>12. /\ DocumentsRequestsOK' /\ StoredApart' /\ step'[r] = "idle"
       /\ \A q \in Requests \ {r} : step'[q] = step[q] /\ job'[q] = job[q] /\ seen'[q] = seen[q]
    BY <1>2, Finished
<1>13. ASSUME NEW q \in Requests, step'[q] # "idle" PROVE DocumentsWork(q)'
  <2>1. q # r /\ step[q] # "idle"
      BY <1>12, <1>13
  <2>2. HasFile(q) => \A v \in versions' \ versions : v.path # job[q].path
      BY <1>1, <1>2, <1>5, <2>1 DEF DocumentsInv, StoredApart, HasFile
  <2>. QED BY <1>2, <1>10, <1>12, <2>1, <2>2, StoredThings, KeepsDocumentsWork
<1>14. VersionsOfDocuments' /\ RowsHaveFiles'
    BY <1>2, <1>3, <1>5, <1>6, <1>10 DEF DocumentsInv, VersionsOfDocuments, RowsHaveFiles
<1>15. PICK k \in Nat : NumbersOf(d) = 1 .. k
    BY <1>3 DEF Chained
<1>16. /\ VersionsOf(d)' = VersionsOf(d) \cup {x} /\ x \notin VersionsOf(d)
       /\ NumbersOf(d)' = NumbersOf(d) \cup {n} /\ old.current \in 1 .. k
  <2>1. VersionsOf(d)' = VersionsOf(d) \cup {x} /\ x \notin VersionsOf(d)
      BY <1>2, <1>5, <1>6 DEF VersionsOf
  <2>. QED BY <1>3, <1>5, <1>15, <2>1 DEF NumbersOf, Shown
\* Where no two versions share a number, the document had not changed since it was loaded.
<1>17. ASSUME ~Forked(d)'
       PROVE  /\ Version(d, row.current, row.hash, row.path, row.name) = x
              /\ \A m \in NumbersOf(d)' : m <= row.current
  <2>1. ~Forked(d)
      BY <1>2, <1>17, MoreVersions
  <2>2. n \notin 1 .. k
      BY <1>5, <1>15, <1>16, <1>17 DEF Forked, NumbersOf
  <2>3. old.current = k
      BY <1>4, <1>15, <1>16, <2>2
  <2>4. doc[d].current \in 1 .. k /\ \A m \in 1 .. k : m <= doc[d].current
      BY <1>3, <1>15, <2>1 DEF Chained, Shown, NumbersOf
  <2>5. doc[d].current = old.current
      BY <1>15, <2>3, <2>4, <1>16
  <2>6. Version(d, old.current, old.hash, old.path, old.name) =
          Version(d, doc[d].current, doc[d].hash, doc[d].path, doc[d].name)
      BY <1>3, <2>1, <2>5, VersionFields DEF Chained, Shown, Forked, VersionsOf
  <2>7. old.hash = doc[d].hash /\ old.name = doc[d].name
      BY <2>6, VersionFields
  <2>8. row.hash = j.hash /\ row.name = j.name
      BY <1>8, <2>7
  <2>. QED BY <1>4, <1>5, <1>8, <1>15, <1>16, <2>3, <2>8
<1>18. Shown(d, doc[d])'
  <2>1. \E v \in VersionsOf(d)' : v.number = row.current /\ v.path = row.path
      BY <1>5, <1>8, <1>16
  <2>2. ~Forked(d)' => Version(d, row.current, row.hash, row.path, row.name) \in versions'
      BY <1>2, <1>17
  <2>3. CASE j.hash # old.hash
    <3>1. x \in VersionsOf(d)' /\ x.path = row.path /\ x.hash = row.hash
        BY <1>5, <1>8, <1>16, <2>3
    <3>. QED BY <1>8, <1>9, <2>1, <2>2, <3>1 DEF Shown, DocRow, Version
  <2>4. CASE ~Forked(d)'
    <3>1. x \in VersionsOf(d)' /\ x.path = row.path /\ x.hash = row.hash
      <4>1. x.hash = row.hash
          BY <1>17, <2>4, VersionFields
      <4>. QED BY <1>5, <1>8, <1>16, <4>1
    <3>. QED BY <1>8, <1>9, <2>1, <2>2, <3>1 DEF Shown, DocRow, Version
  <2>5. CASE Forked(d)' /\ j.hash = old.hash
    <3>1. CASE Mixable(d)
      <4>1. Mixable(d)'
          BY <1>2, <3>1, MoreVersions
      <4>. QED BY <1>8, <1>9, <2>1, <2>2, <4>1 DEF Shown, DocRow, Version
    <3>2. CASE ~Mixable(d)
      <4>1. PICK w \in VersionsOf(d) : w.hash = old.hash
          BY <1>3, <3>2 DEF Shown
      <4>2. w \in VersionsOf(d)' /\ x \in VersionsOf(d)' /\ w # x /\ w.hash = x.hash
          BY <1>5, <1>16, <2>5, <4>1
      <4>3. Mixable(d)'
          BY <2>5, <4>2 DEF Mixable
      <4>. QED BY <1>8, <1>9, <2>1, <2>2, <4>3 DEF Shown, DocRow, Version
    <3>. QED BY <3>1, <3>2
  <2>. QED BY <2>3, <2>4, <2>5
<1>19. Chained(d)'
  <2>1. \E m \in Nat : NumbersOf(d)' = 1 .. m
    <3>1. CASE n \in 1 .. k
        BY <1>15, <1>16, <3>1
    <3>2. CASE n \notin 1 .. k
      <4>1. NumbersOf(d)' = 1 .. n /\ n \in Nat
          BY <1>4, <1>15, <1>16, <3>2
      <4>. QED BY <4>1
    <3>. QED BY <3>1, <3>2
  <2>. QED BY <1>9, <1>17, <1>18, <2>1 DEF Chained
<1>20. ASSUME NEW e \in Refs PROVE Chained(e)' /\ (~doc'[e].verified => Alarmed(e)')
  <2>1. CASE e = d
    <3>1. Alarmed(d) => Alarmed(d)'
        BY <1>2, StaysAlarmed
    <3>. QED BY <1>8, <1>9, <1>19, <2>1, <3>1 DEF DocumentsInv
  <2>2. CASE e # d
      BY <1>2, <1>5, <1>9, <2>2, OthersChained
  <2>. QED BY <2>1, <2>2
<1>. QED BY <1>11, <1>12, <1>13, <1>14, <1>20 DEF DocumentsInv

LEMMA CommitVerifyInv ==
    ASSUME DocumentsInv, NEW r \in Requests, CommitVerify(r)
    PROVE  DocumentsInv'
<1>1. step[r] = "compared" /\ Verifying(r)
    BY StoredThings DEF CommitVerify, DocumentsWork
<1>. PICK d \in Refs : d = Of(r)
    BY <1>1 DEF Verifying, Of
<1>. PICK old \in DocRow : old = seen[r]
    BY <1>1 DEF Verifying, Based, Shown
<1>. DEFINE new == [old EXCEPT !.verified = job[r].match]
            row == Written(doc[d], old, new)
<1>2. /\ doc' = [doc EXCEPT ![d] = row]
      /\ Finish(r) /\ UNCHANGED <<versions, packs, store, packStored>>
    BY DEF CommitVerify, storeVars
<1>3. doc \in [Refs -> DocRow] /\ job[r].match \in BOOLEAN
    BY <1>1, DocumentTables DEF DocumentsInv, Verifying
<1>4. /\ new \in DocRow /\ new.current = old.current /\ new.hash = old.hash /\ new.path = old.path
      /\ new.name = old.name /\ new.verified = job[r].match
    BY <1>3 DEF DocRow
<1>. HIDE DEF new
<1>5. /\ row \in DocRow /\ row.current = doc[d].current /\ row.hash = doc[d].hash
      /\ row.path = doc[d].path /\ row.name = doc[d].name
      /\ row.verified = IF new.verified = old.verified THEN doc[d].verified ELSE new.verified
    BY <1>3, <1>4, WrittenDocument
<1>. HIDE DEF row
<1>6. doc' \in [Refs -> DocRow] /\ doc'[d] = row /\ \A e \in Refs \ {d} : doc'[e] = doc[e]
    BY <1>2, <1>3, <1>5
<1>7. \A e \in Refs : /\ doc'[e].current = doc[e].current /\ doc'[e].hash = doc[e].hash
                      /\ doc'[e].path = doc[e].path /\ doc'[e].name = doc[e].name /\ doc'[e] \in DocRow
    BY <1>5, <1>6
<1>8. Documented' = Documented
    BY <1>7 DEF Documented
<1>9. DocumentsTypeOK' /\ VersionsOfDocuments' /\ RowsHaveFiles'
    BY <1>2, <1>6, <1>8
       DEF DocumentsInv, DocumentsTypeOK, DocRow, VersionsOfDocuments, RowsHaveFiles
<1>10. /\ DocumentsRequestsOK' /\ StoredApart' /\ step'[r] = "idle"
       /\ \A q \in Requests \ {r} : step'[q] = step[q] /\ job'[q] = job[q] /\ seen'[q] = seen[q]
    BY <1>2, Finished
<1>11. ASSUME NEW q \in Requests, step'[q] # "idle" PROVE DocumentsWork(q)'
    BY <1>2, <1>8, <1>10, <1>11, StoredThings, KeepsDocumentsWork
<1>12. ASSUME NEW e \in Refs PROVE Chained(e)'
  <2>1. VersionsOf(e)' = VersionsOf(e) /\ (Forked(e)' <=> Forked(e)) /\ (Mixable(e)' <=> Mixable(e))
        /\ NumbersOf(e)' = NumbersOf(e)
      BY <1>2 DEF VersionsOf, Forked, Mixable, NumbersOf
  <2>2. Shown(e, doc[e]) => Shown(e, doc[e])'
      BY <1>2, <1>7, <2>1 DEF Shown, Version, DocRow
  <2>. QED BY <1>7, <1>8, <2>1, <2>2 DEF DocumentsInv, Chained
<1>13. ASSUME NEW e \in Refs, ~doc'[e].verified PROVE Alarmed(e)'
  <2>1. Alarmed(e) => Alarmed(e)'
      BY <1>2, StaysAlarmed
  <2>2. CASE e # d
      BY <1>6, <1>13, <2>1, <2>2 DEF DocumentsInv
  <2>3. CASE e = d
    <3>1. CASE new.verified = old.verified
      <4>1. ~doc[d].verified
          BY <1>5, <1>6, <1>13, <2>3, <3>1
      <4>. QED BY <2>1, <2>3, <4>1 DEF DocumentsInv
    <3>2. CASE new.verified # old.verified
      <4>1. ~job[r].match
          BY <1>4, <1>5, <1>6, <1>13, <2>3, <3>2
      <4>. QED BY <1>1, <2>1, <2>3, <4>1 DEF Verifying
    <3>. QED BY <3>1, <3>2
  <2>. QED BY <2>2, <2>3
<1>. QED BY <1>9, <1>10, <1>11, <1>12, <1>13 DEF DocumentsInv

LEMMA CommitPackInv ==
    ASSUME DocumentsInv, NEW r \in Requests, CommitPack(r)
    PROVE  DocumentsInv'
<1>1. HasPack(r) /\ Of(r) \in packStored /\ Of(r) \in PackRefs
    BY StoredThings DEF CommitPack, HasPack, DocumentsInv, DocumentsTypeOK
<1>2. /\ packs' = packs \cup {Of(r)} /\ Finish(r)
      /\ UNCHANGED <<doc, versions, store, packStored>>
    BY DEF CommitPack, storeVars
<1>3. DocumentsTypeOK' /\ VersionsOfDocuments' /\ RowsHaveFiles'
    BY <1>1, <1>2
       DEF DocumentsInv, DocumentsTypeOK, VersionsOfDocuments, Documented, RowsHaveFiles
<1>4. /\ DocumentsRequestsOK' /\ StoredApart' /\ step'[r] = "idle"
      /\ \A q \in Requests \ {r} : step'[q] = step[q] /\ job'[q] = job[q] /\ seen'[q] = seen[q]
    BY <1>2, Finished
<1>5. ASSUME NEW q \in Requests, step'[q] # "idle" PROVE DocumentsWork(q)'
  <2>1. q # r /\ step[q] # "idle"
      BY <1>4, <1>5
  <2>2. HasPack(q) => Of(q) \in packStored' \ packs'
      BY <1>1, <1>2, <2>1, StoredThings DEF DocumentsInv, StoredApart
  <2>. QED BY <1>2, <1>4, <2>1, <2>2, StoredThings, KeepsDocumentsWork DEF Documented
<1>6. \A d \in Refs : Chained(d)'
    BY <1>2 DEF DocumentsInv, Chained, Shown, Mixable, Forked, VersionsOf, NumbersOf, Documented
<1>7. \A d \in Refs : ~doc'[d].verified => Alarmed(d)'
    BY <1>2, StaysAlarmed DEF DocumentsInv
<1>. QED BY <1>3, <1>4, <1>5, <1>6, <1>7 DEF DocumentsInv

LEMMA DocumentsNextInv ==
    ASSUME DocumentsInv, [DocumentsNext]_documentVars
    PROVE  DocumentsInv'
<1>1. CASE UNCHANGED documentVars
  <2>1. UNCHANGED <<doc, versions, packs, store, packStored, job, step, seen>>
      BY <1>1 DEF documentVars, docTables, storeVars, requestVars
  <2>2. DocumentsRequestsOK' /\ StoredApart'
      BY <2>1 DEF DocumentsInv, DocumentsRequestsOK, StoredApart, HasFile, HasPack, Of
  <2>3. ASSUME NEW q \in Requests, step'[q] # "idle" PROVE DocumentsWork(q)'
      BY <2>1, <2>3, StoredThings, KeepsDocumentsWork DEF Documented
  <2>. QED BY <2>1, <2>2, <2>3, TablesKept DEF DocumentsInv, DocumentsTypeOK, RowsHaveFiles
<1>2. ASSUME NEW p \in Paths, Damage(p) PROVE DocumentsInv'
    BY <1>2, DamageInv
<1>3. ASSUME NEW r \in Requests, NEW h \in Contents, NEW p \in Paths, NEW name \in Names,
             StoreUpload(r, h, p, name) \/ \E d \in Refs : StoreReplacement(r, d, h, p, name)
      PROVE  DocumentsInv'
  <2>1. ASSUME StoreUpload(r, h, p, name) PROVE DocumentsInv'
    <3>. DEFINE d == Cardinality(Documented) + 1
    <3>1. d <= MaxDocs /\ StoreFile(r, d, "UPLOAD", NoDoc, h, p, name)
        BY <2>1 DEF StoreUpload
    <3>2. d \in Refs
        BY <3>1, NextRef
    <3>. HIDE DEF d
    <3>. QED BY <3>1, <3>2, StoreFileInv
  <2>2. ASSUME NEW d \in Refs, StoreReplacement(r, d, h, p, name) PROVE DocumentsInv'
      BY <2>2, StoreFileInv DEF StoreReplacement
  <2>. QED BY <1>3, <2>1, <2>2
<1>4. ASSUME NEW r \in Requests, NEW d \in Refs, LoadVerify(r, d) PROVE DocumentsInv'
    BY <1>4, LoadVerifyInv
<1>5. ASSUME NEW r \in Requests, FailFile(r) \/ FailPack(r) \/ AbandonFile(r) PROVE DocumentsInv'
    BY <1>5, FailInv
<1>. QED BY <1>1, <1>2, <1>3, <1>4, <1>5, StorePackInv, CommitUploadInv, CommitReplacementInv,
            CommitVerifyInv, CommitPackInv DEF DocumentsNext

\* Rows, files and requests fit together in every reachable state.
THEOREM DocumentsInvariant == DocumentsSpec => []DocumentsInv
BY DocumentsInitInv, DocumentsNextInv, PTL DEF DocumentsSpec

\* The tables and the store keep their shape.
THEOREM DocumentsTypeCorrect == DocumentsSpec => []DocumentsTypeOK
<1>1. DocumentsInv => DocumentsTypeOK
    BY DEF DocumentsInv
<1>. QED BY <1>1, DocumentsInvariant, PTL

\* No failure of one request takes the file of a version or pack on record.
THEOREM RecordedFilesStay == DocumentsSpec => []RowsHaveFiles
<1>1. DocumentsInv => RowsHaveFiles
    BY DEF DocumentsInv
<1>. QED BY <1>1, DocumentsInvariant, PTL

\* What the invariant says of a document is what the properties claim.
LEMMA ChainedDocuments ==
    ASSUME DocumentsInv
    PROVE  VersionsChain /\ NoFalseAlarm
<1>1. ASSUME NEW d \in Refs, NEW n \in NumbersOf(d) PROVE n = 1 \/ n - 1 \in NumbersOf(d)
  <2>1. PICK k \in Nat : NumbersOf(d) = 1 .. k
      BY DEF DocumentsInv, Chained
  <2>. QED BY <2>1
<1>2. VersionsChain
    BY <1>1 DEF VersionsChain, DocumentsInv, Chained, Shown
<1>. QED BY <1>2 DEF DocumentsInv, Alarmed, NoFalseAlarm

\* Versions form a chain to the file the document shows.
THEOREM VersionsAreChained == DocumentsSpec => []VersionsChain
BY ChainedDocuments, DocumentsInvariant, PTL

\* A document is marked unverified only for a version whose content has changed, unless
\* replacements overlapped and one of them brought a content again.
THEOREM AlarmsAreTrue == DocumentsSpec => []NoFalseAlarm
BY ChainedDocuments, DocumentsInvariant, PTL

=============================================================================
