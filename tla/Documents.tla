------------------------------ MODULE Documents ------------------------------
(***************************************************************************)
(* Documents, their versions and evidence packs (document_service.py) in   *)
(* the database, and their files in the object store (storage_driver.py).  *)
(* A file is stored before its row is committed, and deleted again when    *)
(* the commit fails; a worker may be lost in between.                      *)
(***************************************************************************)
EXTENDS WebRequests

CONSTANTS
    Contents,    \* what files hold, told apart by their SHA-256 hash
    Corrupt,     \* any other content
    Paths,       \* places in the object store
    Names,       \* the name and type a file comes with
    NoFile,
    MaxDocs,     \* bound on the number of documents
    MaxPacks     \* bound on the number of evidence packs

ASSUME DocumentsAssumption ==
    /\ MaxDocs \in Nat /\ MaxPacks \in Nat
    /\ Corrupt \notin Contents /\ NoFile \notin Contents /\ NoFile \notin Paths /\ Corrupt # NoFile

Refs == 1 .. MaxDocs
PackRefs == 1 .. MaxPacks

VARIABLES
    doc,          \* the documents table, by the number in doc_ref
    versions,     \* the document_versions table
    packs,        \* the evidence_packs table
    store,        \* the object store: the content at each path
    packStored    \* pack files, whose path is the reference of the pack

docTables == <<doc, versions, packs>>
storeVars == <<store, packStored>>
documentVars == <<docTables, storeVars, requestVars>>

NoDoc == [current |-> 0, hash |-> NoFile, path |-> NoFile, name |-> NoFile, verified |-> TRUE]

DocumentsInit ==
    /\ doc = [d \in Refs |-> NoDoc]
    /\ versions = {} /\ packs = {}
    /\ store = [p \in Paths |-> NoFile] /\ packStored = {}
    /\ RequestsInit

Documented == {d \in Refs : doc[d].current > 0}

\* What happens to a file outside the program; to one at a time, a bound.
Damage(p) ==
    /\ store[p] # NoFile
    /\ \A q \in Paths : store[q] # Corrupt
    /\ store' = [store EXCEPT ![p] = Corrupt]
    /\ UNCHANGED <<docTables, packStored, requestVars>>

-----------------------------------------------------------------------------
Version(d, n, h, p, name) == [of |-> d, number |-> n, hash |-> h, path |-> p, name |-> name]

\* Whatever the content, it goes to a path no file has: tokens are random.
StoreFile(r, d, task, row, h, p, name) ==
    /\ store[p] = NoFile
    /\ store' = [store EXCEPT ![p] = h]
    /\ Arrive(r, [of |-> d, task |-> task, hash |-> h, path |-> p, name |-> name], "stored", row)
    /\ UNCHANGED <<docTables, packStored>>

\* The reference is the number of documents plus one.
StoreUpload(r, h, p, name) ==
    LET d == Cardinality(Documented) + 1 IN
    d <= MaxDocs /\ StoreFile(r, d, "UPLOAD", NoDoc, h, p, name)

StoreReplacement(r, d, h, p, name) ==
    d \in Documented /\ StoreFile(r, d, "REPLACE", doc[d], h, p, name)

\* Mutant: a replacement keeps the version number.
RenumberedNot(row, j) ==
    [row EXCEPT !.current = IF @ = 0 THEN 1 ELSE @, !.hash = j.hash, !.path = j.path, !.name = j.name]

\* The document with a further file; is_verified is not reset.
Renumbered(row, j) ==
    [row EXCEPT !.current = @ + 1, !.hash = j.hash, !.path = j.path, !.name = j.name]

VersionOf(r, n) == Version(Of(r), n, job[r].hash, job[r].path, job[r].name)

\* The reference is unique.
CommitUpload(r) ==
    /\ step[r] = "stored" /\ job[r].task = "UPLOAD"
    /\ Of(r) \notin Documented
    /\ doc' = [doc EXCEPT ![Of(r)] = Renumbered(NoDoc, job[r])]
    /\ versions' = versions \cup {VersionOf(r, 1)}
    /\ Finish(r)
    /\ UNCHANGED <<packs, storeVars>>

\* The path is always another one, but a hash or name the row was loaded with is not written.
CommitReplacement(r) ==
    /\ step[r] = "stored" /\ job[r].task = "REPLACE"
    /\ doc' = [doc EXCEPT ![Of(r)] = Written(@, seen[r], Renumbered(seen[r], job[r]))]
    /\ versions' = versions \cup {VersionOf(r, seen[r].current + 1)}
    /\ Finish(r)
    /\ UNCHANGED <<packs, storeVars>>

\* The commit failed: the session is rolled back and the new file deleted.
FailFile(r) ==
    /\ step[r] = "stored" /\ job[r].task \in {"UPLOAD", "REPLACE"}
    /\ store' = [store EXCEPT ![job[r].path] = NoFile]
    /\ Finish(r)
    /\ UNCHANGED <<docTables, packStored>>

-----------------------------------------------------------------------------
Compare(r, d, content) ==
    Arrive(r, [of |-> d, task |-> "VERIFY", match |-> content = doc[d].hash], "compared", doc[d])

\* Mutant: a file that cannot be fetched does not match.
LoadVerifyStrictly(r, d) ==
    /\ d \in Documented
    /\ \E content \in {NoFile, store[doc[d].path]} : Compare(r, d, content)
    /\ UNCHANGED <<docTables, storeVars>>

\* Where the store has no file, or cannot be reached, nothing is written.
LoadVerify(r, d) ==
    /\ d \in Documented
    /\ store[doc[d].path] # NoFile
    /\ Compare(r, d, store[doc[d].path])
    /\ UNCHANGED <<docTables, storeVars>>

\* The result is written to the row as it was loaded, whatever version it has by now.
CommitVerify(r) ==
    /\ step[r] = "compared"
    /\ doc' = [doc EXCEPT ![Of(r)] = Written(@, seen[r], [seen[r] EXCEPT !.verified = job[r].match])]
    /\ Finish(r)
    /\ UNCHANGED <<versions, packs, storeVars>>

-----------------------------------------------------------------------------
\* Mutant: the store overwrites a file of the same path.
StorePackOverwriting(r) ==
    LET k == Cardinality(packs) + 1 IN
    /\ k <= MaxPacks
    /\ packStored' = packStored \cup {k}
    /\ Arrive(r, [of |-> k, task |-> "PACK"], "stored", NoJob)
    /\ UNCHANGED <<docTables, store>>

\* The path of a pack is its reference, and the store refuses to overwrite: a request
\* that finds the path taken fails before it has anything to delete.
StorePack(r) ==
    LET k == Cardinality(packs) + 1 IN
    /\ k \in PackRefs \ packStored
    /\ packStored' = packStored \cup {k}
    /\ Arrive(r, [of |-> k, task |-> "PACK"], "stored", NoJob)
    /\ UNCHANGED <<docTables, store>>

CommitPack(r) ==
    /\ step[r] = "stored" /\ job[r].task = "PACK"
    /\ Of(r) \notin packs
    /\ packs' = packs \cup {Of(r)}
    /\ Finish(r)
    /\ UNCHANGED <<doc, versions, storeVars>>

FailPack(r) ==
    /\ step[r] = "stored" /\ job[r].task = "PACK"
    /\ packStored' = packStored \ {Of(r)}
    /\ Finish(r)
    /\ UNCHANGED <<docTables, store>>

\* A lost worker, a failed delete, or an upload that fails after the store has taken the
\* file: the file stays in the store without a row.
AbandonFile(r) == Abandon(r) /\ UNCHANGED <<docTables, storeVars>>

DocumentsNext ==
    \/ \E p \in Paths : Damage(p)
    \/ \E r \in Requests :
        \/ \E h \in Contents, p \in Paths, name \in Names :
            \/ StoreUpload(r, h, p, name)
            \/ \E d \in Refs : StoreReplacement(r, d, h, p, name)
        \/ \E d \in Refs : LoadVerify(r, d)
        \/ CommitUpload(r) \/ CommitReplacement(r) \/ FailFile(r) \/ CommitVerify(r)
        \/ StorePack(r) \/ CommitPack(r) \/ FailPack(r) \/ AbandonFile(r)

DocumentsSpec == DocumentsInit /\ [][DocumentsNext]_documentVars

-----------------------------------------------------------------------------
\* Documents, versions, packs and the store have their shape.
DocumentsTypeOK ==
    /\ doc \in [Refs -> [current : Nat, hash : Contents \cup {NoFile}, path : Paths \cup {NoFile},
                         name : Names \cup {NoFile}, verified : BOOLEAN]]
    /\ versions \subseteq [of : Refs, number : Nat \ {0}, hash : Contents, path : Paths, name : Names]
    /\ packs \subseteq PackRefs /\ packStored \subseteq PackRefs
    /\ store \in [Paths -> Contents \cup {Corrupt, NoFile}]

\* Wherever a worker is lost or a commit fails, the failure of one request never takes
\* the file of another: each version on record has its file, with the content whose hash
\* it names or a damaged one, and each pack on record has its own.
RowsHaveFiles ==
    /\ \A v \in versions : store[v.path] \in {v.hash, Corrupt}
    /\ packs \subseteq packStored

VersionsOf(d) == {v \in versions : v.of = d}
NumbersOf(d) == {v.number : v \in VersionsOf(d)}

\* Two replacements of the document overlapped, as its versions show.
Forked(d) == \E v, w \in VersionsOf(d) : v # w /\ v.number = w.number

\* The versions of a document are numbered without a gap, and its number and its path
\* are those of one of them; unless two versions share a number, the document shows
\* the last one, with its hash, path and name.
VersionsChain ==
    \A d \in Refs :
        /\ \A n \in NumbersOf(d) : n = 1 \/ n - 1 \in NumbersOf(d)
        /\ d \in Documented => \E v \in VersionsOf(d) : v.number = doc[d].current /\ v.path = doc[d].path
        /\ d \in Documented /\ ~Forked(d) =>
              /\ Version(d, doc[d].current, doc[d].hash, doc[d].path, doc[d].name) \in versions
              /\ \A n \in NumbersOf(d) : n <= doc[d].current

\* Replacements overlapped, and a content was uploaded again.
Mixable(d) == Forked(d) /\ \E v, w \in VersionsOf(d) : v # w /\ v.hash = w.hash

\* A document is marked unverified only if the file of one of its versions has changed
\* in the store, or if replacements overlapped and one brought a content again: its row
\* may then have the hash of one file beside the path of another.  The reason is never
\* a store that cannot be reached, nor a replacement between the comparison and the
\* write of its result.
NoFalseAlarm ==
    \A d \in Refs : ~doc[d].verified =>
        Mixable(d) \/ \E v \in VersionsOf(d) : store[v.path] = Corrupt

=============================================================================
