-------------------------------- MODULE Catalogue --------------------------------
(***************************************************************************)
(* The catalogue of one seller: what the dashboard saves, publishes and      *)
(* photographs (catalog.service.ts, publish.service.ts, import-photos.ts),   *)
(* the spreadsheet import (import.service.ts), and the administrator who     *)
(* verifies, suspends and moderates (admin.service.ts).                      *)
(*                                                                         *)
(* A product is identified by its code: at most one live row carries it.     *)
(* A request that still holds the id of a row deleted meanwhile is marked    *)
(* gone, since a later row under that code is another one.  Every query of   *)
(* its own is a step; what it read is kept in the request.                   *)
(***************************************************************************)
EXTENDS Integers, FiniteSets, FiniteSetsExt

CONSTANTS
    Products,     \* the codes (sku) of the catalogue
    PhotoCap,     \* MAX_PHOTOS_PER_PRODUCT
    MaxProducts,  \* Plan.maxProducts
    Requests,     \* server actions that run at once
    MaxForms, MaxAdmin, MaxUploads,   \* bounds of one behaviour
    MaxRare       \* bound on deletions, failing transactions and deaths together

ASSUME CatalogueAssumption ==
    /\ IsFiniteSet(Products)
    /\ PhotoCap \in Nat \ {0} /\ MaxProducts \in Nat
    /\ MaxForms \in Nat /\ MaxAdmin \in Nat /\ MaxUploads \in Nat /\ MaxRare \in Nat

VARIABLES
    seller,    \* Seller.status; SUSPENDED stands for REJECTED too
    product,   \* the live row under each code, or NoProduct
    ghost,     \* the codes that a deleted row holds
    job,       \* the latest ImportJob
    rows,      \* how the preview classified the row of each code
    staged,    \* whether the batch is still in the store
    req,       \* the requests in progress
    writes,    \* history: how often each row of the job was written
    jobDied,   \* history: a process died while it worked on the job
    late,      \* history: saves that overlapped the verification of the seller
    torn,      \* history: moderations that overlapped another write or were cut short
    unreleased,\* history: a verification died before it released the content
    used       \* how much of each bound is spent

catalogue == <<seller, product, ghost>>
import == <<job, rows, staged, writes, jobDied>>
history == <<late, torn, unreleased>>
vars == <<catalogue, import, req, history, used>>

SellerStatuses == {"PENDING_VERIFICATION", "VERIFIED", "SUSPENDED", "BANNED"}
Moderations == {"PENDING", "APPROVED", "REJECTED"}
NoPhotos == [m \in Moderations |-> 0]
PhotoCount(ph) == ph["PENDING"] + ph["APPROVED"] + ph["REJECTED"]
Photos(n, m) == [NoPhotos EXCEPT ![m] = n]
NoProduct == [published |-> FALSE, moderation |-> "none", photos |-> NoPhotos]
Live(p) == product[p] # NoProduct
RowStates == {"none", "new", "update", "gone", "over_limit"}
Importable == {p \in Products : rows[p] \in {"new", "update", "gone"}}
Bounds == [forms |-> MaxForms, admin |-> MaxAdmin, uploads |-> MaxUploads, rare |-> MaxRare]

Idle == [next |-> "idle"]
Importing == {"claim", "signals", "read", "write", "finish", "discard"}
Request == {Idle}
    \cup [next : {"create"}, item : Products, verified : BOOLEAN]
    \cup [next : {"update"}, item : Products, saw : Moderations, gone : BOOLEAN]
    \cup [next : {"save"}, item : Products, saw : Moderations, verified : BOOLEAN, gone : BOOLEAN]
    \cup [next : {"publish"}, items : SUBSET Products]
    \cup [next : {"release"}]
    \cup [next : {"photos"}, item : Products, to : Moderations, gone : BOOLEAN]
    \cup [next : Importing, verified : BOOLEAN, alone : BOOLEAN,
          todo : SUBSET Products, batch : SUBSET Products, saw : [Products -> Moderations \cup {"none"}],
          created : SUBSET Products, failed : SUBSET Products]

Init ==
    /\ seller = "PENDING_VERIFICATION"
    /\ product = [p \in Products |-> NoProduct]
    /\ ghost = {}
    /\ job = [status |-> "none", landed |-> 0]
    /\ rows = [p \in Products |-> "none"]
    /\ staged = FALSE
    /\ req = [r \in Requests |-> Idle]
    /\ writes = [p \in Products |-> 0]
    /\ jobDied = FALSE
    /\ late = {} /\ torn = {} /\ unreleased = FALSE
    /\ used = [b \in DOMAIN Bounds |-> 0]

At(r, step) == req[r].next = step
Begin(r, request) == At(r, "idle") /\ req' = [req EXCEPT ![r] = request]
Finish(r) == req' = [req EXCEPT ![r] = Idle]
Spend(b) == used[b] < Bounds[b] /\ used' = [used EXCEPT ![b] = @ + 1]
Allowed == seller # "BANNED"      \* requireSeller

\* decideModeration.
Decided(verified) == IF verified THEN "APPROVED" ELSE "PENDING"
\* editRequiresRereview, and what a save then writes.
Rereviewed(verified, current) == IF current = "APPROVED" THEN Decided(verified) ELSE current

-----------------------------------------------------------------------------
(* The product form.                                                        *)

\* createProduct reads the signals first.
createProduct(r, p) ==
    /\ Allowed /\ Spend("forms")
    /\ Begin(r, [next |-> "create", item |-> p, verified |-> seller = "VERIFIED"])
    /\ UNCHANGED <<catalogue, import, history>>

\* A code that is taken is refused by the unique index (DUPLICATE_SKU).
createWrite(r, publish, n) ==
    LET p == req[r].item
        m == Decided(req[r].verified)
    IN
    /\ At(r, "create")
    /\ IF Live(p) \/ p \in ghost THEN UNCHANGED <<product, late>>
       ELSE /\ product' = [product EXCEPT ![p] =
                   [published |-> publish, moderation |-> m, photos |-> Photos(n, m)]]
            /\ late' = IF m = "PENDING" /\ seller = "VERIFIED" THEN late \cup {p} ELSE late
    /\ Finish(r)
    /\ UNCHANGED <<seller, ghost, import, torn, unreleased, used>>

updateProduct(r, p) ==
    /\ Allowed /\ Live(p) /\ Spend("forms")
    /\ Begin(r, [next |-> "update", item |-> p, saw |-> product[p].moderation, gone |-> FALSE])
    /\ UNCHANGED <<catalogue, import, history>>

updateSignals(r) ==
    /\ At(r, "update")
    /\ req' = [req EXCEPT ![r] = [next |-> "save", item |-> req[r].item, saw |-> req[r].saw,
                                  verified |-> seller = "VERIFIED", gone |-> req[r].gone]]
    /\ UNCHANGED <<catalogue, import, history, used>>

\* The product and its photographs in one transaction, with the status that was
\* read two queries ago.  The update is by id alone: a row deleted meanwhile
\* takes its code again, unless a new row has it by now.
updateWrite(r, publish, n) ==
    LET p == req[r].item
        m == Rereviewed(req[r].verified, req[r].saw)
    IN
    /\ At(r, "save")
    /\ IF req[r].gone
       THEN /\ ghost' = IF Live(p) THEN ghost ELSE ghost \cup {p}
            /\ UNCHANGED <<product, late>>
       ELSE /\ product' = [product EXCEPT ![p] =
                   [published |-> publish, moderation |-> m, photos |-> Photos(n, m)]]
            /\ late' = IF m = "PENDING" /\ seller = "VERIFIED" THEN late \cup {p} ELSE late
            /\ UNCHANGED ghost
    /\ Finish(r)
    /\ UNCHANGED <<seller, import, torn, unreleased, used>>

\* setCatalogStatus.
setCatalogStatus(p, publish) ==
    /\ Allowed /\ Spend("forms") /\ Live(p)
    /\ product' = [product EXCEPT ![p].published = publish]
    /\ UNCHANGED <<seller, ghost, import, req, history>>

\* Whoever holds the id of p holds the id of a deleted row from here on.
Forget(p) ==
    /\ product' = [product EXCEPT ![p] = NoProduct]
    /\ rows' = [rows EXCEPT ![p] = IF @ = "update" THEN "gone" ELSE @]
    /\ req' = [r \in Requests |->
          CASE req[r].next \in {"update", "save", "photos"} /\ req[r].item = p -> [req[r] EXCEPT !.gone = TRUE]
            [] req[r].next = "publish" -> [req[r] EXCEPT !.items = @ \ {p}]
            [] OTHER -> req[r]]
    /\ late' = late \ {p} /\ torn' = torn \ {p}

\* deleteCatalogItem: softDeleteProductData releases the code.
deleteCatalogItem(p) ==
    /\ Allowed /\ Live(p) /\ Spend("rare")
    /\ Forget(p)
    /\ UNCHANGED <<seller, ghost, job, staged, writes, jobDied, unreleased>>

-----------------------------------------------------------------------------
(* Publishing a selection.                                                  *)

\* partitionForPublish, on what publishProducts read.
Ready(p) == Live(p) /\ product[p].moderation # "REJECTED" /\ PhotoCount(product[p].photos) > 0
            /\ ~product[p].published

publishProducts(r, ticked) ==
    /\ Allowed /\ Spend("forms")
    /\ {p \in ticked : Ready(p)} # {}
    /\ Begin(r, [next |-> "publish", items |-> {p \in ticked : Ready(p)}])
    /\ UNCHANGED <<catalogue, import, history>>

\* Mutant: publishing decides moderation again, as an earlier version did.
publishWrite_Moderates(r) ==
    /\ At(r, "publish")
    /\ product' = [p \in Products |-> IF p \in req[r].items
           THEN [product[p] EXCEPT !.published = TRUE, !.moderation = Decided(seller = "VERIFIED")]
           ELSE product[p]]
    /\ Finish(r)
    /\ UNCHANGED <<seller, ghost, import, history, used>>

\* The status and nothing else.
publishWrite(r) ==
    /\ At(r, "publish")
    /\ product' = [p \in Products |->
           IF p \in req[r].items THEN [product[p] EXCEPT !.published = TRUE] ELSE product[p]]
    /\ Finish(r)
    /\ UNCHANGED <<seller, ghost, import, history, used>>

-----------------------------------------------------------------------------
(* Photographs.                                                             *)

RoomFor(p) == PhotoCount(product[p].photos) < PhotoCap

\* attachPhotoAction locks the product row, counts, and inserts with its status.
attachPhoto(p) ==
    /\ Allowed /\ Spend("forms") /\ Live(p) /\ RoomFor(p)
    /\ product' = [product EXCEPT ![p].photos[product[p].moderation] = @ + 1]
    /\ UNCHANGED <<seller, ghost, import, req, history>>

clearProductPhotos(ps) ==
    /\ Allowed /\ Spend("forms") /\ \A p \in ps : Live(p)
    /\ product' = [p \in Products |-> IF p \in ps THEN [product[p] EXCEPT !.photos = NoPhotos] ELSE product[p]]
    /\ UNCHANGED <<seller, ghost, import, req, history>>

-----------------------------------------------------------------------------
(* The administrator.                                                       *)

\* verifySeller and reinstateSeller: the status first, the content afterwards.
verifySeller(r) ==
    /\ Spend("admin") /\ Begin(r, [next |-> "release"])
    /\ seller' = "VERIFIED"
    /\ UNCHANGED <<product, ghost, import, history>>

Approve(ph) == [NoPhotos EXCEPT !["APPROVED"] = ph["APPROVED"] + ph["PENDING"], !["REJECTED"] = ph["REJECTED"]]

Release(prod) == [prod EXCEPT !.moderation = IF @ = "PENDING" THEN "APPROVED" ELSE @, !.photos = Approve(@)]

\* Mutant: only what is on the site is released.
releasePendingContent_Drafts(r) ==
    /\ At(r, "release")
    /\ product' = [p \in Products |-> IF product[p].published THEN Release(product[p]) ELSE product[p]]
    /\ Finish(r)
    /\ UNCHANGED <<seller, ghost, import, history, used>>

\* releasePendingContent, one transaction.
releasePendingContent(r) ==
    /\ At(r, "release")
    /\ product' = [p \in Products |-> Release(product[p])]
    /\ Finish(r)
    /\ late' = {} /\ unreleased' = FALSE
    /\ UNCHANGED <<seller, ghost, import, torn, used>>

\* suspendSeller, with or without a ban, and rejectSeller.
suspendSeller(status) ==
    /\ Spend("admin")
    /\ seller' = status
    /\ UNCHANGED <<product, ghost, import, req, history>>

\* moderateProduct: the product, then in a second statement its photographs.
moderateProduct(r, p, to) ==
    /\ Live(p) /\ Spend("admin")
    /\ Begin(r, [next |-> "photos", item |-> p, to |-> to, gone |-> FALSE])
    /\ product' = [product EXCEPT ![p].moderation = to]
    /\ UNCHANGED <<seller, ghost, import, history>>

moderatePhotos(r) ==
    LET p == req[r].item IN
    /\ At(r, "photos")
    /\ IF req[r].gone \/ ~Live(p) THEN UNCHANGED <<product, torn>>
       ELSE /\ product' = [product EXCEPT ![p].photos = Photos(PhotoCount(@), req[r].to)]
            /\ torn' = IF product[p].moderation = req[r].to THEN torn \ {p} ELSE torn \cup {p}
    /\ Finish(r)
    /\ UNCHANGED <<seller, ghost, import, late, unreleased, used>>

-----------------------------------------------------------------------------
(* The spreadsheet.                                                         *)

\* The upload route: the preview classifies each row and the job is created.
\* Bound: one job at a time, so a new file comes when no process works on the
\* last one.  A row in error is left out: like one over the limit it is not
\* written and makes the job PARTIAL.  The new rows that fit the plan are the first ones of the file.
upload(ok) ==
    /\ Allowed /\ Spend("uploads") /\ ok # {}
    /\ \A r \in Requests : req[r].next \notin Importing
    /\ LET left == MaxProducts - Cardinality({p \in Products : Live(p)})
           new == {p \in ok : ~Live(p)}
           room == IF left < 0 THEN 0 ELSE IF left < Cardinality(new) THEN left ELSE Cardinality(new)
       IN \E first \in kSubset(room, new) :
            rows' = [p \in Products |-> CASE p \notin ok -> "none"
                                           [] p \in first -> "new"
                                           [] p \in new -> "over_limit"
                                           [] OTHER -> "update"]
    /\ job' = [status |-> "PENDING", landed |-> 0]
    /\ staged' = TRUE
    /\ writes' = [p \in Products |-> 0] /\ jobDied' = FALSE
    /\ UNCHANGED <<catalogue, req, history>>

\* The store's thirty minutes.  Only where it matters: a job that was claimed
\* cannot be claimed again, with or without its batch.
expireBatch ==
    /\ staged /\ job.status = "PENDING"
    /\ staged' = FALSE
    /\ UNCHANGED <<catalogue, job, rows, writes, jobDied, req, history, used>>

NoSaw == [p \in Products |-> "none"]
Claim == [next |-> "claim", verified |-> FALSE, alone |-> FALSE, todo |-> {}, batch |-> {},
          saw |-> NoSaw, created |-> {}, failed |-> {}]

\* commitImportAction reads the batch; whether it may run is decided later.
commitImport(r) ==
    /\ Allowed /\ staged
    /\ Begin(r, Claim)
    /\ UNCHANGED <<catalogue, import, history, used>>

\* Mutant: the job is marked RUNNING whatever it was.
claimImport_Always(r) ==
    /\ At(r, "claim")
    /\ job' = [job EXCEPT !.status = "RUNNING"]
    /\ req' = [req EXCEPT ![r].next = "signals"]
    /\ UNCHANGED <<catalogue, rows, staged, writes, jobDied, history, used>>

\* runImport: PENDING to RUNNING; the one that comes second goes home.
claimImport(r) ==
    /\ At(r, "claim")
    /\ IF job.status = "PENDING"
       THEN /\ job' = [job EXCEPT !.status = "RUNNING"]
            /\ req' = [req EXCEPT ![r].next = "signals"]
       ELSE Finish(r) /\ UNCHANGED job
    /\ UNCHANGED <<catalogue, rows, staged, writes, jobDied, history, used>>

\* Moderation is decided once; the file is one chunk here.
importSignals(r) ==
    /\ At(r, "signals")
    /\ req' = [req EXCEPT ![r].next = IF Importable = {} THEN "finish" ELSE "read",
                          ![r].verified = (seller = "VERIFIED"), ![r].batch = Importable]
    /\ UNCHANGED <<catalogue, import, history, used>>

\* The transaction reads the rows it will update ...
importRead(r) ==
    /\ At(r, "read")
    /\ req' = [req EXCEPT ![r].next = "write",
                          ![r].saw = [p \in Products |-> IF p \in req[r].batch /\ rows[p] = "update"
                                                         THEN product[p].moderation ELSE "none"]]
    /\ UNCHANGED <<catalogue, import, history, used>>

\* What is next after a transaction: the rows still to be tried alone.
NextBatch(r, todo, created, failed) ==
    LET now == [req[r] EXCEPT !.created = created, !.failed = failed, !.saw = NoSaw, !.batch = {}] IN
    IF todo = {} THEN req' = [req EXCEPT ![r] = [now EXCEPT !.next = "finish", !.alone = FALSE, !.verified = FALSE]]
    ELSE \E p \in todo :
            req' = [req EXCEPT ![r] = [now EXCEPT !.next = "read", !.alone = TRUE,
                                                  !.todo = todo \ {p}, !.batch = {p}]]

\* moderationForImportUpdate, which is null where the column is not written.
Imported(r, p) ==
    CASE rows[p] = "new" -> [NoProduct EXCEPT !.moderation = Decided(req[r].verified)]
      [] rows[p] = "update" /\ ~req[r].verified /\ req[r].saw[p] = "APPROVED"
            -> [product[p] EXCEPT !.moderation = "PENDING"]
      [] OTHER -> product[p]

\* A code taken since the preview is refused by the unique index.
Refused(batch) == \E p \in batch : rows[p] = "new" /\ (Live(p) \/ p \in ghost)

\* ... and writes them all, in one commit.
importWrite(r) ==
    LET batch == req[r].batch
        kept == {p \in batch : rows[p] # "gone"}
    IN
    /\ At(r, "write") /\ ~Refused(batch)
    /\ product' = [p \in Products |-> IF p \in batch THEN Imported(r, p) ELSE product[p]]
    /\ late' = IF seller = "VERIFIED"
               THEN late \cup {p \in batch : product'[p] # product[p] /\ product'[p].moderation = "PENDING"}
               ELSE late
    /\ torn' = torn \cup {p \in batch : product'[p] # product[p] /\ req[r].saw[p] \notin {"none", product[p].moderation}}
    /\ writes' = [p \in Products |-> IF p \in kept THEN writes[p] + 1 ELSE writes[p]]
    /\ NextBatch(r, req[r].todo, req[r].created \cup kept, req[r].failed)
    /\ UNCHANGED <<seller, ghost, job, rows, staged, jobDied, unreleased, used>>

\* Mutant: the row that is refused alone is dropped without a word.
importRollback_Silent(r) ==
    LET batch == req[r].batch IN
    /\ At(r, "write")
    /\ IF Refused(batch) THEN UNCHANGED used ELSE Spend("rare")
    /\ IF req[r].alone THEN NextBatch(r, req[r].todo, req[r].created, req[r].failed)
       ELSE NextBatch(r, batch, {}, {})
    /\ UNCHANGED <<catalogue, import, history>>

\* The transaction is rolled back.  The rows of the chunk are tried again one by
\* one; a row that fails alone is counted.
importRollback(r) ==
    LET batch == req[r].batch IN
    /\ At(r, "write")
    /\ IF Refused(batch) THEN UNCHANGED used ELSE Spend("rare")
    /\ IF req[r].alone THEN NextBatch(r, req[r].todo, req[r].created, req[r].failed \cup batch)
       ELSE NextBatch(r, batch, {}, {})
    /\ UNCHANGED <<catalogue, import, history>>

\* The numbers of the job, PARTIAL where any row was not written.
finishImport(r) ==
    /\ At(r, "finish")
    /\ job' = [landed |-> Cardinality(req[r].created),
               status |-> IF req[r].failed # {} \/ \E p \in Products : rows[p] = "over_limit"
                          THEN "PARTIAL" ELSE "COMPLETED"]
    /\ req' = [req EXCEPT ![r] = [Claim EXCEPT !.next = "discard"]]
    /\ UNCHANGED <<catalogue, rows, staged, writes, jobDied, history, used>>

discardBatch(r) ==
    /\ At(r, "discard")
    /\ staged' = FALSE
    /\ Finish(r)
    /\ UNCHANGED <<catalogue, job, rows, writes, jobDied, history, used>>

-----------------------------------------------------------------------------
\* A process dies, or a query throws, between two statements.
processDies(r) ==
    /\ ~At(r, "idle") /\ Spend("rare")
    /\ Finish(r)
    /\ jobDied' = (jobDied \/ req[r].next \in Importing)
    /\ unreleased' = (unreleased \/ At(r, "release"))
    /\ torn' = IF At(r, "photos") THEN torn \cup {req[r].item} ELSE torn
    /\ UNCHANGED <<catalogue, job, rows, staged, writes, late>>

Next ==
    \/ \E p \in Products :
          \/ \E publish \in BOOLEAN : setCatalogStatus(p, publish)
          \/ deleteCatalogItem(p) \/ attachPhoto(p)
    \/ \E ps \in SUBSET Products : clearProductPhotos(ps)
    \/ \E status \in {"SUSPENDED", "BANNED"} : suspendSeller(status)
    \/ \E ok \in SUBSET Products : upload(ok)
    \/ expireBatch
    \/ \E r \in Requests :
          \/ \E p \in Products : createProduct(r, p) \/ updateProduct(r, p)
          \/ updateSignals(r)
          \/ \E publish \in BOOLEAN, n \in 0 .. PhotoCap : createWrite(r, publish, n) \/ updateWrite(r, publish, n)
          \/ \E ticked \in SUBSET Products : publishProducts(r, ticked)
          \/ publishWrite(r)
          \/ verifySeller(r) \/ releasePendingContent(r)
          \/ \E p \in Products, to \in {"APPROVED", "REJECTED"} : moderateProduct(r, p, to)
          \/ moderatePhotos(r)
          \/ commitImport(r) \/ claimImport(r) \/ importSignals(r) \/ importRead(r)
          \/ importWrite(r) \/ importRollback(r) \/ finishImport(r) \/ discardBatch(r)
          \/ processDies(r)

Spec == Init /\ [][Next]_vars

-----------------------------------------------------------------------------
(* Properties.                                                              *)

\* The columns' types; no product ever has more photographs than the cap,
\* however many uploads attach at once (attachPhotoAction).
TypeOK ==
    /\ seller \in SellerStatuses
    /\ \A p \in Products :
          \/ product[p] = NoProduct
          \/ /\ product[p].moderation \in Moderations /\ product[p].published \in BOOLEAN
             /\ product[p].photos \in [Moderations -> 0 .. PhotoCap]
             /\ PhotoCount(product[p].photos) <= PhotoCap
    /\ ghost \subseteq Products
    /\ job.status \in {"none", "PENDING", "RUNNING", "PARTIAL", "COMPLETED"}
    /\ job.landed \in 0 .. Cardinality(Products)
    /\ rows \in [Products -> RowStates]
    /\ staged \in BOOLEAN /\ jobDied \in BOOLEAN /\ unreleased \in BOOLEAN
    /\ req \in [Requests -> Request]
    /\ writes \in [Products -> Nat]
    /\ late \subseteq Products /\ torn \subseteq Products
    /\ \A b \in DOMAIN Bounds : used[b] \in 0 .. Bounds[b]

\* The step in which r writes p, where what it read of p still holds.
Writes(r, p) ==
    \/ /\ At(r, "save") /\ req[r].item = p /\ ~req[r].gone /\ req[r].saw = product[p].moderation
       /\ req'[r] = Idle /\ used' = used
    \/ /\ At(r, "write") /\ p \in req[r].batch /\ req[r].saw[p] = product[p].moderation
       /\ req'[r] # req[r] /\ writes'[p] > writes[p]
AdminAct == \E r \in Requests : At(r, "idle") /\ req'[r].next = "photos"

\* "The second must never be able to overwrite the first" (publish.service.ts):
\* what an administrator rejected leaves REJECTED by an administrator, by being
\* deleted, or by an edit that was already under way when it was rejected.
RejectionStands ==
    [][\A p \in Products :
          product[p].moderation = "REJECTED" /\ product'[p].moderation \notin {"REJECTED", "none"} =>
              AdminAct \/ \E r \in Requests :
                  \/ At(r, "save") /\ req'[r] = Idle /\ req[r].item = p /\ req[r].saw # "REJECTED"
                  \/ At(r, "write") /\ p \in req[r].batch /\ req[r].saw[p] # "REJECTED"]_vars

\* editRequiresRereview and its double in the import ("the import has to match
\* it or it becomes the softer path"): an edit for a seller who is not verified
\* leaves nothing approved that it found approved.
UnverifiedEditsAreReviewed ==
    [][\A r \in Requests, p \in Products :
          Writes(r, p) /\ ~req[r].verified => product'[p].moderation # "APPROVED"]_vars

\* "Approving a product used to leave its photos PENDING, so it went live with no
\* pictures" (moderateProduct): an approved product hides none of its photographs,
\* unless a moderation crossed another one, a save or an import, or its process died.
ApprovedShowsItsPhotos ==
    \A p \in Products \ torn :
        /\ product[p].moderation = "APPROVED"
        /\ \A r \in Requests : ~(At(r, "photos") /\ req[r].item = p)
        => product[p].photos = Photos(PhotoCount(product[p].photos), "APPROVED")

\* "Verifying the seller releases everything they have already added" (D38):
\* nothing of a verified seller waits for review, except what a save that began
\* before the verification wrote after it.
VerifiedIsReleased ==
    seller = "VERIFIED" /\ ~unreleased /\ (\A r \in Requests : ~At(r, "release"))
    => \A p \in Products \ late : product[p].moderation # "PENDING"

\* "The code goes back into circulation" (softDeleteProductData): a deleted row
\* holds its code only after an edit that read it before it was deleted.
DeletedFreesItsCode ==
    [][\A p \in ghost' \ ghost :
          \E r \in Requests : At(r, "save") /\ req[r].item = p /\ req[r].gone /\ req'[r] = Idle]_vars

\* The double-submit guard (runImport): however often Import is pressed, a row of
\* the file is written once.
RowsWrittenOnce == \A p \in Products : writes[p] <= 1

\* "The ImportJob row then says honestly that the import was partial": a finished
\* job counts what was written, and COMPLETED leaves nothing out but the rows
\* whose product the seller deleted meanwhile.
FinishedJobTellsWhatLanded ==
    /\ job.status \in {"PARTIAL", "COMPLETED"} => job.landed = Cardinality({p \in Products : writes[p] > 0})
    /\ job.status = "COMPLETED" => \A p \in Products : rows[p] \in {"new", "update"} => writes[p] = 1

\* A failing row costs that row: a job stays RUNNING only with a request that
\* works on it, or after a process died in it.
RunningIsWorkedOn ==
    job.status = "RUNNING" => jobDied \/ \E r \in Requests : req[r].next \in Importing \ {"claim", "discard"}
================================================================================
