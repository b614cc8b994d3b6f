----------------------------- MODULE Content_proofs -----------------------------
(***************************************************************************)
(* Proofs about what a seller shows: Catalogue, for any number of products,  *)
(* requests and uploads, whatever is deleted, rolled back or dies, and        *)
(* Indexability, for any number of handlers and any rules.                   *)
(*                                                                         *)
(* Catalogue.  Steady is what every step keeps of the rows: the types, that  *)
(* a request and the preview hold ids of live rows only (Present), and that   *)
(* the release left nothing waiting.  JobRight is what every step keeps of    *)
(* the import: one request at most works on the job (OneJob), and it knows    *)
(* which rows it wrote, which it failed and which it still has to try         *)
(* (Uploaded).  Most steps are not the import's: QuietRight does for them.    *)
(* Matching is what every step keeps of products and their photographs:      *)
(* which administrator or verification has still one of the two to do.       *)
(*                                                                         *)
(* Indexability.  NothingIsForgotten needs to know that a recompute nothing   *)
(* crossed has read the seller as it is (ReadsRight), and that the evaluation *)
(* says what its words say (Evaluation).                                      *)
(***************************************************************************)
EXTENDS Catalogue, Indexability, FiniteSetTheorems, TLAPS

-----------------------------------------------------------------------------
(* The rows of products.                                                    *)

LiveRow == {x \in [published : BOOLEAN, moderation : Moderations, photos : [Moderations -> 0 .. PhotoCap]] :
                PhotoCount(x.photos) <= PhotoCap}
Row == {NoProduct} \cup LiveRow

LEMMA PhotoForms ==
    /\ NoPhotos \in [Moderations -> 0 .. PhotoCap] /\ PhotoCount(NoPhotos) = 0
    /\ \A n \in 0 .. PhotoCap, m \in Moderations :
          Photos(n, m) \in [Moderations -> 0 .. PhotoCap] /\ PhotoCount(Photos(n, m)) = n
    /\ \A ph \in [Moderations -> 0 .. PhotoCap] : PhotoCount(ph) \in Nat
<1>1. Moderations = {"PENDING", "APPROVED", "REJECTED"} /\ PhotoCap \in Nat \ {0}
  BY CatalogueAssumption DEF Moderations
<1>2. NoPhotos \in [Moderations -> 0 .. PhotoCap] /\ PhotoCount(NoPhotos) = 0
  BY <1>1 DEF NoPhotos, PhotoCount
<1>3. ASSUME NEW n \in 0 .. PhotoCap, NEW m \in Moderations
      PROVE  Photos(n, m) \in [Moderations -> 0 .. PhotoCap] /\ PhotoCount(Photos(n, m)) = n
  BY <1>1, <1>2 DEF Photos, NoPhotos, PhotoCount
<1>4. ASSUME NEW ph \in [Moderations -> 0 .. PhotoCap] PROVE PhotoCount(ph) \in Nat
  BY <1>1 DEF PhotoCount
<1> QED  BY <1>2, <1>3, <1>4

LEMMA RowForms ==
    /\ NoProduct.moderation = "none" /\ "none" \notin Moderations
    /\ Moderations = {"PENDING", "APPROVED", "REJECTED"}
    /\ \A x \in Row : x # NoProduct => x \in LiveRow
    /\ \A x \in LiveRow : x \in Row /\ x # NoProduct
    /\ \A x \in Row : /\ x.moderation \in Moderations \cup {"none"}
                      /\ x # NoProduct <=> x.moderation \in Moderations
<1>1. NoProduct.moderation = "none" /\ Moderations = {"PENDING", "APPROVED", "REJECTED"}
  BY DEF NoProduct, Moderations
<1>2. \A x \in LiveRow : x.moderation \in Moderations
  BY DEF LiveRow
<1> QED  BY <1>1, <1>2 DEF Row

LEMMA NewRow ==
    ASSUME NEW publish \in BOOLEAN, NEW m \in Moderations, NEW n \in 0 .. PhotoCap
    PROVE  /\ [published |-> publish, moderation |-> m, photos |-> Photos(n, m)] \in LiveRow
           /\ [published |-> publish, moderation |-> m, photos |-> Photos(n, m)].moderation = m
<1>1. Photos(n, m) \in [Moderations -> 0 .. PhotoCap] /\ PhotoCount(Photos(n, m)) <= PhotoCap
  BY PhotoForms, CatalogueAssumption
<1> QED  BY <1>1 DEF LiveRow

LEMMA Edited ==
    ASSUME NEW x \in LiveRow
    PROVE  /\ \A b \in BOOLEAN : /\ [x EXCEPT !.published = b] \in LiveRow
                                 /\ [x EXCEPT !.published = b].moderation = x.moderation
           /\ \A m \in Moderations : /\ [x EXCEPT !.moderation = m] \in LiveRow
                                     /\ [x EXCEPT !.moderation = m].moderation = m
           /\ \A ph \in [Moderations -> 0 .. PhotoCap] : PhotoCount(ph) <= PhotoCap =>
                 /\ [x EXCEPT !.photos = ph] \in LiveRow
                 /\ [x EXCEPT !.photos = ph].moderation = x.moderation
  BY DEF LiveRow

\* An upload that found room does not go over the cap.
LEMMA Attached ==
    ASSUME NEW x \in LiveRow, PhotoCount(x.photos) < PhotoCap
    PROVE  /\ [x EXCEPT !.photos[x.moderation] = @ + 1] \in LiveRow
           /\ [x EXCEPT !.photos[x.moderation] = @ + 1].moderation = x.moderation
<1> DEFINE m == x.moderation
           ph == [x.photos EXCEPT ![m] = x.photos[m] + 1]
<1>1. m \in {"PENDING", "APPROVED", "REJECTED"} /\ x.photos \in [{"PENDING", "APPROVED", "REJECTED"} -> 0 .. PhotoCap]
  BY DEF LiveRow, Moderations
<1>2. PhotoCap \in Nat
  BY CatalogueAssumption
<1>3. /\ x.photos["PENDING"] \in Nat /\ x.photos["APPROVED"] \in Nat /\ x.photos["REJECTED"] \in Nat
      /\ x.photos["PENDING"] + x.photos["APPROVED"] + x.photos["REJECTED"] < PhotoCap
  BY <1>1, <1>2 DEF PhotoCount
<1>4. /\ ph["PENDING"] + ph["APPROVED"] + ph["REJECTED"]
           = x.photos["PENDING"] + x.photos["APPROVED"] + x.photos["REJECTED"] + 1
      /\ x.photos[m] + 1 \in 0 .. PhotoCap
  BY <1>1, <1>2, <1>3
<1>5. ph \in [{"PENDING", "APPROVED", "REJECTED"} -> 0 .. PhotoCap]
  BY <1>1, <1>4
<1>6. ph \in [Moderations -> 0 .. PhotoCap] /\ PhotoCount(ph) <= PhotoCap
  BY <1>2, <1>3, <1>4, <1>5 DEF Moderations, PhotoCount
<1>7. [x EXCEPT !.photos[x.moderation] = @ + 1] = [x EXCEPT !.photos = ph]
  BY DEF LiveRow
<1> HIDE DEF ph
<1> QED  BY <1>6, <1>7, Edited

LEMMA Released ==
    ASSUME NEW x \in Row
    PROVE  /\ Release(x) \in Row /\ (Release(x) = NoProduct <=> x = NoProduct)
           /\ Release(x).moderation # "PENDING"
           /\ x.moderation # "PENDING" => Release(x).moderation = x.moderation
<1>1. x.photos \in [{"PENDING", "APPROVED", "REJECTED"} -> 0 .. PhotoCap] /\ PhotoCap \in Nat
      /\ PhotoCount(x.photos) <= PhotoCap
  <2>1. PhotoCap \in Nat /\ NoProduct.photos = NoPhotos
    BY CatalogueAssumption DEF NoProduct
  <2>2. CASE x = NoProduct
    <3>1. /\ NoPhotos \in [Moderations -> 0 .. PhotoCap] /\ PhotoCount(NoPhotos) = 0
      BY PhotoForms
    <3> QED  BY <2>1, <2>2, <3>1 DEF Moderations
  <2>3. CASE x \in LiveRow
    BY <2>1, <2>3 DEF LiveRow, Moderations
  <2> QED  BY <2>2, <2>3 DEF Row
<1> DEFINE ph == Approve(x.photos)
           m == IF x.moderation = "PENDING" THEN "APPROVED" ELSE x.moderation
<1>0. Release(x) = [[x EXCEPT !.moderation = m] EXCEPT !.photos = ph]
  BY Zenon DEF Release
<1>2. ph["PENDING"] = 0 /\ ph["APPROVED"] = x.photos["APPROVED"] + x.photos["PENDING"]
      /\ ph["REJECTED"] = x.photos["REJECTED"] /\ DOMAIN ph = {"PENDING", "APPROVED", "REJECTED"}
  BY DEF Approve, NoPhotos, Moderations
<1>3. ph["APPROVED"] \in 0 .. PhotoCap
  BY <1>1, <1>2 DEF PhotoCount
<1>4. ph \in [Moderations -> 0 .. PhotoCap] /\ PhotoCount(ph) <= PhotoCap
  <2>1. ph \in [{"PENDING", "APPROVED", "REJECTED"} -> 0 .. PhotoCap]
    BY <1>1, <1>2, <1>3 DEF Approve, NoPhotos, Moderations
  <2> QED  BY <1>1, <1>2, <2>1 DEF PhotoCount, Moderations
<1>5. CASE x = NoProduct
  <2>1. ph = NoPhotos
    <3>1. x.photos = NoPhotos
      BY <1>5 DEF NoProduct
    <3>2. NoPhotos = [k \in {"PENDING", "APPROVED", "REJECTED"} |-> 0]
      BY DEF NoPhotos, Moderations
    <3>3. ph["PENDING"] = 0 /\ ph["APPROVED"] = 0 /\ ph["REJECTED"] = 0
      BY <1>2, <3>1, <3>2
    <3>4. ph \in [{"PENDING", "APPROVED", "REJECTED"} -> 0 .. PhotoCap]
      BY <1>4 DEF Moderations
    <3> HIDE DEF ph
    <3> QED  BY <3>2, <3>3, <3>4
  <2>2. Release(x) = NoProduct
    <3> DEFINE R == [published : BOOLEAN, moderation : Moderations \cup {"none"},
                     photos : [Moderations -> 0 .. PhotoCap]]
               y == [x EXCEPT !.moderation = m]
    <3>1. x \in R /\ m = x.moderation /\ m \in Moderations \cup {"none"}
      BY <1>5, PhotoForms DEF NoProduct
    <3> HIDE DEF m
    <3>2. y \in R /\ y = x
      BY <3>1
    <3> HIDE DEF y, ph
    <3>3. [y EXCEPT !.photos = ph] = x
      <4>1. x.photos = ph
        BY <1>5, <2>1 DEF NoProduct
      <4> QED  BY <3>2, <4>1
    <3> QED  BY <1>0, <1>5, <3>3 DEF y
  <2> QED  BY <1>5, <2>2, RowForms
<1>6. CASE x \in LiveRow
  <2>1. m \in Moderations
    BY <1>6, RowForms
  <2>2. Release(x) = [[x EXCEPT !.moderation = m] EXCEPT !.photos = ph]
    BY <1>0
  <2> HIDE DEF m, ph
  <2> DEFINE y == [x EXCEPT !.moderation = m]
  <2>4. y \in LiveRow /\ y.moderation = m
    BY <1>6, <2>1, Edited
  <2>5. Release(x) = [y EXCEPT !.photos = ph]
    BY <2>2
  <2> HIDE DEF y
  <2>3. Release(x) \in LiveRow /\ Release(x).moderation = m
    BY <1>4, <2>4, <2>5, Edited
  <2> QED  BY <1>6, <2>3, RowForms DEF m
<1> QED  BY <1>5, <1>6, RowForms

-----------------------------------------------------------------------------
(* The requests.                                                            *)

Creating == [next : {"create"}, item : Products, verified : BOOLEAN]
Updating == [next : {"update"}, item : Products, saw : Moderations, gone : BOOLEAN]
Saving == [next : {"save"}, item : Products, saw : Moderations, verified : BOOLEAN, gone : BOOLEAN]
Publishing == [next : {"publish"}, items : SUBSET Products]
Releasing == [next : {"release"}]
Moderating == [next : {"photos"}, item : Products, to : Moderations, gone : BOOLEAN]
ImportRequest ==
    [next : Importing, verified : BOOLEAN, alone : BOOLEAN,
     todo : SUBSET Products, batch : SUBSET Products, saw : [Products -> Moderations \cup {"none"}],
     created : SUBSET Products, failed : SUBSET Products]

LEMMA RequestKinds ==
    /\ Idle \in Request /\ Idle.next = "idle"
    /\ Creating \cup Updating \cup Saving \cup Publishing \cup Releasing \cup Moderating \cup ImportRequest
          \subseteq Request
    /\ \A x \in Request :
          /\ x.next = "create" => x \in Creating
          /\ x.next = "update" => x \in Updating
          /\ x.next = "save" => x \in Saving
          /\ x.next = "publish" => x \in Publishing
          /\ x.next = "release" => x \in Releasing
          /\ x.next = "photos" => x \in Moderating
          /\ x.next \in Importing => x \in ImportRequest
    /\ Importing = {"claim", "signals", "read", "write", "finish", "discard"}
  BY DEF Request, Idle, Importing, Creating, Updating, Saving, Publishing, Releasing, Moderating, ImportRequest

Spent == used \in [DOMAIN Bounds -> Nat] /\ \A b \in DOMAIN Bounds : used[b] <= Bounds[b]

LEMMA Bounded ==
    /\ DOMAIN Bounds = {"forms", "admin", "uploads", "rare"}
    /\ \A b \in DOMAIN Bounds : Bounds[b] \in Nat
  BY CatalogueAssumption DEF Bounds

LEMMA SpendKeeps ==
    ASSUME Spent, NEW b \in DOMAIN Bounds, Spend(b)
    PROVE  Spent'
<1>1. used' = [used EXCEPT ![b] = used[b] + 1] /\ used[b] < Bounds[b]
  BY DEF Spend
<1>2. used[b] \in Nat /\ Bounds[b] \in Nat /\ used[b] + 1 <= Bounds[b]
  BY <1>1, Bounded DEF Spent
<1>3. /\ used' \in [DOMAIN Bounds -> Nat] /\ used'[b] <= Bounds[b]
      /\ \A c \in DOMAIN Bounds : c # b => used'[c] = used[c]
  BY <1>1, <1>2 DEF Spent
<1> QED  BY <1>3 DEF Spent, Bounds

JobStates == {"none", "PENDING", "RUNNING", "PARTIAL", "COMPLETED"}
JobTypes ==
    /\ job \in [status : JobStates, landed : 0 .. Cardinality(Products)]
    /\ rows \in [Products -> RowStates] /\ writes \in [Products -> Nat]
    /\ staged \in BOOLEAN /\ jobDied \in BOOLEAN
Types ==
    /\ seller \in SellerStatuses /\ product \in [Products -> Row] /\ ghost \subseteq Products
    /\ JobTypes
    /\ unreleased \in BOOLEAN /\ late \subseteq Products /\ torn \subseteq Products
    /\ req \in [Requests -> Request]
    /\ Spent

\* What a request holds the id of is a live row, unless it is marked gone.
Holds(r) ==
    /\ At(r, "publish") => \A p \in req[r].items : Live(p)
    /\ req[r].next \in {"update", "save", "photos"} /\ ~req[r].gone => Live(req[r].item)
Present ==
    /\ \A p \in Products : rows[p] = "update" => Live(p)
    /\ \A r \in Requests : Holds(r)

Steady == Types /\ Present /\ VerifiedIsReleased

\* The requests' part of a step.
Turns(r, x) == /\ req' \in [Requests -> Request] /\ req'[r] = x
               /\ \A q \in Requests : q # r => req'[q] = req[q]

LEMMA TurnForm ==
    ASSUME Types, NEW r \in Requests, NEW x \in Request
    PROVE  /\ req' = [req EXCEPT ![r] = x] => Turns(r, x)
           /\ Begin(r, x) => Turns(r, x) /\ At(r, "idle")
           /\ Finish(r) => Turns(r, Idle)
  BY RequestKinds DEF Types, Turns, Begin, Finish

\* RejectionStands of one step.
Stands ==
    \A p \in Products :
        product[p].moderation = "REJECTED" /\ product'[p].moderation \notin {"REJECTED", "none"} =>
            AdminAct \/ \E r \in Requests :
                \/ At(r, "save") /\ req'[r] = Idle /\ req[r].item = p /\ req[r].saw # "REJECTED"
                \/ At(r, "write") /\ p \in req[r].batch /\ req[r].saw[p] # "REJECTED"

\* What nearly every step leaves true of the rows and the requests.
Calm ==
    /\ UNCHANGED <<seller, rows>> /\ (unreleased => unreleased')
    /\ \A p \in Products : Live(p) => Live(p)'
    /\ \A p \in Products \ late' :
          product'[p].moderation = "PENDING" /\ seller = "VERIFIED" =>
              product[p].moderation = "PENDING" /\ p \notin late
    /\ \A q \in Requests : \/ req'[q] = req[q]
                           \/ Holds(q)' /\ (At(q, "release") => unreleased')

LEMMA CalmKeeps ==
    ASSUME Steady, Calm
    PROVE  Present' /\ VerifiedIsReleased'
<1>1. ASSUME NEW q \in Requests, req'[q] = req[q] PROVE Holds(q)'
  <2>1. /\ At(q, "publish") => req[q].items \subseteq Products
        /\ req[q].next \in {"update", "save", "photos"} => req[q].item \in Products
    BY RequestKinds DEF Steady, Types, At, Publishing, Updating, Saving, Moderating
  <2>2. Holds(q)
    BY DEF Steady, Present
  <2> QED  BY <1>1, <2>1, <2>2 DEF Calm, Holds, At
<1>2. Present'
  BY <1>1 DEF Steady, Present, Calm
<1>3. VerifiedIsReleased'
  <2> SUFFICES ASSUME seller' = "VERIFIED", ~unreleased', \A q \in Requests : ~At(q, "release")',
                      NEW p \in Products \ late', product'[p].moderation = "PENDING"
               PROVE  FALSE
    BY DEF VerifiedIsReleased
  <2>1. seller = "VERIFIED" /\ ~unreleased /\ product[p].moderation = "PENDING" /\ p \notin late
    BY DEF Calm
  <2>2. \A q \in Requests : ~At(q, "release")
    BY DEF Calm, At
  <2> QED  BY <2>1, <2>2 DEF Steady, VerifiedIsReleased
<1> QED  BY <1>2, <1>3

LEMMA AllowedDecisions ==
    \A b \in BOOLEAN : Decided(b) \in Moderations /\ \A m \in Moderations : Rereviewed(b, m) \in Moderations
  BY RowForms DEF Decided, Rereviewed

\* The job's part of a step that is not the import's.
JobQuiet ==
    /\ UNCHANGED <<job, writes>>
    /\ \A p \in Products : rows'[p] = rows[p] \/ rows'[p] = "gone"
    /\ \A q \in Requests : req'[q] = req[q] \/ req'[q].next \notin Importing
Keeps == Types' /\ Present' /\ VerifiedIsReleased' /\ Stands

LEMMA ImportStays ==
    ASSUME Types, UNCHANGED import
    PROVE  JobTypes' /\ UNCHANGED <<job, writes, rows>>
  BY DEF import, Types, JobTypes

\* The product form begins.
LEMMA FormBegins ==
    ASSUME Steady, NEW r \in Requests, NEW p \in Products, createProduct(r, p) \/ updateProduct(r, p)
    PROVE  Keeps /\ JobQuiet
<1>1. /\ Spend("forms") /\ UNCHANGED <<catalogue, import, history>>
  BY DEF createProduct, updateProduct
<1>2. PICK x \in Creating \cup Updating :
          Begin(r, x) /\ (x.next = "update" => x.item = p /\ Live(p))
  <2>1. CASE createProduct(r, p)
    <3>1. [next |-> "create", item |-> p, verified |-> seller = "VERIFIED"] \in Creating
      BY DEF Creating
    <3> QED  BY <2>1, <3>1 DEF createProduct
  <2>2. CASE updateProduct(r, p)
    <3>1. product[p].moderation \in Moderations
      BY <2>2, RowForms DEF updateProduct, Live, Steady, Types
    <3>2. [next |-> "update", item |-> p, saw |-> product[p].moderation, gone |-> FALSE] \in Updating
      BY <3>1 DEF Updating
    <3> QED  BY <2>2, <3>2 DEF updateProduct
  <2> QED  BY <2>1, <2>2
<1>3. Turns(r, x) /\ At(r, "idle") /\ x \in Request /\ x.next \in {"create", "update"}
  BY <1>2, TurnForm, RequestKinds DEF Steady, Creating, Updating
<1>4. Holds(r)'
  BY <1>1, <1>2, <1>3 DEF Turns, Holds, At, Live, catalogue
<1>5. Calm
  BY <1>1, <1>3, <1>4, ImportStays DEF Steady, Types, Calm, Turns, At, Live, catalogue, history
<1>6. Types'
  BY <1>1, <1>3, SpendKeeps, Bounded, ImportStays DEF Steady, Types, Turns, catalogue, history
<1>7. Stands
  BY <1>1, RowForms DEF Stands, catalogue
<1>8. JobQuiet
  BY <1>1, <1>3, ImportStays, RequestKinds DEF Steady, Types, JobQuiet, Turns
<1> QED  BY <1>5, <1>6, <1>7, <1>8, CalmKeeps DEF Keeps

LEMMA OneRow ==
    ASSUME Types, NEW p \in Products, NEW x \in Row, product' = [product EXCEPT ![p] = x]
    PROVE  /\ product' \in [Products -> Row] /\ product'[p] = x
           /\ \A q \in Products : q # p => product'[q] = product[q]
  BY DEF Types

\* A step of the form, the selection or the administrator that is mild: it
\* leaves the import alone and changes what it changes within the types.
LEMMA MildKeeps ==
    ASSUME Steady, UNCHANGED <<seller, import>>, Calm, Stands,
           product' \in [Products -> Row], ghost' \subseteq Products,
           unreleased' \in BOOLEAN, late' \subseteq Products, torn' \subseteq Products, Spent',
           req' \in [Requests -> Request],
           \A q \in Requests : req'[q] = req[q] \/ req'[q].next \notin Importing
    PROVE  Keeps /\ JobQuiet
<1>1. Types'
  BY ImportStays DEF Steady, Types
<1>2. JobQuiet
  BY ImportStays DEF Steady, JobQuiet
<1> QED  BY <1>1, <1>2, CalmKeeps DEF Keeps

LEMMA SignalsKeep ==
    ASSUME Steady, NEW r \in Requests, updateSignals(r)
    PROVE  Keeps /\ JobQuiet
<1> DEFINE x == [next |-> "save", item |-> req[r].item, saw |-> req[r].saw,
                 verified |-> seller = "VERIFIED", gone |-> req[r].gone]
<1>1. At(r, "update") /\ req' = [req EXCEPT ![r] = x] /\ UNCHANGED <<catalogue, import, history, used>>
  BY DEF updateSignals
<1>2. req[r] \in Updating /\ Holds(r)
  BY <1>1, RequestKinds DEF Steady, Types, Present, At
<1>3. x \in Saving /\ x.item = req[r].item /\ x.gone = req[r].gone /\ x.next = "save"
  BY <1>2 DEF Saving, Updating
<1> HIDE DEF x
<1>4. Turns(r, x)
  BY <1>1, <1>3, TurnForm, RequestKinds DEF Steady
<1>5. Holds(r)'
  BY <1>1, <1>2, <1>3, <1>4 DEF Holds, Turns, At, Live, catalogue
<1>6. Calm
  BY <1>1, <1>4, <1>5, ImportStays DEF Steady, Calm, Turns, At, Live, catalogue, history
<1>7. Stands
  BY <1>1, RowForms DEF Stands, catalogue
<1> QED
  BY <1>1, <1>3, <1>4, <1>6, <1>7, MildKeeps, RequestKinds
     DEF Steady, Types, Spent, Turns, catalogue, history

LEMMA CreateWriteKeeps ==
    ASSUME Steady, NEW r \in Requests, NEW publish \in BOOLEAN, NEW n \in 0 .. PhotoCap,
           createWrite(r, publish, n)
    PROVE  Keeps /\ JobQuiet
<1> DEFINE p == req[r].item
           m == Decided(req[r].verified)
           x == [published |-> publish, moderation |-> m, photos |-> Photos(n, m)]
<1>1. At(r, "create") /\ Finish(r) /\ UNCHANGED <<seller, ghost, import, torn, unreleased, used>>
  BY DEF createWrite
<1>2. req[r] \in Creating
  BY <1>1, RequestKinds DEF Steady, Types, At
<1>3. p \in Products /\ m \in Moderations
  BY <1>2, AllowedDecisions DEF Creating
<1>4. x \in LiveRow /\ x.moderation = m
  BY <1>3, NewRow
<1>5. \/ UNCHANGED <<product, late>>
      \/ /\ ~Live(p) /\ product' = [product EXCEPT ![p] = x]
         /\ late' = IF m = "PENDING" /\ seller = "VERIFIED" THEN late \cup {p} ELSE late
  BY DEF createWrite
<1> HIDE DEF p, m, x
<1>6. Turns(r, Idle)
  BY <1>1, TurnForm, RequestKinds DEF Steady
<1>7. /\ product' \in [Products -> Row] /\ late' \subseteq Products /\ late \subseteq late'
      /\ \A q \in Products : q # p => product'[q] = product[q]
      /\ \/ product'[p] = product[p]
         \/ ~Live(p) /\ product'[p] = x /\ (m = "PENDING" /\ seller = "VERIFIED" => p \in late')
  BY <1>3, <1>4, <1>5, OneRow, RowForms DEF Steady, Types
<1>8. Calm
  BY <1>1, <1>3, <1>4, <1>6, <1>7, ImportStays, RequestKinds, RowForms
     DEF Steady, Types, Calm, Turns, Live, Holds, At
<1>9. Stands
  BY <1>3, <1>7, RowForms DEF Stands, Live
<1> QED
  BY <1>1, <1>6, <1>7, <1>8, <1>9, MildKeeps, RequestKinds DEF Steady, Types, Spent, Turns

LEMMA UpdateWriteKeeps ==
    ASSUME Steady, NEW r \in Requests, NEW publish \in BOOLEAN, NEW n \in 0 .. PhotoCap,
           updateWrite(r, publish, n)
    PROVE  Keeps /\ JobQuiet
<1> DEFINE p == req[r].item
           m == Rereviewed(req[r].verified, req[r].saw)
           x == [published |-> publish, moderation |-> m, photos |-> Photos(n, m)]
<1>1. At(r, "save") /\ Finish(r) /\ UNCHANGED <<seller, import, torn, unreleased, used>>
  BY DEF updateWrite
<1>2. req[r] \in Saving
  BY <1>1, RequestKinds DEF Steady, Types, At
<1>3. p \in Products /\ m \in Moderations /\ req[r].saw \in Moderations
  BY <1>2, AllowedDecisions DEF Saving
<1>4. x \in LiveRow /\ x.moderation = m
  BY <1>3, NewRow
<1>5. \/ UNCHANGED <<product, late>> /\ ghost' \in {ghost, ghost \cup {p}}
      \/ /\ product' = [product EXCEPT ![p] = x] /\ UNCHANGED ghost
         /\ late' = IF m = "PENDING" /\ seller = "VERIFIED" THEN late \cup {p} ELSE late
  BY DEF updateWrite
<1>0. req[r].saw = "REJECTED" => m = "REJECTED"
  BY DEF Rereviewed
<1> HIDE DEF m, x
<1>6. Turns(r, Idle)
  BY <1>1, TurnForm, RequestKinds DEF Steady
<1>7. /\ product' \in [Products -> Row] /\ late' \subseteq Products /\ late \subseteq late' /\ ghost' \subseteq Products
      /\ \A q \in Products : q # p => product'[q] = product[q]
      /\ \/ product'[p] = product[p]
         \/ product'[p] = x /\ (m = "PENDING" /\ seller = "VERIFIED" => p \in late')
  BY <1>3, <1>4, <1>5, OneRow, RowForms DEF Steady, Types
<1>8. Calm
  <2>1. \A q \in Products : Live(q) => Live(q)'
    BY <1>3, <1>4, <1>7, RowForms DEF Live
  <2>2. \A q \in Products \ late' : product'[q].moderation = "PENDING" /\ seller = "VERIFIED" =>
            product[q].moderation = "PENDING" /\ q \notin late
    BY <1>3, <1>4, <1>7
  <2>3. Holds(r)' /\ ~At(r, "release")
    BY <1>1, <1>6, RequestKinds DEF Turns, Holds, At
  <2> QED
    BY <1>1, <1>6, <2>1, <2>2, <2>3, ImportStays DEF Steady, Calm, Turns
<1>9. Stands
  <2>1. ASSUME NEW q \in Products, product[q].moderation = "REJECTED",
               product'[q].moderation \notin {"REJECTED", "none"}
        PROVE  At(r, "save") /\ req'[r] = Idle /\ req[r].item = q /\ req[r].saw # "REJECTED"
    BY <1>0, <1>1, <1>4, <1>6, <1>7, <2>1 DEF Turns
  <2> QED  BY <2>1 DEF Stands
<1> HIDE DEF p
<1> QED
  BY <1>1, <1>6, <1>7, <1>8, <1>9, MildKeeps, RequestKinds DEF Steady, Types, Spent, Turns

\* Rows that are edited without a decision on them.
LEMMA EditsKeep ==
    ASSUME Steady, UNCHANGED <<seller, ghost, import, history>>, Spent',
           product' \in [Products -> Row],
           \A p \in Products : product'[p].moderation = product[p].moderation,
           req' \in [Requests -> Request],
           \A q \in Requests : req'[q] = req[q] \/ req'[q].next \notin Importing,
           \A q \in Requests : req'[q] = req[q] \/ (Holds(q)' /\ ~At(q, "release"))
    PROVE  Keeps /\ JobQuiet
<1>1. \A p \in Products : Live(p) <=> Live(p)'
  BY RowForms DEF Steady, Types, Live
<1>2. Calm
  BY <1>1, ImportStays DEF Steady, Types, Calm, history
<1>3. Stands
  BY DEF Stands
<1> QED  BY <1>2, <1>3, MildKeeps DEF Steady, Types, history

LEMMA DirectKeeps ==
    ASSUME Steady, NEW p \in Products,
           \/ \E publish \in BOOLEAN : setCatalogStatus(p, publish)
           \/ attachPhoto(p)
    PROVE  Keeps /\ JobQuiet
<1>1. /\ Live(p) /\ Spend("forms") /\ UNCHANGED <<seller, ghost, import, req, history>>
  BY DEF setCatalogStatus, attachPhoto
<1>2. product[p] \in LiveRow
  BY <1>1, RowForms DEF Live, Steady, Types
<1>3. PICK x \in LiveRow : product' = [product EXCEPT ![p] = x] /\ x.moderation = product[p].moderation
  <2>1. ASSUME NEW publish \in BOOLEAN, setCatalogStatus(p, publish)
        PROVE  \E x \in LiveRow : product' = [product EXCEPT ![p] = x] /\ x.moderation = product[p].moderation
    <3> DEFINE x == [product[p] EXCEPT !.published = publish]
    <3>1. x \in LiveRow /\ x.moderation = product[p].moderation
      BY <1>2, Edited
    <3>2. product' = [product EXCEPT ![p] = x]
      BY <2>1 DEF setCatalogStatus
    <3> QED  BY <3>1, <3>2
  <2>2. ASSUME attachPhoto(p)
        PROVE  \E x \in LiveRow : product' = [product EXCEPT ![p] = x] /\ x.moderation = product[p].moderation
    <3> DEFINE x == [product[p] EXCEPT !.photos[product[p].moderation] = @ + 1]
    <3>1. x \in LiveRow /\ x.moderation = product[p].moderation
      BY <1>2, <2>2, Attached DEF attachPhoto, RoomFor
    <3>2. product' = [product EXCEPT ![p] = x]
      BY <2>2 DEF attachPhoto
    <3> QED  BY <3>1, <3>2
  <2> QED  BY <2>1, <2>2
<1>4. /\ product' \in [Products -> Row]
      /\ \A q \in Products : product'[q].moderation = product[q].moderation
  BY <1>3, OneRow, RowForms DEF Steady
<1> QED
  BY <1>1, <1>4, EditsKeep, SpendKeeps, Bounded DEF Steady, Types

LEMMA ClearKeeps ==
    ASSUME Steady, NEW ps \in SUBSET Products, clearProductPhotos(ps)
    PROVE  Keeps /\ JobQuiet
<1>1. /\ \A p \in ps : Live(p)
      /\ Spend("forms") /\ UNCHANGED <<seller, ghost, import, req, history>>
  BY DEF clearProductPhotos
<1>2. \A p \in ps : /\ [product[p] EXCEPT !.photos = NoPhotos] \in LiveRow
                    /\ [product[p] EXCEPT !.photos = NoPhotos].moderation = product[p].moderation
  <2>1. \A p \in ps : product[p] \in LiveRow
    BY <1>1, RowForms DEF Live, Steady, Types
  <2>2. NoPhotos \in [Moderations -> 0 .. PhotoCap] /\ PhotoCount(NoPhotos) <= PhotoCap
    BY PhotoForms, CatalogueAssumption
  <2> QED  BY <2>1, <2>2, Edited
<1> DEFINE new == [p \in Products |-> [product[p] EXCEPT !.photos = NoPhotos]]
<1>3. product' = [p \in Products |-> IF p \in ps THEN new[p] ELSE product[p]]
  BY DEF clearProductPhotos
<1>4. \A p \in ps : new[p] \in Row /\ new[p].moderation = product[p].moderation
  BY <1>2, RowForms
<1> HIDE DEF new
<1>5. /\ product' \in [Products -> Row]
      /\ \A q \in Products : product'[q].moderation = product[q].moderation
  BY <1>3, <1>4 DEF Steady, Types
<1> QED
  BY <1>1, <1>5, EditsKeep, SpendKeeps, Bounded DEF Steady, Types

\* publishProducts holds the ids it read; publishWrite writes the status alone.
LEMMA PublishKeeps ==
    ASSUME Steady, NEW r \in Requests,
           \/ \E ticked \in SUBSET Products : publishProducts(r, ticked)
           \/ publishWrite(r)
    PROVE  Keeps /\ JobQuiet
<1>1. CASE \E ticked \in SUBSET Products : publishProducts(r, ticked)
  <2>1. PICK ticked \in SUBSET Products : publishProducts(r, ticked)
    BY <1>1
  <2> DEFINE items == {p \in ticked : Ready(p)}
             x == [next |-> "publish", items |-> items]
  <2>2. Spend("forms") /\ Begin(r, x) /\ UNCHANGED <<catalogue, import, history>>
    BY <2>1 DEF publishProducts
  <2>3. x \in Publishing /\ x.next = "publish" /\ x.items = items /\ \A p \in items : Live(p) /\ p \in Products
    BY DEF Publishing, Ready
  <2> HIDE DEF x, items
  <2>4. Turns(r, x) /\ At(r, "idle")
    BY <2>2, <2>3, TurnForm, RequestKinds DEF Steady
  <2>5. Holds(r)'
    BY <2>2, <2>3, <2>4 DEF Turns, Holds, At, Live, catalogue
  <2> QED
    BY <2>2, <2>3, <2>4, <2>5, EditsKeep, SpendKeeps, Bounded, RequestKinds
       DEF Steady, Types, Turns, At, catalogue
<1>2. CASE publishWrite(r)
  <2>1. /\ At(r, "publish") /\ Finish(r) /\ UNCHANGED <<seller, ghost, import, history, used>>
    BY <1>2 DEF publishWrite
  <2>2. Turns(r, Idle)
    BY <2>1, TurnForm, RequestKinds DEF Steady
  <2> DEFINE ps == req[r].items
             new == [p \in Products |-> [product[p] EXCEPT !.published = TRUE]]
  <2>3. ps \subseteq Products /\ \A p \in ps : product[p] \in LiveRow
    <3>1. req[r] \in Publishing /\ Holds(r)
      BY <2>1, RequestKinds DEF Steady, Types, Present, At
    <3> QED  BY <2>1, <3>1, RowForms DEF Holds, Publishing, Live, Steady, Types
  <2>4. product' = [p \in Products |-> IF p \in ps THEN new[p] ELSE product[p]]
    BY <1>2 DEF publishWrite
  <2>5. \A p \in ps : new[p] \in Row /\ new[p].moderation = product[p].moderation
    BY <2>3, Edited, RowForms
  <2> HIDE DEF new, ps
  <2>6. /\ product' \in [Products -> Row]
        /\ \A q \in Products : product'[q].moderation = product[q].moderation
    BY <2>4, <2>5 DEF Steady, Types
  <2>7. Holds(r)' /\ ~At(r, "release")
    BY <2>1, <2>2, RequestKinds DEF Turns, Holds, At
  <2> QED
    BY <2>1, <2>2, <2>6, <2>7, EditsKeep, RequestKinds DEF Steady, Types, Spent, Turns
<1> QED  BY <1>1, <1>2

\* A deletion marks the requests that hold the row.
LEMMA Forgotten ==
    ASSUME Steady, NEW p \in Products, Forget(p), NEW q \in Requests
    PROVE  /\ req'[q] \in Request /\ req'[q].next = req[q].next /\ Holds(q)'
           /\ req[q].next \in Importing => req'[q] = req[q]
<1>0. /\ \A t \in Products : t # p => product'[t] = product[t]
      /\ req[q] \in Request /\ Holds(q)
  BY DEF Steady, Types, Present, Forget
<1>1. CASE req[q].next \in {"update", "save", "photos"} /\ req[q].item = p
  <2> DEFINE x == [req[q] EXCEPT !.gone = TRUE]
  <2>1. req'[q] = x
    BY <1>1 DEF Forget
  <2>2. x \in Request /\ x.next = req[q].next /\ x.gone = TRUE
    <3>1. CASE req[q].next = "update"
      <4>1. req[q] \in Updating  BY <3>1, <1>0, RequestKinds
      <4>2. x \in Updating /\ x.next = req[q].next /\ x.gone = TRUE  BY <4>1 DEF Updating
      <4> QED  BY <4>2, RequestKinds
    <3>2. CASE req[q].next = "save"
      <4>1. req[q] \in Saving  BY <3>2, <1>0, RequestKinds
      <4>2. x \in Saving /\ x.next = req[q].next /\ x.gone = TRUE  BY <4>1 DEF Saving
      <4> QED  BY <4>2, RequestKinds
    <3>3. CASE req[q].next = "photos"
      <4>1. req[q] \in Moderating  BY <3>3, <1>0, RequestKinds
      <4>2. x \in Moderating /\ x.next = req[q].next /\ x.gone = TRUE  BY <4>1 DEF Moderating
      <4> QED  BY <4>2, RequestKinds
    <3> QED  BY <1>1, <3>1, <3>2, <3>3
  <2> HIDE DEF x
  <2> QED  BY <1>1, <2>1, <2>2, RequestKinds DEF Holds, At
<1>2. CASE req[q].next = "publish"
  <2> DEFINE x == [req[q] EXCEPT !.items = req[q].items \ {p}]
  <2>1. req'[q] = x
    BY <1>2 DEF Forget
  <2>2. req[q] \in Publishing
    BY <1>0, <1>2, RequestKinds
  <2>3. x \in Publishing /\ x.next = "publish" /\ x.items = req[q].items \ {p} /\ req[q].items \subseteq Products
    BY <2>2 DEF Publishing
  <2> HIDE DEF x
  <2>4. x \in Request
    BY <2>3, RequestKinds
  <2> QED  BY <1>0, <1>2, <2>1, <2>3, <2>4, RequestKinds DEF Holds, At, Live
<1>3. CASE req[q].next # "publish" /\ ~(req[q].next \in {"update", "save", "photos"} /\ req[q].item = p)
  <2>1. req'[q] = req[q]
    BY <1>3 DEF Forget
  <2>2. req[q].next \in {"update", "save", "photos"} => req[q].item \in Products
    BY <1>0, RequestKinds DEF Updating, Saving, Moderating
  <2> QED  BY <1>0, <1>3, <2>1, <2>2 DEF Holds, At, Live
<1> QED  BY <1>1, <1>2, <1>3

LEMMA DeleteKeeps ==
    ASSUME Steady, NEW p \in Products, deleteCatalogItem(p)
    PROVE  Keeps /\ JobQuiet
<1>1. /\ Forget(p) /\ Spend("rare") /\ UNCHANGED <<seller, ghost, job, staged, writes, jobDied, unreleased>>
  BY DEF deleteCatalogItem
<1>2. /\ product' \in [Products -> Row] /\ product'[p] = NoProduct
      /\ \A t \in Products : t # p => product'[t] = product[t]
      /\ late' = late \ {p} /\ torn' = torn \ {p}
  BY <1>1, RowForms DEF Forget, Steady, Types, Row
<1>3. /\ rows' \in [Products -> RowStates] /\ rows'[p] # "update"
      /\ \A t \in Products : rows'[t] = rows[t] \/ rows'[t] = "gone"
  BY <1>1 DEF Forget, Steady, Types, JobTypes, RowStates
<1>4. req' \in [Requests -> Request]
  <2>1. req' = [r \in Requests |-> req'[r]]
    BY <1>1 DEF Forget
  <2> QED  BY <1>1, <2>1, Forgotten
<1>5. Types'
  BY <1>1, <1>2, <1>3, <1>4, SpendKeeps, Bounded DEF Steady, Types, JobTypes
<1>6. Present'
  <2>1. \A t \in Products : rows'[t] = "update" => Live(t)'
    BY <1>2, <1>3 DEF Steady, Present, Live
  <2> QED  BY <1>1, <2>1, Forgotten DEF Present
<1>7. VerifiedIsReleased'
  <2>1. \A q \in Requests : At(q, "release")' <=> At(q, "release")
    BY <1>1, Forgotten DEF At
  <2> QED  BY <1>1, <1>2, <2>1, RowForms DEF Steady, VerifiedIsReleased
<1>8. Stands
  BY <1>2, RowForms DEF Stands
<1>9. JobQuiet
  <2>1. \A q \in Requests : req'[q] = req[q] \/ req'[q].next \notin Importing
    BY <1>1, Forgotten
  <2> QED  BY <1>1, <1>3, <2>1 DEF JobQuiet
<1> QED  BY <1>5, <1>6, <1>7, <1>8, <1>9 DEF Keeps

\* The administrator verifies: the release is still to come.
LEMMA VerifyKeeps ==
    ASSUME Steady, NEW r \in Requests, verifySeller(r)
    PROVE  Keeps /\ JobQuiet
<1> DEFINE x == [next |-> "release"]
<1>1. /\ Spend("admin") /\ Begin(r, x) /\ seller' = "VERIFIED"
      /\ UNCHANGED <<product, ghost, import, history>>
  BY DEF verifySeller
<1>2. x \in Releasing /\ x.next = "release"
  BY DEF Releasing
<1> HIDE DEF x
<1>3. Turns(r, x)
  BY <1>1, <1>2, TurnForm, RequestKinds DEF Steady
<1>4. Types'
  BY <1>1, <1>3, SpendKeeps, Bounded, ImportStays DEF Steady, Types, Turns, SellerStatuses, history
<1>5. Present'
  <2>1. \A q \in Requests : Holds(q)'
    BY <1>1, <1>2, <1>3 DEF Steady, Present, Turns, Holds, At, Live
  <2> QED  BY <1>1, <2>1, ImportStays DEF Steady, Present, Live
<1>6. VerifiedIsReleased'
  BY <1>2, <1>3 DEF VerifiedIsReleased, Turns, At
<1>7. Stands
  BY <1>1 DEF Stands
<1>8. JobQuiet
  BY <1>1, <1>2, <1>3, ImportStays, RequestKinds DEF Steady, JobQuiet, Turns
<1> QED  BY <1>4, <1>5, <1>6, <1>7, <1>8 DEF Keeps

LEMMA ReleaseKeeps ==
    ASSUME Steady, NEW r \in Requests, releasePendingContent(r)
    PROVE  Keeps /\ JobQuiet
<1>1. /\ At(r, "release") /\ Finish(r) /\ late' = {} /\ unreleased' = FALSE
      /\ UNCHANGED <<seller, ghost, import, torn, used>>
      /\ product' = [p \in Products |-> Release(product[p])]
  BY DEF releasePendingContent
<1>2. Turns(r, Idle)
  BY <1>1, TurnForm, RequestKinds DEF Steady
<1>3. /\ product' \in [Products -> Row]
      /\ \A p \in Products : /\ product'[p].moderation # "PENDING"
                             /\ product[p].moderation # "PENDING" =>
                                    product'[p].moderation = product[p].moderation
                             /\ Live(p) => Live(p)'
  BY <1>1, Released DEF Steady, Types, Live
<1>4. Types'
  BY <1>1, <1>2, <1>3, ImportStays DEF Steady, Types, Spent, Turns
<1>5. Present'
  <2>1. ASSUME NEW q \in Requests, req'[q] = req[q] PROVE Holds(q)'
    <3>1. /\ At(q, "publish") => req[q].items \subseteq Products
          /\ req[q].next \in {"update", "save", "photos"} => req[q].item \in Products
      BY RequestKinds DEF Steady, Types, At, Publishing, Updating, Saving, Moderating
    <3> QED  BY <1>3, <2>1, <3>1 DEF Steady, Present, Holds, At
  <2>2. Holds(r)'
    BY <1>2, RequestKinds DEF Turns, Holds, At
  <2> QED  BY <1>1, <1>2, <1>3, <2>1, <2>2, ImportStays DEF Steady, Present, Turns
<1>6. VerifiedIsReleased'
  BY <1>3 DEF VerifiedIsReleased
<1>7. Stands
  BY <1>3 DEF Stands
<1>8. JobQuiet
  BY <1>1, <1>2, ImportStays, RequestKinds DEF Steady, JobQuiet, Turns
<1> QED  BY <1>4, <1>5, <1>6, <1>7, <1>8 DEF Keeps

LEMMA SuspendKeeps ==
    ASSUME Steady, NEW to \in {"SUSPENDED", "BANNED"}, suspendSeller(to)
    PROVE  Keeps /\ JobQuiet
<1>1. /\ Spend("admin") /\ seller' = to /\ UNCHANGED <<product, ghost, import, req, history>>
  BY DEF suspendSeller
<1>2. Types'
  BY <1>1, SpendKeeps, Bounded, ImportStays DEF Steady, Types, SellerStatuses, history
<1>3. Present' /\ VerifiedIsReleased'
  BY <1>1, ImportStays DEF Steady, Present, Holds, At, Live, VerifiedIsReleased
<1>4. Stands /\ JobQuiet
  BY <1>1, ImportStays DEF Steady, Stands, JobQuiet
<1> QED  BY <1>2, <1>3, <1>4 DEF Keeps

LEMMA ModerateKeeps ==
    ASSUME Steady, NEW r \in Requests, NEW p \in Products, NEW to \in {"APPROVED", "REJECTED"},
           moderateProduct(r, p, to)
    PROVE  Keeps /\ JobQuiet
<1> DEFINE x == [next |-> "photos", item |-> p, to |-> to, gone |-> FALSE]
           y == [product[p] EXCEPT !.moderation = to]
<1>1. /\ Live(p) /\ Spend("admin") /\ Begin(r, x) /\ product' = [product EXCEPT ![p] = y]
      /\ UNCHANGED <<seller, ghost, import, history>>
  BY DEF moderateProduct
<1>2. /\ x \in Moderating /\ x.next = "photos" /\ x.item = p
      /\ y \in LiveRow /\ y.moderation = to
  <2>1. product[p] \in LiveRow /\ to \in Moderations
    BY <1>1, RowForms DEF Live, Steady, Types
  <2> QED  BY <2>1, Edited DEF Moderating
<1> HIDE DEF x, y
<1>3. Turns(r, x) /\ At(r, "idle")
  BY <1>1, <1>2, TurnForm, RequestKinds DEF Steady
<1>4. /\ product' \in [Products -> Row] /\ product'[p] = y
      /\ \A q \in Products : q # p => product'[q] = product[q]
  BY <1>1, <1>2, OneRow, RowForms DEF Steady
<1>5. Holds(r)'
  BY <1>2, <1>3, <1>4, RowForms DEF Turns, Holds, At, Live
<1>6. Calm
  BY <1>1, <1>2, <1>3, <1>4, <1>5, ImportStays, RowForms DEF Steady, Calm, Turns, At, Live, history
<1>7. Stands
  <2>1. AdminAct
    BY <1>2, <1>3 DEF AdminAct, Turns
  <2> QED  BY <2>1 DEF Stands
<1> QED
  BY <1>1, <1>2, <1>3, <1>4, <1>6, <1>7, MildKeeps, SpendKeeps, Bounded, RequestKinds
     DEF Steady, Types, Turns, history

LEMMA ModeratePhotosKeep ==
    ASSUME Steady, NEW r \in Requests, moderatePhotos(r)
    PROVE  Keeps /\ JobQuiet
<1> DEFINE p == req[r].item
           ph == Photos(PhotoCount(product[p].photos), req[r].to)
           x == [product[p] EXCEPT !.photos = ph]
<1>1. At(r, "photos") /\ Finish(r) /\ UNCHANGED <<seller, ghost, import, late, unreleased, used>>
  BY DEF moderatePhotos
<1>2. req[r] \in Moderating
  BY <1>1, RequestKinds DEF Steady, Types, At
<1>3. p \in Products /\ req[r].to \in Moderations
  BY <1>2 DEF Moderating
<1>4. Turns(r, Idle)
  BY <1>1, TurnForm, RequestKinds DEF Steady
<1>5. /\ torn' \subseteq Products /\ product' \in [Products -> Row]
      /\ \A q \in Products : product'[q].moderation = product[q].moderation
  <2>1. CASE UNCHANGED <<product, torn>>
    BY <2>1 DEF Steady, Types
  <2>2. CASE ~UNCHANGED <<product, torn>>
    <3>1. /\ Live(p) /\ product' = [product EXCEPT ![p] = x] /\ torn' \in {torn \ {p}, torn \cup {p}}
      <4>1. ~(req[r].gone \/ ~Live(p))
        BY <2>2 DEF moderatePhotos
      <4>2. product' = [product EXCEPT ![p].photos = Photos(PhotoCount(@), req[r].to)]
        BY <4>1 DEF moderatePhotos
      <4>3. torn' \in {torn \ {p}, torn \cup {p}}
        BY <4>1 DEF moderatePhotos
      <4> QED  BY <4>1, <4>2, <4>3
    <3>2. product[p] \in LiveRow
      BY <1>3, <3>1, RowForms DEF Live, Steady, Types
    <3>3. ph \in [Moderations -> 0 .. PhotoCap] /\ PhotoCount(ph) <= PhotoCap
      <4> DEFINE n == PhotoCount(product[p].photos)
      <4>3. product[p].photos \in [Moderations -> 0 .. PhotoCap] /\ n <= PhotoCap
        BY <3>2 DEF LiveRow
      <4>4. n \in Nat
        BY <4>3, PhotoForms
      <4>1. n \in 0 .. PhotoCap
        <5> HIDE DEF n
        <5> QED  BY <4>3, <4>4, CatalogueAssumption
      <4>2. Photos(n, req[r].to) \in [Moderations -> 0 .. PhotoCap] /\ PhotoCount(Photos(n, req[r].to)) = n
        <5> HIDE DEF n
        <5> QED  BY <1>3, <4>1, PhotoForms
      <4> QED  BY <4>1, <4>2
    <3> HIDE DEF ph
    <3>4. x \in LiveRow /\ x.moderation = product[p].moderation
      BY <3>2, <3>3, Edited
    <3> HIDE DEF x, p
    <3> QED  BY <1>3, <3>1, <3>4, OneRow, RowForms DEF Steady, Types
  <2> QED  BY <2>1, <2>2
<1> HIDE DEF p, ph, x
<1>6. Calm
  <2>1. \A q \in Products : Live(q) => Live(q)'
    BY <1>5, RowForms DEF Steady, Types, Live
  <2>2. Holds(r)' /\ ~At(r, "release")
    BY <1>1, <1>4, RequestKinds DEF Turns, Holds, At
  <2> QED  BY <1>1, <1>4, <1>5, <2>1, <2>2, ImportStays DEF Steady, Calm, Turns
<1>7. Stands
  BY <1>5 DEF Stands
<1> QED
  BY <1>1, <1>4, <1>5, <1>6, <1>7, MildKeeps, RequestKinds DEF Steady, Types, Spent, Turns

LEMMA DeathKeeps ==
    ASSUME Steady, NEW r \in Requests, processDies(r)
    PROVE  Keeps /\ JobQuiet
<1>1. /\ Spend("rare") /\ Finish(r) /\ UNCHANGED <<catalogue, job, rows, staged, writes, late>>
      /\ jobDied' = (jobDied \/ req[r].next \in Importing)
      /\ unreleased' = (unreleased \/ At(r, "release"))
      /\ torn' = IF At(r, "photos") THEN torn \cup {req[r].item} ELSE torn
  BY DEF processDies
<1>2. Turns(r, Idle)
  BY <1>1, TurnForm, RequestKinds DEF Steady
<1>3. torn' \subseteq Products
  <2>1. At(r, "photos") => req[r].item \in Products
    BY RequestKinds DEF Steady, Types, At, Moderating
  <2> QED  BY <1>1, <2>1 DEF Steady, Types
<1>4. Types'
  BY <1>1, <1>2, <1>3, SpendKeeps, Bounded DEF Steady, Types, JobTypes, Turns, catalogue
<1>5. Calm
  <2>1. Holds(r)'
    BY <1>2, RequestKinds DEF Turns, Holds, At
  <2> QED  BY <1>1, <1>2, <2>1 DEF Calm, Turns, Live, catalogue
<1>6. Stands /\ JobQuiet
  BY <1>1, <1>2, RequestKinds, RowForms DEF Stands, JobQuiet, Turns, catalogue
<1> QED  BY <1>4, <1>5, <1>6, CalmKeeps DEF Keeps

-----------------------------------------------------------------------------
(* The import.                                                              *)

\* Its steps that leave the products alone.
LEMMA ImportOnly ==
    ASSUME Steady, UNCHANGED <<catalogue, history>>, JobTypes', Spent',
           \A p \in Products : rows'[p] = "update" => Live(p),
           req' \in [Requests -> Request],
           \A q \in Requests : req'[q] = req[q] \/ (req'[q].next \in Importing \cup {"idle"}
                                                    /\ ~At(q, "release"))
    PROVE  Keeps
<1>1. Types'
  BY DEF Steady, Types, catalogue, history
<1>2. Present'
  BY RequestKinds DEF Steady, Present, Holds, At, Live, catalogue
<1>3. VerifiedIsReleased'
  <2>1. \A q \in Requests : At(q, "release") => At(q, "release")'
    BY DEF At
  <2> QED  BY <2>1 DEF Steady, VerifiedIsReleased, catalogue, history
<1>4. Stands
  BY DEF Stands, catalogue
<1> QED  BY <1>1, <1>2, <1>3, <1>4 DEF Keeps

LEMMA ClaimForm == Claim \in ImportRequest /\ Claim.next = "claim"
  BY RequestKinds DEF Claim, ImportRequest, NoSaw

LEMMA UploadKeeps ==
    ASSUME Steady, NEW ok \in SUBSET Products, upload(ok)
    PROVE  Keeps
<1>1. /\ Spend("uploads") /\ UNCHANGED <<catalogue, req, history>>
      /\ job' = [status |-> "PENDING", landed |-> 0]
      /\ staged' = TRUE /\ writes' = [p \in Products |-> 0] /\ jobDied' = FALSE
  BY DEF upload
<1>2. PICK first : rows' = [p \in Products |-> CASE p \notin ok -> "none"
                                                 [] p \in first -> "new"
                                                 [] p \in {t \in ok : ~Live(t)} -> "over_limit"
                                                 [] OTHER -> "update"]
  BY DEF upload
<1>3. /\ rows' \in [Products -> RowStates]
      /\ \A p \in Products : rows'[p] = "update" => Live(p)
  BY <1>2 DEF RowStates
<1>4. job' \in [status : JobStates, landed : 0 .. Cardinality(Products)]
  BY <1>1, CatalogueAssumption, FS_CardinalityType DEF JobStates
<1>5. JobTypes'
  BY <1>1, <1>3, <1>4 DEF JobTypes
<1> QED
  BY <1>1, <1>3, <1>5, ImportOnly, SpendKeeps, Bounded DEF Steady, Types

\* The steps of the process that works on the job, but for its writes.
LEMMA WorkKeeps ==
    ASSUME Steady, NEW r \in Requests, NEW x \in ImportRequest \cup {Idle}, Turns(r, x), ~At(r, "release"),
           UNCHANGED <<catalogue, history, rows>>, JobTypes', Spent'
    PROVE  Keeps
  BY ImportOnly, RequestKinds DEF Turns, Steady, Present, ImportRequest

LEMMA ExpireKeeps == ASSUME Steady, expireBatch PROVE Keeps
<1>1. JobTypes' /\ Spent' /\ UNCHANGED <<catalogue, history, rows, req>>
  BY DEF expireBatch, Steady, Types, JobTypes, Spent
<1> QED
  BY <1>1, ImportOnly DEF Steady, Types, Present

\* What a request that works on the import holds.
LEMMA WorkerForm ==
    ASSUME Types, NEW r \in Requests, req[r].next \in Importing
    PROVE  /\ req[r] \in ImportRequest /\ req[r].batch \subseteq Products /\ req[r].todo \subseteq Products
           /\ req[r].created \subseteq Products /\ req[r].failed \subseteq Products
           /\ req[r].verified \in BOOLEAN /\ req[r].alone \in BOOLEAN
           /\ req[r].saw \in [Products -> Moderations \cup {"none"}] /\ ~At(r, "release")
  BY RequestKinds DEF Types, ImportRequest, At

\* Where the request r is after a transaction: done, or about to try one row.
Goes(r, x, todo, created, failed) ==
    /\ Turns(r, x) /\ x.created = created /\ x.failed = failed
    /\ \/ todo = {} /\ x.next = "finish" /\ x.batch = {} /\ x.todo = req[r].todo
       \/ \E p \in todo : x.next = "read" /\ x.alone = TRUE /\ x.batch = {p} /\ x.todo = todo \ {p}

LEMMA NextForm ==
    ASSUME Types, NEW r \in Requests, req[r].next \in Importing,
           NEW todo \in SUBSET Products, NEW created \in SUBSET Products, NEW failed \in SUBSET Products,
           NextBatch(r, todo, created, failed)
    PROVE  \E x \in ImportRequest : Goes(r, x, todo, created, failed)
<1> DEFINE now == [req[r] EXCEPT !.created = created, !.failed = failed, !.saw = NoSaw, !.batch = {}]
<1>1. req[r] \in ImportRequest
  BY WorkerForm
<1>2. /\ now \in ImportRequest /\ now.created = created /\ now.failed = failed /\ now.batch = {}
      /\ now.todo = req[r].todo
  BY <1>1 DEF ImportRequest, NoSaw
<1>3. \/ todo = {} /\ req' = [req EXCEPT ![r] = [now EXCEPT !.next = "finish", !.alone = FALSE, !.verified = FALSE]]
      \/ \E p \in todo : req' = [req EXCEPT ![r] = [now EXCEPT !.next = "read", !.alone = TRUE,
                                                               !.todo = todo \ {p}, !.batch = {p}]]
  BY DEF NextBatch
<1> HIDE DEF now
<1>4. CASE todo = {} /\ req' = [req EXCEPT ![r] = [now EXCEPT !.next = "finish", !.alone = FALSE, !.verified = FALSE]]
  <2> DEFINE x == [now EXCEPT !.next = "finish", !.alone = FALSE, !.verified = FALSE]
  <2>1. /\ x \in ImportRequest /\ x.created = created /\ x.failed = failed
        /\ x.next = "finish" /\ x.batch = {} /\ x.todo = req[r].todo
    BY <1>2, RequestKinds DEF ImportRequest
  <2>2. req' = [req EXCEPT ![r] = x]
    BY <1>4
  <2> HIDE DEF x
  <2>3. Turns(r, x)
    BY <2>1, <2>2, TurnForm, RequestKinds
  <2> QED  BY <1>4, <2>1, <2>3 DEF Goes
<1>5. ASSUME NEW p \in todo,
             req' = [req EXCEPT ![r] = [now EXCEPT !.next = "read", !.alone = TRUE, !.todo = todo \ {p}, !.batch = {p}]]
      PROVE  \E x \in ImportRequest :
                /\ Turns(r, x) /\ x.created = created /\ x.failed = failed
                /\ \E q \in todo : x.next = "read" /\ x.alone = TRUE /\ x.batch = {q} /\ x.todo = todo \ {q}
  <2> DEFINE x == [now EXCEPT !.next = "read", !.alone = TRUE, !.todo = todo \ {p}, !.batch = {p}]
  <2>1. /\ x \in ImportRequest /\ x.created = created /\ x.failed = failed
        /\ x.next = "read" /\ x.alone = TRUE /\ x.batch = {p} /\ x.todo = todo \ {p}
    BY <1>2, RequestKinds DEF ImportRequest
  <2>2. req' = [req EXCEPT ![r] = x]
    BY <1>5
  <2> HIDE DEF x
  <2>3. Turns(r, x)
    BY <2>1, <2>2, TurnForm, RequestKinds
  <2> QED  BY <2>1, <2>3
<1>6. CASE \E p \in todo :
             req' = [req EXCEPT ![r] = [now EXCEPT !.next = "read", !.alone = TRUE, !.todo = todo \ {p}, !.batch = {p}]]
  <2>1. PICK p \in todo :
             req' = [req EXCEPT ![r] = [now EXCEPT !.next = "read", !.alone = TRUE, !.todo = todo \ {p}, !.batch = {p}]]
    BY <1>6
  <2>2. PICK x \in ImportRequest :
                /\ Turns(r, x) /\ x.created = created /\ x.failed = failed
                /\ \E q \in todo : x.next = "read" /\ x.alone = TRUE /\ x.batch = {q} /\ x.todo = todo \ {q}
    BY <1>5, <2>1
  <2> QED  BY <2>2 DEF Goes
<1> QED  BY <1>3, <1>4, <1>6 DEF Goes

\* The states of a request that has claimed the job and not finished it.
Core == {"signals", "read", "write", "finish"}

\* What such a request knows: the rows it wrote are those it counts, and every
\* row that can be imported is written, counted as failed or still to be tried.
Uploaded(r) ==
    /\ At(r, "claim") => req[r] = Claim
    /\ At(r, "signals") => /\ req[r] = [Claim EXCEPT !.next = "signals"]
                           /\ \A p \in Products : writes[p] = 0
    /\ req[r].next \in {"read", "write", "finish"} =>
          /\ req[r].created = {p \in Products : writes[p] > 0}
          /\ \A p \in req[r].batch \cup req[r].todo : writes[p] = 0
          /\ req[r].batch \cap req[r].todo = {}
          /\ \A p \in Products : rows[p] \in {"new", "update"} =>
                p \in req[r].created \cup req[r].failed \cup req[r].batch \cup req[r].todo
    /\ req[r].next \in {"read", "write"} /\ ~req[r].alone =>
          req[r].created = {} /\ req[r].failed = {} /\ req[r].todo = {}
    /\ At(r, "finish") => req[r].batch = {} /\ req[r].todo = {}
OneJob ==
    /\ \A r \in Requests : req[r].next \in Core => job.status = "RUNNING"
    /\ \A r \in Requests : At(r, "discard") => job.status \in {"PARTIAL", "COMPLETED"}
    /\ \A r, q \in Requests : req[r].next \in Core /\ req[q].next \in Core => r = q
    /\ job.status \in {"none", "PENDING"} => \A p \in Products : writes[p] = 0
    /\ \A r \in Requests : Uploaded(r)
JobRight == OneJob /\ RowsWrittenOnce /\ FinishedJobTellsWhatLanded

LEMMA CoreSteps ==
    /\ Core = {"signals", "read", "write", "finish"} /\ Core \subseteq Importing
    /\ Importing = Core \cup {"claim", "discard"} /\ "idle" \notin Importing
  BY DEF Core, Importing

LEMMA QuietRight ==
    ASSUME Types, JobRight, JobQuiet
    PROVE  JobRight'
<1>1. \A q \in Requests : req'[q].next \in Importing => req'[q] = req[q]
  BY DEF JobQuiet
<1>2. /\ job' = job /\ writes' = writes
      /\ \A p \in Products : rows'[p] \in {"new", "update", "over_limit"} => rows'[p] = rows[p]
  BY DEF JobQuiet
<1>3. ASSUME NEW q \in Requests PROVE Uploaded(q)'
  <2>1. CASE req'[q].next \notin Importing
    BY <2>1, CoreSteps DEF Uploaded, At
  <2>2. CASE req'[q] = req[q]
    <3>1. Uploaded(q)  BY DEF JobRight, OneJob
    <3> QED  BY <1>2, <2>2, <3>1 DEF Uploaded, At
  <2> QED  BY <1>1, <2>1, <2>2
<1>4. OneJob'
  BY <1>1, <1>2, <1>3, CoreSteps DEF JobRight, OneJob, At
<1>5. RowsWrittenOnce' /\ FinishedJobTellsWhatLanded'
  BY <1>2 DEF JobRight, RowsWrittenOnce, FinishedJobTellsWhatLanded
<1> QED  BY <1>4, <1>5 DEF JobRight

LEMMA OthersUploaded ==
    ASSUME JobRight, NEW q \in Requests, req'[q] = req[q], req[q].next \notin Core
    PROVE  Uploaded(q)'
  BY CoreSteps DEF JobRight, OneJob, Uploaded, At

\* The file's rows change only when nobody works on the last ones.
LEMMA UploadRight ==
    ASSUME Types, JobRight, NEW ok \in SUBSET Products, upload(ok)
    PROVE  JobRight'
<1>1. /\ req' = req /\ \A q \in Requests : req[q].next \notin Importing
      /\ job' = [status |-> "PENDING", landed |-> 0] /\ writes' = [p \in Products |-> 0]
  BY DEF upload
<1>2. \A q \in Requests : Uploaded(q)'
  BY <1>1, CoreSteps, OthersUploaded
<1>3. OneJob'
  BY <1>1, <1>2, CoreSteps DEF OneJob, At
<1>4. RowsWrittenOnce' /\ FinishedJobTellsWhatLanded'
  BY <1>1 DEF RowsWrittenOnce, FinishedJobTellsWhatLanded
<1> QED  BY <1>3, <1>4 DEF JobRight

LEMMA ExpireRight == ASSUME Types, JobRight, expireBatch PROVE JobRight'
<1>1. JobQuiet
  BY DEF expireBatch, JobQuiet
<1> QED  BY <1>1, QuietRight

\* Import was pressed: the batch is read, the claim is still to come.
LEMMA CommitKeeps ==
    ASSUME Steady, JobRight, NEW r \in Requests, commitImport(r)
    PROVE  Keeps /\ JobRight'
<1>1. Begin(r, Claim) /\ UNCHANGED <<catalogue, import, history, used>>
  BY DEF commitImport
<1>2. Turns(r, Claim) /\ At(r, "idle")
  BY <1>1, ClaimForm, TurnForm, RequestKinds DEF Steady
<1>3. Keeps
  BY <1>1, <1>2, ClaimForm, WorkKeeps, ImportStays DEF Steady, Types, Spent, At
<1>4. job' = job /\ writes' = writes /\ rows' = rows
  BY <1>1 DEF import
<1>5. \A q \in Requests : Uploaded(q)'
  <2>1. Uploaded(r)'
    BY <1>2, ClaimForm, CoreSteps DEF Turns, Uploaded, At, Claim, NoSaw
  <2>2. ASSUME NEW q \in Requests, q # r PROVE Uploaded(q)'
    BY <1>2, <1>4, <2>2 DEF Turns, JobRight, OneJob, Uploaded, At
  <2> QED  BY <2>1, <2>2
<1>6. OneJob'
  BY <1>2, <1>4, <1>5, ClaimForm, CoreSteps DEF JobRight, OneJob, Turns, At
<1>7. RowsWrittenOnce' /\ FinishedJobTellsWhatLanded'
  BY <1>4 DEF JobRight, RowsWrittenOnce, FinishedJobTellsWhatLanded
<1> QED  BY <1>3, <1>6, <1>7 DEF JobRight

\* Of those that press it at once one finds the job PENDING.
LEMMA ClaimKeeps ==
    ASSUME Steady, JobRight, NEW r \in Requests, claimImport(r)
    PROVE  Keeps /\ JobRight'
<1>1. /\ At(r, "claim") /\ UNCHANGED <<catalogue, rows, staged, writes, jobDied, history, used>>
  BY DEF claimImport
<1>2. req[r] = Claim /\ ~At(r, "release")
  BY <1>1, ClaimForm DEF JobRight, OneJob, Uploaded, At
<1>3. CASE job.status # "PENDING"
  <2>1. UNCHANGED job /\ Finish(r)
    BY <1>3 DEF claimImport
  <2>2. Turns(r, Idle)
    BY <2>1, TurnForm, RequestKinds DEF Steady
  <2>3. Keeps
    BY <1>1, <1>2, <2>1, <2>2, WorkKeeps DEF Steady, Types, Spent, JobTypes
  <2>4. JobQuiet
    BY <1>1, <2>1, <2>2, CoreSteps, RequestKinds DEF JobQuiet, Turns
  <2> QED  BY <2>3, <2>4, QuietRight DEF Steady
<1>4. CASE job.status = "PENDING"
  <2> DEFINE x == [Claim EXCEPT !.next = "signals"]
  <2>1. /\ job' = [job EXCEPT !.status = "RUNNING"] /\ req' = [req EXCEPT ![r] = x]
    BY <1>2, <1>4 DEF claimImport, Steady, Types
  <2>2. /\ job' \in [status : JobStates, landed : 0 .. Cardinality(Products)] /\ job'.status = "RUNNING"
    BY <2>1 DEF Steady, Types, JobTypes, JobStates
  <2>3. x \in ImportRequest /\ x.next = "signals"
    BY ClaimForm, CoreSteps DEF ImportRequest
  <2>4. Turns(r, x)
    BY <2>1, <2>3, TurnForm, RequestKinds DEF Steady
  <2>5. Keeps
    <3> HIDE DEF x
    <3> QED  BY <1>1, <1>2, <2>2, <2>3, <2>4, WorkKeeps DEF Steady, Types, Spent, JobTypes
  <2>6. /\ \A q \in Requests : req[q].next \notin Core /\ req[q].next # "discard"
        /\ \A p \in Products : writes'[p] = 0
    BY <1>1, <1>4, CoreSteps DEF JobRight, OneJob, At
  <2>7. \A q \in Requests : Uploaded(q)'
    <3>1. Uploaded(r)'
      BY <2>3, <2>4, <2>6 DEF Turns, Uploaded, At
    <3>2. ASSUME NEW q \in Requests, q # r PROVE Uploaded(q)'
      BY <2>4, <2>6, <3>2, OthersUploaded DEF Turns
    <3> QED  BY <3>1, <3>2
  <2> HIDE DEF x
  <2>8. OneJob'
    BY <2>2, <2>3, <2>4, <2>6, <2>7, CoreSteps DEF OneJob, Turns, At
  <2>9. RowsWrittenOnce' /\ FinishedJobTellsWhatLanded'
    BY <1>1, <2>2 DEF JobRight, RowsWrittenOnce, FinishedJobTellsWhatLanded
  <2> QED  BY <2>5, <2>8, <2>9 DEF JobRight
<1> QED  BY <1>3, <1>4

\* The one request that has the job goes on with it.
LEMMA WorkerRight ==
    ASSUME JobRight, NEW r \in Requests, req[r].next \in Core, NEW x, Turns(r, x), x.next \in Core,
           UNCHANGED job, Uploaded(r)', RowsWrittenOnce'
    PROVE  JobRight'
<1>1. job'.status = "RUNNING" /\ \A q \in Requests : q # r => req[q].next \notin Core
  BY DEF JobRight, OneJob
<1>2. \A q \in Requests : Uploaded(q)'
  BY <1>1, OthersUploaded DEF Turns
<1>3. OneJob'
  <2>1. \A q \in Requests : ~At(q, "discard")'
    BY <1>1, CoreSteps DEF JobRight, OneJob, Turns, At
  <2> QED  BY <1>1, <1>2, <2>1 DEF OneJob, Turns
<1>4. FinishedJobTellsWhatLanded'
  BY <1>1 DEF FinishedJobTellsWhatLanded
<1> QED  BY <1>3, <1>4 DEF JobRight

LEMMA ImportSignalsKeeps ==
    ASSUME Steady, JobRight, NEW r \in Requests, importSignals(r)
    PROVE  Keeps /\ JobRight'
<1> DEFINE x == [req[r] EXCEPT !.next = IF Importable = {} THEN "finish" ELSE "read",
                               !.verified = (seller = "VERIFIED"), !.batch = Importable]
<1>1. At(r, "signals") /\ UNCHANGED <<catalogue, import, history, used>>
  BY DEF importSignals
<1>2. req' = [req EXCEPT ![r] = x]
  BY DEF importSignals, Steady, Types
<1>3. /\ req[r] \in ImportRequest /\ req[r] = [Claim EXCEPT !.next = "signals"]
      /\ \A p \in Products : writes[p] = 0
  BY <1>1, WorkerForm, CoreSteps DEF Steady, JobRight, OneJob, Uploaded, At
<1>4. req[r].created = {} /\ req[r].failed = {} /\ req[r].todo = {} /\ req[r].alone = FALSE
  BY <1>3, ClaimForm DEF Claim, ImportRequest
<1>5. /\ x \in ImportRequest /\ x.next = (IF Importable = {} THEN "finish" ELSE "read") /\ x.batch = Importable
      /\ x.created = {} /\ x.failed = {} /\ x.todo = {} /\ x.alone = FALSE
  <2> DEFINE next == IF Importable = {} THEN "finish" ELSE "read"
             v == seller = "VERIFIED"
  <2>1. next \in Importing /\ v \in BOOLEAN /\ Importable \in SUBSET Products
    BY CoreSteps DEF Importable
  <2>2. x = [[[req[r] EXCEPT !.next = next] EXCEPT !.verified = v] EXCEPT !.batch = Importable]
    BY Zenon
  <2> HIDE DEF x, next, v
  <2>3. /\ x \in ImportRequest /\ x.next = next /\ x.batch = Importable
        /\ x.created = req[r].created /\ x.failed = req[r].failed /\ x.todo = req[r].todo
        /\ x.alone = req[r].alone
    BY <1>3, <2>1, <2>2 DEF ImportRequest
  <2> QED  BY <1>4, <2>3 DEF next
<1> HIDE DEF x
<1>6. Turns(r, x)
  BY <1>2, <1>5, TurnForm, RequestKinds DEF Steady
<1>7. Keeps
  <2>1. ~At(r, "release") /\ JobTypes' /\ UNCHANGED rows
    BY <1>1, ImportStays DEF Steady, At
  <2> QED  BY <1>1, <1>5, <1>6, <2>1, WorkKeeps DEF Steady, Types, Spent
<1>8. Uploaded(r)'
  <2>1. writes' = writes /\ rows' = rows
    BY <1>1 DEF import
  <2>2. /\ {p \in Products : writes'[p] > 0} = {}
        /\ \A p \in Products : rows'[p] \in {"new", "update"} => p \in Importable
        /\ \A p \in Importable : writes'[p] = 0
    BY <1>3, <2>1 DEF Importable
  <2> QED  BY <1>5, <1>6, <2>2 DEF Turns, Uploaded, At
<1>9. JobRight'
  <2>1. job' = job /\ RowsWrittenOnce'
    BY <1>1 DEF import, JobRight, RowsWrittenOnce
  <2> QED  BY <1>1, <1>5, <1>6, <1>8, <2>1, WorkerRight, CoreSteps DEF At
<1> QED  BY <1>7, <1>9

LEMMA ImportReadKeeps ==
    ASSUME Steady, JobRight, NEW r \in Requests, importRead(r)
    PROVE  Keeps /\ JobRight'
<1> DEFINE saw == [p \in Products |-> IF p \in req[r].batch /\ rows[p] = "update"
                                      THEN product[p].moderation ELSE "none"]
           x == [req[r] EXCEPT !.next = "write", !.saw = saw]
<1>1. At(r, "read") /\ UNCHANGED <<catalogue, import, history, used>>
  BY DEF importRead
<1>2. req' = [req EXCEPT ![r] = x]
  BY DEF importRead, Steady, Types
<1>3. req[r] \in ImportRequest /\ Uploaded(r)
  BY <1>1, WorkerForm, CoreSteps DEF Steady, JobRight, OneJob, At
<1>4. saw \in [Products -> Moderations \cup {"none"}]
  BY RowForms DEF Steady, Types
<1> HIDE DEF saw
<1>5. /\ x \in ImportRequest /\ x.next = "write" /\ x.batch = req[r].batch /\ x.todo = req[r].todo
      /\ x.created = req[r].created /\ x.failed = req[r].failed /\ x.alone = req[r].alone
  BY <1>3, <1>4, CoreSteps DEF ImportRequest
<1> HIDE DEF x
<1>6. Turns(r, x)
  BY <1>2, <1>5, TurnForm, RequestKinds DEF Steady
<1>7. Keeps
  <2>1. ~At(r, "release") /\ JobTypes' /\ UNCHANGED rows
    BY <1>1, ImportStays DEF Steady, At
  <2> QED  BY <1>1, <1>5, <1>6, <2>1, WorkKeeps DEF Steady, Types, Spent
<1>8. Uploaded(r)' /\ job' = job /\ RowsWrittenOnce'
  <2>1. writes' = writes /\ rows' = rows /\ job' = job
    BY <1>1 DEF import
  <2>2. Uploaded(r)'
    BY <1>1, <1>3, <1>5, <1>6, <2>1 DEF Turns, Uploaded, At
  <2> QED  BY <2>1, <2>2 DEF JobRight, RowsWrittenOnce
<1> QED  BY <1>1, <1>5, <1>6, <1>7, <1>8, WorkerRight, CoreSteps DEF At

\* A transaction that is rolled back: the rows again, one by one, or one failed.
LEMMA RollbackKeeps ==
    ASSUME Steady, JobRight, NEW r \in Requests, importRollback(r)
    PROVE  Keeps /\ JobRight'
<1>0. Types /\ {} \in SUBSET Products
  BY DEF Steady
<1>1. /\ At(r, "write") /\ UNCHANGED <<catalogue, import, history>>
      /\ UNCHANGED used \/ Spend("rare")
  BY DEF importRollback
<1>2. /\ req[r] \in ImportRequest /\ req[r].batch \in SUBSET Products /\ req[r].todo \in SUBSET Products
      /\ req[r].created \in SUBSET Products /\ req[r].failed \in SUBSET Products
      /\ req[r].alone \in BOOLEAN /\ Uploaded(r) /\ req[r].next \in Importing /\ ~At(r, "release")
  BY <1>1, WorkerForm, CoreSteps DEF Steady, JobRight, OneJob, At
<1>3. writes' = writes /\ rows' = rows /\ job' = job
  BY <1>1 DEF import
<1>4. PICK x \in ImportRequest : Turns(r, x) /\ x.next \in Core /\ Uploaded(r)'
  <2>1. CASE req[r].alone
    <3>1. NextBatch(r, req[r].todo, req[r].created, req[r].failed \cup req[r].batch)
      BY <2>1 DEF importRollback
    <3>2. req[r].failed \cup req[r].batch \in SUBSET Products
      BY <1>2
    <3>3. PICK x \in ImportRequest :
              Goes(r, x, req[r].todo, req[r].created, req[r].failed \cup req[r].batch)
      BY <1>0, <1>2, <3>1, <3>2, NextForm
    <3>4. Uploaded(r)'
      BY <1>1, <1>2, <1>3, <3>3 DEF Goes, Turns, Uploaded, At
    <3> QED  BY <3>3, <3>4, CoreSteps DEF Goes
  <2>2. CASE ~req[r].alone
    <3>1. NextBatch(r, req[r].batch, {}, {})
      BY <2>2 DEF importRollback
    <3>2. PICK x \in ImportRequest : Goes(r, x, req[r].batch, {}, {})
      BY <1>0, <1>2, <3>1, NextForm
    <3>3. Uploaded(r)'
      BY <1>1, <1>2, <1>3, <2>2, <3>2 DEF Goes, Turns, Uploaded, At
    <3> QED  BY <3>2, <3>3, CoreSteps DEF Goes
  <2> QED  BY <1>2, <2>1, <2>2
<1>5. Keeps
  <2>1. Spent'
    BY <1>1, SpendKeeps, Bounded DEF Steady, Types, Spent
  <2>2. JobTypes'
    BY <1>1, ImportStays DEF Steady
  <2> QED  BY <1>1, <1>2, <1>3, <1>4, <2>1, <2>2, WorkKeeps
<1>6. RowsWrittenOnce'
  BY <1>3 DEF JobRight, RowsWrittenOnce
<1> QED  BY <1>1, <1>3, <1>4, <1>5, <1>6, WorkerRight, CoreSteps DEF At

\* What a row's write leaves of the product.
LEMMA ImportedForm ==
    ASSUME Steady, NEW r \in Requests, At(r, "write"), NEW p \in Products, p \in req[r].batch,
           ~Refused(req[r].batch)
    PROVE  /\ Imported(r, p) \in Row /\ (Live(p) => Imported(r, p) # NoProduct)
           /\ product[p].moderation = "REJECTED" /\ Imported(r, p).moderation # "REJECTED"
                 => req[r].saw[p] # "REJECTED"
<1>1. product[p] \in Row /\ req[r].verified \in BOOLEAN
  BY WorkerForm, CoreSteps DEF Steady, Types, At
<1>2. CASE rows[p] = "new"
  <2> DEFINE m == Decided(req[r].verified)
  <2>1. ~Live(p)
    BY <1>2 DEF Refused
  <2>2. m \in Moderations
    BY <1>1, AllowedDecisions
  <2>3. Imported(r, p) = [NoProduct EXCEPT !.moderation = m]
    BY <1>2 DEF Imported
  <2> HIDE DEF m
  <2>4. Imported(r, p) \in LiveRow
    <3>1. NoPhotos \in [Moderations -> 0 .. PhotoCap] /\ PhotoCount(NoPhotos) <= PhotoCap
      BY PhotoForms, CatalogueAssumption
    <3>2. Imported(r, p) = [published |-> FALSE, moderation |-> m, photos |-> NoPhotos]
      BY <2>3 DEF NoProduct
    <3> QED  BY <2>2, <3>1, <3>2 DEF LiveRow
  <2>5. product[p].moderation = "none"
    BY <2>1, RowForms DEF Live
  <2> QED  BY <2>1, <2>4, <2>5, RowForms
<1>3. CASE rows[p] = "update" /\ ~req[r].verified /\ req[r].saw[p] = "APPROVED"
  <2>1. Imported(r, p) = [product[p] EXCEPT !.moderation = "PENDING"]
    BY <1>3 DEF Imported
  <2>2. product[p] \in LiveRow
    BY <1>1, <1>3, RowForms DEF Steady, Present, Live
  <2>3. Imported(r, p) \in LiveRow
    <3>1. \A y \in LiveRow : [y EXCEPT !.moderation = "PENDING"] \in LiveRow
      BY Edited, RowForms
    <3> QED  BY <2>1, <2>2, <3>1
  <2> QED  BY <1>3, <2>3, RowForms
<1>4. CASE rows[p] # "new" /\ ~(rows[p] = "update" /\ ~req[r].verified /\ req[r].saw[p] = "APPROVED")
  <2>1. Imported(r, p) = product[p]
    BY <1>4 DEF Imported
  <2> QED  BY <1>1, <2>1 DEF Live
<1> QED  BY <1>2, <1>3, <1>4

\* A transaction that commits: every row of it is written, for the first time.
LEMMA ImportWriteKeeps ==
    ASSUME Steady, JobRight, NEW r \in Requests, importWrite(r)
    PROVE  Keeps /\ JobRight'
<1> DEFINE batch == req[r].batch
           kept == {p \in batch : rows[p] # "gone"}
<1>1. /\ At(r, "write") /\ ~Refused(batch)
      /\ NextBatch(r, req[r].todo, req[r].created \cup kept, req[r].failed)
      /\ UNCHANGED <<seller, ghost, job, rows, staged, jobDied, unreleased, used>>
      /\ torn' \subseteq torn \cup batch
      /\ product' = [p \in Products |-> IF p \in batch THEN Imported(r, p) ELSE product[p]]
      /\ writes' = [p \in Products |-> IF p \in kept THEN writes[p] + 1 ELSE writes[p]]
      /\ late' = IF seller = "VERIFIED"
                 THEN late \cup {p \in batch : product'[p] # product[p] /\ product'[p].moderation = "PENDING"}
                 ELSE late
  BY DEF importWrite
<1>2. /\ req[r] \in ImportRequest /\ batch \subseteq Products /\ req[r].todo \in SUBSET Products
      /\ req[r].created \in SUBSET Products /\ req[r].failed \in SUBSET Products
      /\ Uploaded(r) /\ req[r].next \in Importing /\ ~At(r, "release") /\ Types
  BY <1>1, WorkerForm, CoreSteps DEF Steady, JobRight, OneJob, At
<1>3. PICK x \in ImportRequest : Goes(r, x, req[r].todo, req[r].created \cup kept, req[r].failed)
  <2>1. req[r].created \cup kept \in SUBSET Products
    BY <1>2
  <2> QED  BY <1>1, <1>2, <2>1, NextForm
<1>4. Turns(r, x) /\ x.next \in {"read", "finish"}
  BY <1>3 DEF Goes
<1>5. \A p \in Products : writes[p] \in Nat /\ (p \in kept => writes[p] = 0)
  BY <1>1, <1>2 DEF Types, JobTypes, Uploaded, At
<1>6. /\ writes' \in [Products -> Nat]
      /\ \A p \in Products : p \in kept => writes'[p] = 1
      /\ \A p \in Products : p \notin kept => writes'[p] = writes[p]
  BY <1>1, <1>5
<1>7. RowsWrittenOnce'
  BY <1>6 DEF JobRight, RowsWrittenOnce
<1>8. Uploaded(r)'
  <2>1. {p \in Products : writes'[p] > 0} = req[r].created \cup kept
    BY <1>1, <1>2, <1>6 DEF Uploaded, At
  <2>2. /\ \A p \in req[r].todo : writes'[p] = 0
        /\ \A p \in Products : rows[p] \in {"new", "update"} =>
              p \in req[r].created \cup kept \cup req[r].failed \cup req[r].todo
    BY <1>1, <1>2, <1>6 DEF Uploaded, At
  <2> HIDE DEF batch, kept
  <2>3. CASE req[r].todo = {} /\ x.next = "finish" /\ x.batch = {} /\ x.todo = req[r].todo
    BY <1>1, <1>3, <2>1, <2>2, <2>3 DEF Goes, Turns, Uploaded, At
  <2>4. CASE \E p \in req[r].todo :
                x.next = "read" /\ x.alone = TRUE /\ x.batch = {p} /\ x.todo = req[r].todo \ {p}
    BY <1>1, <1>2, <1>3, <2>1, <2>2, <2>4 DEF Goes, Turns, Uploaded, At
  <2> QED  BY <1>3, <2>3, <2>4 DEF Goes
<1>9. JobRight'
  BY <1>1, <1>4, <1>7, <1>8, WorkerRight, CoreSteps DEF At
<1>10. /\ \A p \in batch : /\ product'[p] \in Row /\ (Live(p) => product'[p] # NoProduct)
                           /\ product[p].moderation = "REJECTED" /\ product'[p].moderation # "REJECTED"
                                 => req[r].saw[p] # "REJECTED"
       /\ \A p \in Products : p \notin batch => product'[p] = product[p]
       /\ product' \in [Products -> Row]
  <2>1. ASSUME NEW p \in batch
        PROVE  /\ product'[p] \in Row /\ (Live(p) => product'[p] # NoProduct)
               /\ product[p].moderation = "REJECTED" /\ product'[p].moderation # "REJECTED"
                     => req[r].saw[p] # "REJECTED"
    BY <1>1, <1>2, <2>1, ImportedForm
  <2>2. \A p \in Products : p \notin batch => product'[p] = product[p]
    BY <1>1
  <2>3. \A p \in Products : product'[p] \in Row
    BY <2>1, <2>2 DEF Steady, Types
  <2> QED  BY <1>1, <2>1, <2>2, <2>3
<1>11. Calm
  <2>1. \A p \in Products : Live(p) => Live(p)'
    BY <1>10 DEF Live
  <2>2. \A p \in Products \ late' : product'[p].moderation = "PENDING" /\ seller = "VERIFIED" =>
            product[p].moderation = "PENDING" /\ p \notin late
    BY <1>1, <1>10
  <2>3. Holds(r)'
    BY <1>4, RequestKinds DEF Turns, Holds, At
  <2> QED  BY <1>1, <1>2, <1>4, <2>1, <2>2, <2>3 DEF Calm, Turns
<1>12. Stands
  <2>1. ASSUME NEW p \in Products, product[p].moderation = "REJECTED",
               product'[p].moderation \notin {"REJECTED", "none"}
        PROVE  At(r, "write") /\ p \in req[r].batch /\ req[r].saw[p] # "REJECTED"
    BY <1>1, <1>10, <2>1
  <2> QED  BY <2>1 DEF Stands
<1>13. Types'
  <2>1. JobTypes'
    BY <1>1, <1>6 DEF Steady, Types, JobTypes
  <2>2. late' \subseteq Products /\ torn' \subseteq Products
    BY <1>1, <1>2 DEF Types
  <2>3. Spent'
    BY <1>1 DEF Steady, Types, Spent
  <2> QED  BY <1>1, <1>4, <1>10, <2>1, <2>2, <2>3 DEF Steady, Types, Turns
<1> QED  BY <1>9, <1>11, <1>12, <1>13, CalmKeeps DEF Keeps

\* The job is closed with what its request counted.
LEMMA FinishKeeps ==
    ASSUME Steady, JobRight, NEW r \in Requests, finishImport(r)
    PROVE  Keeps /\ JobRight'
<1> DEFINE x == [Claim EXCEPT !.next = "discard"]
<1>1. /\ At(r, "finish") /\ req' = [req EXCEPT ![r] = x]
      /\ UNCHANGED <<catalogue, rows, staged, writes, jobDied, history, used>>
      /\ job' = [landed |-> Cardinality(req[r].created),
                 status |-> IF req[r].failed # {} \/ \E p \in Products : rows[p] = "over_limit"
                            THEN "PARTIAL" ELSE "COMPLETED"]
  BY DEF finishImport
<1>2. x \in ImportRequest /\ x.next = "discard"
  BY ClaimForm, CoreSteps DEF ImportRequest
<1> HIDE DEF x
<1>3. Turns(r, x) /\ req[r].created \subseteq Products /\ Uploaded(r) /\ ~At(r, "release")
  BY <1>1, <1>2, TurnForm, RequestKinds, WorkerForm, CoreSteps DEF Steady, JobRight, OneJob, At
<1>4. /\ job'.status \in {"PARTIAL", "COMPLETED"} /\ job'.landed = Cardinality(req[r].created)
      /\ job'.status = "COMPLETED" => req[r].failed = {}
      /\ job' = [landed |-> job'.landed, status |-> job'.status]
  BY <1>1
<1>5. job'.landed \in 0 .. Cardinality(Products)
  BY <1>3, <1>4, FS_Subset, FS_CardinalityType, CatalogueAssumption
<1>6. JobTypes'
  BY <1>1, <1>4, <1>5 DEF Steady, Types, JobTypes, JobStates
<1>7. Keeps
  BY <1>1, <1>2, <1>3, <1>6, WorkKeeps DEF Steady, Types, Spent
<1>8. /\ req[r].created = {p \in Products : writes[p] > 0} /\ req[r].batch = {} /\ req[r].todo = {}
      /\ \A p \in Products : rows[p] \in {"new", "update"} => p \in req[r].created \cup req[r].failed
  BY <1>1, <1>3 DEF Uploaded, At
<1>9. FinishedJobTellsWhatLanded' /\ RowsWrittenOnce'
  <2>1. RowsWrittenOnce /\ \A p \in Products : writes[p] \in Nat
    BY DEF JobRight, Steady, Types, JobTypes
  <2>2. \A p \in Products : writes[p] > 0 => writes[p] = 1
    BY <2>1 DEF RowsWrittenOnce
  <2> QED
    BY <1>1, <1>4, <1>8, <2>1, <2>2 DEF FinishedJobTellsWhatLanded, RowsWrittenOnce
<1>10. OneJob'
  <2>1. \A q \in Requests : q # r => req'[q] = req[q] /\ req[q].next \notin Core
    BY <1>1, <1>3, CoreSteps DEF Turns, JobRight, OneJob, At
  <2>2. \A q \in Requests : req'[q].next \notin Core
    BY <1>2, <1>3, <2>1, CoreSteps DEF Turns
  <2>3. \A q \in Requests : Uploaded(q)'
    <3>1. Uploaded(r)'
      BY <1>2, <1>3, CoreSteps DEF Turns, Uploaded, At
    <3> QED  BY <2>1, <3>1, OthersUploaded
  <2> QED  BY <1>4, <2>2, <2>3 DEF OneJob
<1> QED  BY <1>7, <1>9, <1>10 DEF JobRight

LEMMA DiscardKeeps ==
    ASSUME Steady, JobRight, NEW r \in Requests, discardBatch(r)
    PROVE  Keeps /\ JobRight'
<1>1. /\ At(r, "discard") /\ Finish(r) /\ staged' = FALSE
      /\ UNCHANGED <<catalogue, job, rows, writes, jobDied, history, used>>
  BY DEF discardBatch
<1>2. Turns(r, Idle) /\ ~At(r, "release")
  BY <1>1, TurnForm, RequestKinds DEF Steady, At
<1>3. Keeps
  BY <1>1, <1>2, WorkKeeps DEF Steady, Types, Spent, JobTypes
<1>4. JobQuiet
  BY <1>1, <1>2, CoreSteps, RequestKinds DEF JobQuiet, Turns
<1> QED  BY <1>3, <1>4, QuietRight DEF Steady

-----------------------------------------------------------------------------
(* The whole of it.                                                         *)

LEMMA InitKeeps == Init => Steady /\ JobRight
<1> SUFFICES ASSUME Init PROVE Steady /\ JobRight
  OBVIOUS
<1>1. \A r \in Requests : req[r] = Idle /\ req[r].next = "idle"
  BY RequestKinds DEF Init
<1>2. Types
  <2>1. Spent
    BY Bounded DEF Init, Spent
  <2>2. JobTypes
    <3>1. 0 \in 0 .. Cardinality(Products)
      BY FS_CardinalityType, CatalogueAssumption
    <3> QED  BY <3>1 DEF Init, JobTypes, JobStates, RowStates
  <2> QED  BY <2>1, <2>2, RequestKinds DEF Init, Types, SellerStatuses, Row
<1>3. Present /\ VerifiedIsReleased
  BY <1>1 DEF Init, Present, Holds, At, VerifiedIsReleased
<1>4. OneJob
  BY <1>1, CoreSteps DEF Init, OneJob, Uploaded, At
<1>5. RowsWrittenOnce /\ FinishedJobTellsWhatLanded
  BY DEF Init, RowsWrittenOnce, FinishedJobTellsWhatLanded
<1> QED  BY <1>2, <1>3, <1>4, <1>5 DEF Steady, JobRight

LEMMA StepKeeps == ASSUME Steady, JobRight, Next PROVE Keeps /\ JobRight'
<1>0. Types
  BY DEF Steady
<1>1. ASSUME NEW p \in Products,
             \/ \E publish \in BOOLEAN : setCatalogStatus(p, publish)
             \/ deleteCatalogItem(p)
             \/ attachPhoto(p)
      PROVE  Keeps /\ JobRight'
  BY <1>0, <1>1, DirectKeeps, DeleteKeeps, QuietRight
<1>2. ASSUME NEW ps \in SUBSET Products, clearProductPhotos(ps) PROVE Keeps /\ JobRight'
  BY <1>0, <1>2, ClearKeeps, QuietRight
<1>3. ASSUME NEW to \in {"SUSPENDED", "BANNED"}, suspendSeller(to) PROVE Keeps /\ JobRight'
  BY <1>0, <1>3, SuspendKeeps, QuietRight
<1>4. ASSUME NEW ok \in SUBSET Products, upload(ok) PROVE Keeps /\ JobRight'
  BY <1>0, <1>4, UploadKeeps, UploadRight
<1>5. CASE expireBatch
  BY <1>0, <1>5, ExpireKeeps, ExpireRight
<1>6. ASSUME NEW r \in Requests, NEW p \in Products, createProduct(r, p) \/ updateProduct(r, p)
      PROVE  Keeps /\ JobRight'
  BY <1>0, <1>6, FormBegins, QuietRight
<1>7. ASSUME NEW r \in Requests, updateSignals(r) PROVE Keeps /\ JobRight'
  BY <1>0, <1>7, SignalsKeep, QuietRight
<1>8. ASSUME NEW r \in Requests, NEW publish \in BOOLEAN, NEW n \in 0 .. PhotoCap,
             createWrite(r, publish, n) \/ updateWrite(r, publish, n)
      PROVE  Keeps /\ JobRight'
  BY <1>0, <1>8, CreateWriteKeeps, UpdateWriteKeeps, QuietRight
<1>9. ASSUME NEW r \in Requests,
             \/ \E ticked \in SUBSET Products : publishProducts(r, ticked)
             \/ publishWrite(r)
      PROVE  Keeps /\ JobRight'
  BY <1>0, <1>9, PublishKeeps, QuietRight
<1>10. ASSUME NEW r \in Requests, verifySeller(r) \/ releasePendingContent(r) PROVE Keeps /\ JobRight'
  BY <1>0, <1>10, VerifyKeeps, ReleaseKeeps, QuietRight
<1>11. ASSUME NEW r \in Requests,
              \/ \E p \in Products, to \in {"APPROVED", "REJECTED"} : moderateProduct(r, p, to)
              \/ moderatePhotos(r)
       PROVE  Keeps /\ JobRight'
  BY <1>0, <1>11, ModerateKeeps, ModeratePhotosKeep, QuietRight
<1>12. ASSUME NEW r \in Requests,
              commitImport(r) \/ claimImport(r) \/ importSignals(r) \/ importRead(r)
       PROVE  Keeps /\ JobRight'
  BY <1>12, CommitKeeps, ClaimKeeps, ImportSignalsKeeps, ImportReadKeeps
<1>13. ASSUME NEW r \in Requests,
              importWrite(r) \/ importRollback(r) \/ finishImport(r) \/ discardBatch(r)
       PROVE  Keeps /\ JobRight'
  BY <1>13, ImportWriteKeeps, RollbackKeeps, FinishKeeps, DiscardKeeps
<1>14. ASSUME NEW r \in Requests, processDies(r) PROVE Keeps /\ JobRight'
  BY <1>0, <1>14, DeathKeeps, QuietRight
<1> QED
  BY <1>1, <1>2, <1>3, <1>4, <1>5, <1>6, <1>7, <1>8, <1>9, <1>10, <1>11, <1>12, <1>13, <1>14 DEF Next

LEMMA Stutter == ASSUME Steady, JobRight, UNCHANGED vars PROVE Keeps /\ JobRight'
<1>1. /\ UNCHANGED <<seller, import, job, rows, writes, req, used>> /\ UNCHANGED <<catalogue, history>>
  BY DEF vars, import, catalogue
<1>2. JobQuiet
  BY <1>1 DEF JobQuiet
<1>3. Keeps
  BY <1>1, ImportOnly, ImportStays DEF Steady, Types, Present, Spent
<1> QED  BY <1>2, <1>3, QuietRight DEF Steady

LEMMA Always == Spec => [](Steady /\ JobRight)
<1>1. Steady /\ JobRight /\ [Next]_vars => (Steady /\ JobRight)'
  BY StepKeeps, Stutter DEF Keeps, Steady
<1> QED  BY <1>1, InitKeeps, PTL DEF Spec

\* The columns' types, and no product ever shows more photographs than the cap,
\* however many uploads attach at once and whatever moderates them meanwhile.
THEOREM CatalogueTypes == Spec => []TypeOK
<1>1. Steady => TypeOK
  <2> SUFFICES ASSUME Steady PROVE TypeOK
    OBVIOUS
  <2>1. \A b \in DOMAIN Bounds : used[b] \in 0 .. Bounds[b]
    BY Bounded DEF Steady, Types, Spent
  <2>2. \A p \in Products : product[p] = NoProduct \/ product[p] \in LiveRow
    BY DEF Steady, Types, Row
  <2> QED  BY <2>1, <2>2 DEF Steady, Types, JobTypes, JobStates, LiveRow, TypeOK
<1> QED  BY <1>1, Always, PTL

\* Nothing of a verified seller waits for review, once the release has run, but
\* what a save that began before the verification wrote after it.
THEOREM VerifiedReleased == Spec => []VerifiedIsReleased
<1>1. Steady => VerifiedIsReleased
  BY DEF Steady
<1> QED  BY <1>1, Always, PTL

\* However many requests press Import, a row of the file is written at most once.
THEOREM RowsOnce == Spec => []RowsWrittenOnce
<1>1. JobRight => RowsWrittenOnce
  BY DEF JobRight
<1> QED  BY <1>1, Always, PTL

\* A finished job counts the rows that were written, and COMPLETED means all of
\* them, whichever transactions were rolled back on the way.
THEOREM JobTells == Spec => []FinishedJobTellsWhatLanded
<1>1. JobRight => FinishedJobTellsWhatLanded
  BY DEF JobRight
<1> QED  BY <1>1, Always, PTL

\* No step takes a product out of REJECTED but an administrator's, the deletion
\* of the row, or a save that had read another decision before.
THEOREM RejectionsStand == Spec => RejectionStands
<1>1. Steady /\ JobRight /\ [Next]_vars => [Stands]_vars
  BY StepKeeps, Stutter DEF Keeps
<1>2. Spec => [][Stands]_vars
  BY <1>1, Always, PTL DEF Spec
<1> QED  BY <1>2 DEF RejectionStands, Stands

-----------------------------------------------------------------------------
(* Photographs.                                                             *)

\* The photographs that match the product: an approved one hides none, and one
\* that waits has none that a release would leave hidden.
Shown(x) ==
    /\ x.moderation = "APPROVED" => x.photos["PENDING"] = 0 /\ x.photos["REJECTED"] = 0
    /\ x.moderation = "PENDING" => x.photos["REJECTED"] = 0

\* An administrator's second statement is still to come.
HalfDone(p) == \E r \in Requests : At(r, "photos") /\ req[r].item = p /\ ~req[r].gone

Matching == \A p \in Products \ torn : HalfDone(p) \/ Shown(product[p])

LEMMA ShownRows ==
    /\ Shown(NoProduct)
    /\ \A publish \in BOOLEAN, m \in Moderations, n \in 0 .. PhotoCap :
          Shown([published |-> publish, moderation |-> m, photos |-> Photos(n, m)])
    /\ \A m \in Moderations : Shown([NoProduct EXCEPT !.moderation = m])
    /\ \A x \in LiveRow : /\ Shown([x EXCEPT !.photos = NoPhotos])
                          /\ \A n \in 0 .. PhotoCap : Shown([x EXCEPT !.photos = Photos(n, x.moderation)])
<1>1. Moderations = {"PENDING", "APPROVED", "REJECTED"} /\ NoPhotos = [m \in Moderations |-> 0]
  BY DEF Moderations, NoPhotos
<1>2. /\ NoPhotos["PENDING"] = 0 /\ NoPhotos["REJECTED"] = 0
      /\ \A n \in 0 .. PhotoCap, m \in Moderations :
            /\ m = "APPROVED" => Photos(n, m)["PENDING"] = 0 /\ Photos(n, m)["REJECTED"] = 0
            /\ m = "PENDING" => Photos(n, m)["REJECTED"] = 0
  BY <1>1 DEF Photos
<1>3. ASSUME NEW publish \in BOOLEAN, NEW m \in Moderations, NEW n \in 0 .. PhotoCap
      PROVE  Shown([published |-> publish, moderation |-> m, photos |-> Photos(n, m)])
  BY <1>2 DEF Shown
<1>4. Shown(NoProduct) /\ \A m \in Moderations : Shown([NoProduct EXCEPT !.moderation = m])
  BY <1>2 DEF Shown, NoProduct
<1>5. ASSUME NEW x \in LiveRow
      PROVE  /\ Shown([x EXCEPT !.photos = NoPhotos])
             /\ \A n \in 0 .. PhotoCap : Shown([x EXCEPT !.photos = Photos(n, x.moderation)])
  <2>1. \A ph : [x EXCEPT !.photos = ph].photos = ph /\ [x EXCEPT !.photos = ph].moderation = x.moderation
    BY DEF LiveRow
  <2>2. x.moderation \in Moderations
    BY DEF LiveRow
  <2> QED  BY <1>2, <2>1, <2>2 DEF Shown
<1> QED  BY <1>3, <1>4, <1>5

LEMMA ShownKept ==
    ASSUME NEW x \in LiveRow, Shown(x)
    PROVE  /\ \A b \in BOOLEAN : Shown([x EXCEPT !.published = b])
           /\ Shown([x EXCEPT !.photos[x.moderation] = @ + 1])
           /\ Shown(Release(x))
           /\ x.moderation # "REJECTED" => Shown([x EXCEPT !.moderation = "PENDING"])
<1>1. x.moderation \in {"PENDING", "APPROVED", "REJECTED"} /\ x.photos \in [{"PENDING", "APPROVED", "REJECTED"} -> 0 .. PhotoCap]
      /\ x = [published |-> x.published, moderation |-> x.moderation, photos |-> x.photos]
  BY DEF LiveRow, Moderations
<1>2. \A b \in BOOLEAN : Shown([x EXCEPT !.published = b])
  BY <1>1 DEF Shown
<1>3. Shown([x EXCEPT !.photos[x.moderation] = @ + 1])
  <2> DEFINE ph == [x.photos EXCEPT ![x.moderation] = x.photos[x.moderation] + 1]
  <2>1. [x EXCEPT !.photos[x.moderation] = @ + 1] = [x EXCEPT !.photos = ph]
    BY DEF LiveRow
  <2>2. \A m \in {"PENDING", "APPROVED", "REJECTED"} : m # x.moderation => ph[m] = x.photos[m]
    BY <1>1
  <2> HIDE DEF ph
  <2>3. /\ [x EXCEPT !.photos = ph].photos = ph
        /\ [x EXCEPT !.photos = ph].moderation = x.moderation
    BY <1>1
  <2> QED  BY <2>1, <2>2, <2>3 DEF Shown
<1>4. Shown(Release(x))
  <2> DEFINE ph == Approve(x.photos)
             m == IF x.moderation = "PENDING" THEN "APPROVED" ELSE x.moderation
  <2>1. Release(x) = [[x EXCEPT !.moderation = m] EXCEPT !.photos = ph]
    BY Zenon DEF Release
  <2>2. ph["PENDING"] = 0 /\ ph["REJECTED"] = x.photos["REJECTED"]
    BY DEF Approve, NoPhotos, Moderations
  <2> HIDE DEF ph
  <2>3. Release(x).photos = ph /\ Release(x).moderation = m
    BY <1>1, <2>1
  <2> QED  BY <2>2, <2>3 DEF Shown
<1>5. x.moderation # "REJECTED" => Shown([x EXCEPT !.moderation = "PENDING"])
  BY <1>1 DEF Shown
<1> QED  BY <1>2, <1>3, <1>4, <1>5

\* What a step must leave of a product's photographs.
Tended(p) ==
    \/ Shown(product[p])' \/ HalfDone(p)'
    \/ p \notin torn /\ (HalfDone(p) => HalfDone(p)') /\ (Shown(product[p]) => Shown(product[p])')

LEMMA TendedKeeps ==
    ASSUME Matching, \A p \in Products \ torn' : Tended(p)
    PROVE  Matching'
  BY DEF Matching, Tended

\* A step of somebody else than an administrator who moderates.
LEMMA HalfKept ==
    ASSUME \A q \in Requests : req'[q] = req[q] \/ ~At(q, "photos"), NEW p
    PROVE  HalfDone(p) => HalfDone(p)'
  BY DEF HalfDone, At

\* Steps that touch no product.
LEMMA Aside ==
    ASSUME Matching, UNCHANGED <<product, torn>>, \A q \in Requests : req'[q] = req[q] \/ ~At(q, "photos")
    PROVE  Matching'
<1>1. \A p \in Products \ torn' : Tended(p)
  BY HalfKept DEF Tended
<1> QED  BY <1>1, TendedKeeps

\* Steps that leave every row as well matched as it was.
LEMMA RowsTended ==
    ASSUME Matching, UNCHANGED torn, \A q \in Requests : req'[q] = req[q] \/ ~At(q, "photos"),
           \A p \in Products \ torn : Shown(product'[p]) \/ (Shown(product[p]) => Shown(product'[p]))
    PROVE  Matching'
<1>1. \A p \in Products \ torn' : Tended(p)
  BY HalfKept DEF Tended
<1> QED  BY <1>1, TendedKeeps

\* What stands aside: the reads of the form, of the selection and of the import,
\* the job's bookkeeping, and what is done to the seller alone.
LEMMA AsideSteps ==
    ASSUME Steady, Matching,
           \/ \E to \in {"SUSPENDED", "BANNED"} : suspendSeller(to)
           \/ \E ok \in SUBSET Products : upload(ok)
           \/ expireBatch
           \/ \E r \in Requests :
                 \/ \E p \in Products : createProduct(r, p) \/ updateProduct(r, p)
                 \/ updateSignals(r) \/ verifySeller(r)
                 \/ \E ticked \in SUBSET Products : publishProducts(r, ticked)
                 \/ commitImport(r) \/ claimImport(r) \/ importSignals(r) \/ importRead(r)
                 \/ importRollback(r) \/ finishImport(r) \/ discardBatch(r)
    PROVE  Matching'
<1>0. Types
  BY DEF Steady
<1>1. CASE \/ \E to \in {"SUSPENDED", "BANNED"} : suspendSeller(to)
           \/ \E ok \in SUBSET Products : upload(ok)
           \/ expireBatch
  <2>1. UNCHANGED <<product, torn, req>>
    BY <1>1 DEF suspendSeller, upload, expireBatch, catalogue, history
  <2> QED  BY <2>1, Aside
<1>2. ASSUME NEW r \in Requests,
             \/ \E p \in Products : createProduct(r, p) \/ updateProduct(r, p)
             \/ verifySeller(r) \/ commitImport(r)
             \/ \E ticked \in SUBSET Products : publishProducts(r, ticked)
      PROVE  Matching'
  <2>1. /\ UNCHANGED <<product, torn>> /\ At(r, "idle")
        /\ \E x : req' = [req EXCEPT ![r] = x]
    BY <1>2 DEF createProduct, updateProduct, verifySeller, commitImport, publishProducts, Begin, catalogue, history
  <2>2. \A q \in Requests : req'[q] = req[q] \/ ~At(q, "photos")
    BY <1>0, <2>1 DEF Types, At
  <2> QED  BY <2>1, <2>2, Aside
<1>3. ASSUME NEW r \in Requests, updateSignals(r) \/ claimImport(r) \/ importSignals(r) \/ importRead(r)
                                 \/ finishImport(r) \/ discardBatch(r)
      PROVE  Matching'
  <2>1. /\ UNCHANGED <<product, torn>> /\ ~At(r, "photos")
        /\ \A q \in Requests : q # r => req'[q] = req[q]
    BY <1>0, <1>3 DEF updateSignals, claimImport, importSignals, importRead, finishImport, discardBatch,
                      Finish, At, Types, catalogue, history
  <2>2. \A q \in Requests : req'[q] = req[q] \/ ~At(q, "photos")
    BY <2>1
  <2> QED  BY <2>1, <2>2, Aside
<1>4. ASSUME NEW r \in Requests, importRollback(r) PROVE Matching'
  <2>1. UNCHANGED <<product, torn>> /\ ~At(r, "photos")
    BY <1>4 DEF importRollback, At, catalogue, history
  <2>2. \E x : req' = [req EXCEPT ![r] = x]
    BY <1>4 DEF importRollback, NextBatch
  <2>3. \A q \in Requests : req'[q] = req[q] \/ ~At(q, "photos")
    BY <1>0, <2>1, <2>2 DEF Types
  <2> QED  BY <2>1, <2>3, Aside
<1> QED  BY <1>1, <1>2, <1>3, <1>4

\* The form writes product and photographs in one transaction.
LEMMA FormTends ==
    ASSUME Steady, Matching, NEW r \in Requests, NEW publish \in BOOLEAN, NEW n \in 0 .. PhotoCap,
           createWrite(r, publish, n) \/ updateWrite(r, publish, n)
    PROVE  Matching'
<1> DEFINE p == req[r].item
           m == IF At(r, "create") THEN Decided(req[r].verified) ELSE Rereviewed(req[r].verified, req[r].saw)
           x == [published |-> publish, moderation |-> m, photos |-> Photos(n, m)]
<1>1. /\ At(r, "create") \/ At(r, "save")
      /\ req' = [req EXCEPT ![r] = Idle] /\ UNCHANGED torn
      /\ product' = product \/ product' = [product EXCEPT ![p] = x]
  BY DEF createWrite, updateWrite, Finish, At
<1>2. Types /\ m \in Moderations
  BY <1>1, RequestKinds, AllowedDecisions DEF Steady, Types, At, Creating, Saving
<1> HIDE DEF m
<1>3. Shown(x)
  BY <1>2, ShownRows
<1> HIDE DEF x
<1>4. \A q \in Requests : req'[q] = req[q] \/ ~At(q, "photos")
  BY <1>1, <1>2 DEF Types, At
<1>5. \A t \in Products : product'[t] = product[t] \/ product'[t] = x
  BY <1>1, <1>2 DEF Types
<1> QED  BY <1>1, <1>3, <1>4, <1>5, RowsTended

LEMMA DirectTends ==
    ASSUME Steady, Matching,
           \/ \E p \in Products : (\E publish \in BOOLEAN : setCatalogStatus(p, publish)) \/ attachPhoto(p)
           \/ \E ps \in SUBSET Products : clearProductPhotos(ps)
    PROVE  Matching'
<1>0. Types /\ UNCHANGED <<req, torn>>
  BY DEF Steady, setCatalogStatus, attachPhoto, clearProductPhotos, history
<1>1. ASSUME NEW t \in Products PROVE Shown(product[t]) => Shown(product'[t])
  <2> SUFFICES ASSUME Shown(product[t]), product'[t] # product[t] PROVE Shown(product'[t])
    OBVIOUS
  <2>1. CASE \E p \in Products, publish \in BOOLEAN : setCatalogStatus(p, publish)
    <3>1. PICK publish \in BOOLEAN : Live(t) /\ product'[t] = [product[t] EXCEPT !.published = publish]
      BY <1>0, <2>1 DEF setCatalogStatus, Types
    <3>2. product[t] \in LiveRow
      BY <1>0, <3>1, RowForms DEF Types, Live
    <3> QED  BY <3>1, <3>2, ShownKept
  <2>2. CASE \E p \in Products : attachPhoto(p)
    <3>1. Live(t) /\ product'[t] = [product[t] EXCEPT !.photos[product[t].moderation] = @ + 1]
      BY <1>0, <2>2 DEF attachPhoto, Types
    <3>2. product[t] \in LiveRow
      BY <1>0, <3>1, RowForms DEF Types, Live
    <3> QED  BY <3>1, <3>2, ShownKept
  <2>3. CASE \E ps \in SUBSET Products : clearProductPhotos(ps)
    <3>1. Live(t) /\ product'[t] = [product[t] EXCEPT !.photos = NoPhotos]
      BY <1>0, <2>3 DEF clearProductPhotos, Types
    <3> QED  BY <1>0, <3>1, ShownRows, RowForms DEF Types, Live
  <2> QED  BY <2>1, <2>2, <2>3
<1> QED  BY <1>0, <1>1, RowsTended

LEMMA PublishTends ==
    ASSUME Steady, Matching, NEW r \in Requests, publishWrite(r) \/ releasePendingContent(r)
    PROVE  Matching'
<1>1. /\ Types /\ UNCHANGED torn /\ ~At(r, "photos") /\ req' = [req EXCEPT ![r] = Idle]
  BY DEF Steady, publishWrite, releasePendingContent, history, Finish, At
<1>2. \A q \in Requests : req'[q] = req[q] \/ ~At(q, "photos")
  BY <1>1 DEF Types
<1>3. ASSUME NEW t \in Products, Shown(product[t]) PROVE Shown(product'[t])
  <2>1. product[t] \in Row
    BY <1>1 DEF Types
  <2>2. CASE publishWrite(r)
    <3>1. product'[t] = product[t] \/ (t \in req[r].items /\ product'[t] = [product[t] EXCEPT !.published = TRUE])
      BY <2>2 DEF publishWrite
    <3>2. t \in req[r].items => product[t] \in LiveRow
      BY <2>1, <2>2, RowForms DEF publishWrite, Steady, Present, Holds, Live
    <3> QED  BY <1>3, <3>1, <3>2, ShownKept
  <2>3. CASE releasePendingContent(r)
    <3>1. product'[t] = Release(product[t])
      BY <2>3 DEF releasePendingContent
    <3>2. product[t] = NoProduct => Release(product[t]) = NoProduct
      BY <2>1, Released
    <3> QED  BY <1>3, <2>1, <3>1, <3>2, ShownKept, ShownRows, RowForms
  <2> QED  BY <2>2, <2>3
<1> QED  BY <1>1, <1>2, <1>3, RowsTended

\* The administrator's two statements: between them the product is half done.
LEMMA ModerationTends ==
    ASSUME Steady, Matching, NEW r \in Requests,
           \/ \E p \in Products, to \in {"APPROVED", "REJECTED"} : moderateProduct(r, p, to)
           \/ moderatePhotos(r)
    PROVE  Matching'
<1>0. Types /\ product \in [Products -> Row] /\ req \in [Requests -> Request]
  BY DEF Steady, Types
<1>1. ASSUME NEW p \in Products, NEW to \in {"APPROVED", "REJECTED"}, moderateProduct(r, p, to)
      PROVE  Matching'
  <2> DEFINE x == [next |-> "photos", item |-> p, to |-> to, gone |-> FALSE]
  <2>1. /\ UNCHANGED torn /\ At(r, "idle") /\ req' = [req EXCEPT ![r] = x]
        /\ \A t \in Products : t # p => product'[t] = product[t]
    BY <1>0, <1>1 DEF moderateProduct, Begin, history
  <2>2. \A q \in Requests : req'[q] = req[q] \/ ~At(q, "photos")
    BY <1>0, <2>1 DEF At
  <2>3. HalfDone(p)'
    BY <1>0, <2>1 DEF HalfDone, At
  <2>4. \A t \in Products \ torn' : Tended(t)
    BY <2>1, <2>2, <2>3, HalfKept DEF Tended
  <2> QED  BY <2>4, TendedKeeps
<1>2. CASE moderatePhotos(r)
  <2>0. At(r, "photos") /\ req' = [req EXCEPT ![r] = Idle] /\ req[r].item \in Products
    BY <1>0, <1>2, RequestKinds DEF moderatePhotos, Finish, At, Moderating
  <2>1. PICK p \in Products : /\ At(r, "photos") /\ req' = [req EXCEPT ![r] = Idle]
                               /\ req[r].item = p
    BY <2>0
  <2>2. \A t \in Products : t # p => (HalfDone(t) => HalfDone(t)')
    BY <1>0, <2>1 DEF HalfDone, At
  <2>3. CASE req[r].gone \/ ~Live(p)
    <3>1. UNCHANGED <<product, torn>>
      BY <1>2, <2>1, <2>3 DEF moderatePhotos
    <3>2. HalfDone(p) => HalfDone(p)' \/ Shown(product[p])
      <4>1. CASE req[r].gone
        <5> SUFFICES ASSUME NEW q \in Requests, At(q, "photos"), req[q].item = p, ~req[q].gone
                     PROVE  HalfDone(p)'
          BY DEF HalfDone
        <5>1. req'[q] = req[q]
          BY <1>0, <2>1, <4>1
        <5> QED  BY <5>1 DEF HalfDone, At
      <4>2. CASE ~Live(p)
        BY <4>2, ShownRows DEF Live
      <4> QED  BY <2>3, <4>1, <4>2
    <3>3. \A t \in Products \ torn' :
              Shown(product'[t]) \/ (t \notin torn /\ (HalfDone(t) => HalfDone(t)') /\ product'[t] = product[t])
      BY <2>2, <3>1, <3>2
    <3>4. \A t \in Products \ torn' : Tended(t)
      BY <3>3 DEF Tended
    <3> QED  BY <3>4, TendedKeeps
  <2>4. CASE ~req[r].gone /\ Live(p)
    <3>1. /\ product' = [product EXCEPT ![p].photos = Photos(PhotoCount(@), req[r].to)]
          /\ torn' = IF product[p].moderation = req[r].to THEN torn \ {p} ELSE torn \cup {p}
      BY <1>2, <2>1, <2>4 DEF moderatePhotos
    <3>2. product[p] \in LiveRow /\ \A t \in Products : t # p => product'[t] = product[t]
      BY <1>0, <2>4, <3>1, RowForms DEF Live
    <3>3. p \notin torn' => Shown(product'[p])
      <4> SUFFICES ASSUME product[p].moderation = req[r].to
                   PROVE  Shown(product'[p])
        BY <3>1
      <4>1. product'[p] = [product[p] EXCEPT !.photos = Photos(PhotoCount(product[p].photos), product[p].moderation)]
        BY <1>0, <2>1, <3>1, Zenon
      <4>2. PhotoCount(product[p].photos) \in 0 .. PhotoCap
        BY <3>2, PhotoForms, CatalogueAssumption DEF LiveRow
      <4> QED  BY <3>2, <4>1, <4>2, ShownRows
    <3>4. \A t \in Products \ torn' : t # p => t \notin torn
      BY <3>1
    <3>5. \A t \in Products \ torn' : Tended(t)
      BY <2>2, <3>2, <3>3, <3>4 DEF Tended
    <3> QED  BY <3>5, TendedKeeps
  <2> QED  BY <2>3, <2>4
<1> QED  BY <1>1, <1>2

\* A deleted row takes its history with it; a death in between is one.
LEMMA LossTends ==
    ASSUME Steady, Matching,
           (\E p \in Products : deleteCatalogItem(p)) \/ \E r \in Requests : processDies(r)
    PROVE  Matching'
<1>0. Types /\ product \in [Products -> Row] /\ req \in [Requests -> Request]
  BY DEF Steady, Types
<1>1. ASSUME NEW p \in Products, Forget(p) PROVE Matching'
  <2>1. /\ product'[p] = NoProduct /\ torn' = torn \ {p}
        /\ \A t \in Products : t # p => product'[t] = product[t]
    BY <1>0, <1>1 DEF Forget
  <2>2. ASSUME NEW t \in Products, t # p, HalfDone(t) PROVE HalfDone(t)'
    <3>1. PICK q \in Requests : At(q, "photos") /\ req[q].item = t /\ ~req[q].gone
      BY <2>2 DEF HalfDone
    <3>2. req'[q] = req[q]
      BY <1>1, <2>2, <3>1 DEF Forget, At
    <3> QED  BY <3>1, <3>2 DEF HalfDone, At
  <2>3. \A t \in Products \ torn' : Tended(t)
    BY <2>1, <2>2, ShownRows DEF Tended
  <2> QED  BY <2>3, TendedKeeps
<1>2. ASSUME NEW r \in Requests, processDies(r) PROVE Matching'
  <2>1. /\ UNCHANGED product /\ req' = [req EXCEPT ![r] = Idle]
        /\ torn' = IF At(r, "photos") THEN torn \cup {req[r].item} ELSE torn
    BY <1>2 DEF processDies, Finish, catalogue
  <2>2. \A t \in Products \ torn' : t \notin torn /\ (HalfDone(t) => HalfDone(t)')
    BY <1>0, <2>1 DEF HalfDone, At
  <2>3. \A t \in Products \ torn' : Tended(t)
    BY <2>1, <2>2 DEF Tended
  <2> QED  BY <2>3, TendedKeeps
<1> QED  BY <1>1, <1>2 DEF deleteCatalogItem

\* The import takes the approval back and leaves the photographs; where it read an
\* approval that an administrator had revoked by then, the two have crossed.
LEMMA ImportTends ==
    ASSUME Steady, Matching, NEW r \in Requests, importWrite(r)
    PROVE  Matching'
<1> DEFINE batch == req[r].batch
<1>1. /\ At(r, "write") /\ ~Refused(batch)
      /\ product' = [p \in Products |-> IF p \in batch THEN Imported(r, p) ELSE product[p]]
      /\ torn' = torn \cup {p \in batch : product'[p] # product[p]
                                          /\ req[r].saw[p] \notin {"none", product[p].moderation}}
      /\ \E x : req' = [req EXCEPT ![r] = x]
  BY DEF importWrite, NextBatch
<1>2. Types /\ product \in [Products -> Row] /\ req[r].verified \in BOOLEAN
  BY <1>1, WorkerForm, CoreSteps DEF Steady, Types, At
<1>3. \A q \in Requests : req'[q] = req[q] \/ ~At(q, "photos")
  BY <1>1, <1>2 DEF Types, At
<1>4. ASSUME NEW p \in Products \ torn' PROVE Tended(p)
  <2>0. p \notin torn /\ (HalfDone(p) => HalfDone(p)')
    BY <1>1, <1>3, HalfKept
  <2>1. CASE product'[p] = product[p]
    BY <2>0, <2>1 DEF Tended
  <2>2. CASE product'[p] # product[p] /\ rows[p] = "new"
    <3>1. product'[p] = [NoProduct EXCEPT !.moderation = Decided(req[r].verified)]
      BY <1>1, <2>2 DEF Imported
    <3> QED  BY <1>2, <3>1, AllowedDecisions, ShownRows DEF Tended
  <2>3. CASE product'[p] # product[p] /\ rows[p] # "new"
    <3>1. /\ p \in batch /\ rows[p] = "update" /\ req[r].saw[p] = "APPROVED"
          /\ product'[p] = [product[p] EXCEPT !.moderation = "PENDING"]
      BY <1>1, <2>3 DEF Imported
    <3>2. product[p].moderation = "APPROVED"
      BY <1>1, <2>3, <3>1
    <3>3. product[p] \in LiveRow
      BY <1>2, <3>2, RowForms
    <3>4. Shown(product[p]) => Shown(product'[p])
      BY <3>1, <3>2, <3>3, ShownKept
    <3> QED  BY <2>0, <3>4 DEF Tended
  <2> QED  BY <2>1, <2>2, <2>3
<1> QED  BY <1>4, TendedKeeps

\* An approved product hides none of its photographs, unless a moderation of it
\* crossed another one, a save or an import, or its process died.
THEOREM PhotosAreShown == Spec => []ApprovedShowsItsPhotos
<1>1. Init => Matching
  BY ShownRows DEF Init, Matching
<1>2. ASSUME Steady, Matching, [Next]_vars PROVE Matching'
  <2>1. CASE Next
    BY <1>2, <2>1, AsideSteps, FormTends, DirectTends, PublishTends, ModerationTends, LossTends, ImportTends DEF Next
  <2>2. CASE UNCHANGED vars
    BY <1>2, <2>2, Aside DEF vars, catalogue, history
  <2> QED  BY <1>2, <2>1, <2>2
<1>3. Steady /\ Matching => ApprovedShowsItsPhotos
  <2> SUFFICES ASSUME Steady, Matching, NEW p \in Products \ torn, product[p].moderation = "APPROVED",
                      \A r \in Requests : ~(At(r, "photos") /\ req[r].item = p)
               PROVE  product[p].photos = Photos(PhotoCount(product[p].photos), "APPROVED")
    BY DEF ApprovedShowsItsPhotos
  <2> DEFINE ph == product[p].photos
  <2>1. ph["PENDING"] = 0 /\ ph["REJECTED"] = 0
    BY DEF Matching, HalfDone, Shown
  <2>2. ph \in [{"PENDING", "APPROVED", "REJECTED"} -> 0 .. PhotoCap]
    BY RowForms DEF Steady, Types, LiveRow
  <2>3. PhotoCount(ph) = ph["APPROVED"] /\ PhotoCap \in Nat
    BY <2>1, <2>2, CatalogueAssumption DEF PhotoCount
  <2> HIDE DEF ph
  <2>4. Photos(ph["APPROVED"], "APPROVED") = ph
    BY <2>1, <2>2 DEF Photos, NoPhotos, Moderations
  <2> QED  BY <2>3, <2>4 DEF ph
<1> QED  BY <1>1, <1>2, <1>3, Always, PTL DEF Spec

-----------------------------------------------------------------------------
(* What the other promises come from.                                       *)

\* A deleted row gives its code back; only an edit that read the row before it was
\* deleted takes the code again.
THEOREM CodesComeBack == Spec => DeletedFreesItsCode
<1>1. ASSUME Next, ~\E r \in Requests, publish \in BOOLEAN, n \in 0 .. PhotoCap : updateWrite(r, publish, n)
      PROVE  ghost' = ghost
  BY <1>1 DEF Next, setCatalogStatus, deleteCatalogItem, attachPhoto, clearProductPhotos, suspendSeller, upload,
     expireBatch, createProduct, updateProduct, updateSignals, createWrite, publishProducts, publishWrite,
     verifySeller, releasePendingContent, moderateProduct, moderatePhotos, commitImport, claimImport, importSignals,
     importRead, importWrite, importRollback, finishImport, discardBatch, processDies, catalogue
<1>2. ASSUME Steady, [Next]_vars, NEW p \in ghost' \ ghost
      PROVE  \E r \in Requests : At(r, "save") /\ req[r].item = p /\ req[r].gone /\ req'[r] = Idle
  <2>0. p \in ghost' /\ p \notin ghost
    BY <1>2
  <2>1. ghost' # ghost /\ Next
    BY <1>2 DEF vars, catalogue
  <2>2. PICK r \in Requests, publish \in BOOLEAN, n \in 0 .. PhotoCap : updateWrite(r, publish, n)
    BY <1>1, <2>1
  <2>3. /\ At(r, "save") /\ req' = [req EXCEPT ![r] = Idle]
        /\ ghost' = ghost \/ (req[r].gone /\ ghost' \subseteq ghost \cup {req[r].item})
    <3>1. CASE req[r].gone
      BY <2>2, <3>1 DEF updateWrite, Finish
    <3>2. CASE ~req[r].gone
      BY <2>2, <3>2 DEF updateWrite, Finish
    <3> QED  BY <3>1, <3>2
  <2>4. req[r].gone /\ req[r].item = p
    BY <2>0, <2>1, <2>3
  <2> QED  BY <1>2, <2>3, <2>4 DEF Steady, Types
<1>3. Steady /\ [Next]_vars =>
          [\A p \in ghost' \ ghost :
              \E r \in Requests : At(r, "save") /\ req[r].item = p /\ req[r].gone /\ req'[r] = Idle]_vars
  BY <1>2
<1> QED  BY <1>3, Always, PTL DEF Spec, DeletedFreesItsCode

\* A step that neither claims the job nor ends it, nor takes a request away from it.
LEMMA JobGoesOn ==
    ASSUME RunningIsWorkedOn, jobDied => jobDied', job' = job,
           \A r \in Requests : req[r].next \in Core => req'[r].next \in Core \/ jobDied'
    PROVE  RunningIsWorkedOn'
  BY CoreSteps DEF RunningIsWorkedOn

\* A failing row costs that row: a job that is RUNNING has its request, unless a
\* process died in it.
THEOREM RunningIsAttended == Spec => []RunningIsWorkedOn
<1>1. Init => RunningIsWorkedOn
  BY DEF Init, RunningIsWorkedOn
<1>2. ASSUME Steady, JobRight, RunningIsWorkedOn, [Next]_vars PROVE RunningIsWorkedOn'
  <2>0. Types
    BY <1>2 DEF Steady
  <2>1. ASSUME job' = job, jobDied' = jobDied, \A r \in Requests : req[r].next \in Core => req'[r].next \in Core
        PROVE  RunningIsWorkedOn'
    BY <1>2, <2>1, JobGoesOn
  <2>2. ASSUME NEW to \in {"SUSPENDED", "BANNED"}, suspendSeller(to) PROVE RunningIsWorkedOn'
    BY <2>1, <2>2 DEF suspendSeller, import
  <2>3. CASE \/ \E p \in Products : (\E publish \in BOOLEAN : setCatalogStatus(p, publish)) \/ attachPhoto(p)
             \/ \E ps \in SUBSET Products : clearProductPhotos(ps)
    <3>1. UNCHANGED <<import, req>>
      BY <2>3 DEF setCatalogStatus, attachPhoto, clearProductPhotos
    <3> QED  BY <2>1, <3>1 DEF import
  <2>4. ASSUME NEW p \in Products, deleteCatalogItem(p) PROVE RunningIsWorkedOn'
    <3>1. job' = job /\ jobDied' = jobDied
      BY <2>4 DEF deleteCatalogItem
    <3>2. \A r \in Requests : req[r].next \in Core => req'[r].next \in Core
      BY <1>2, <2>4, Forgotten DEF deleteCatalogItem
    <3> QED  BY <2>1, <3>1, <3>2
  <2>5. ASSUME NEW ok \in SUBSET Products, upload(ok) PROVE RunningIsWorkedOn'
    BY <2>5 DEF upload, RunningIsWorkedOn
  <2>6. CASE expireBatch
    BY <2>1, <2>6 DEF expireBatch
  <2>7. ASSUME NEW r \in Requests,
               \/ \E p \in Products : createProduct(r, p) \/ updateProduct(r, p)
               \/ \E ticked \in SUBSET Products : publishProducts(r, ticked)
               \/ verifySeller(r) \/ commitImport(r)
               \/ \E p \in Products, to \in {"APPROVED", "REJECTED"} : moderateProduct(r, p, to)
        PROVE  RunningIsWorkedOn'
    <3>1. UNCHANGED import /\ At(r, "idle") /\ \E x : req' = [req EXCEPT ![r] = x]
      BY <2>7 DEF createProduct, updateProduct, publishProducts, verifySeller, commitImport, moderateProduct, Begin
    <3>2. \A q \in Requests : req[q].next \in Core => req'[q].next \in Core
      BY <2>0, <3>1, CoreSteps DEF Types, At
    <3> QED  BY <2>1, <3>1, <3>2 DEF import
  <2>8. ASSUME NEW r \in Requests,
               \/ updateSignals(r) \/ publishWrite(r) \/ releasePendingContent(r) \/ moderatePhotos(r)
               \/ \E publish \in BOOLEAN, n \in 0 .. PhotoCap : createWrite(r, publish, n) \/ updateWrite(r, publish, n)
        PROVE  RunningIsWorkedOn'
    <3>1. UNCHANGED import /\ req[r].next \notin Core /\ \E x : req' = [req EXCEPT ![r] = x]
      BY <2>8, CoreSteps DEF updateSignals, publishWrite, releasePendingContent, moderatePhotos, createWrite, updateWrite,
                             Finish, At
    <3>2. \A q \in Requests : req[q].next \in Core => req'[q].next \in Core
      BY <2>0, <3>1, CoreSteps DEF Types
    <3> QED  BY <2>1, <3>1, <3>2 DEF import
  <2>9. ASSUME NEW r \in Requests, claimImport(r) PROVE RunningIsWorkedOn'
    <3>1. CASE job.status = "PENDING"
      <4>1. req' = [req EXCEPT ![r].next = "signals"]
        BY <2>9, <3>1 DEF claimImport
      <4>2. req'[r].next = "signals"
        BY <2>0, <2>9, <4>1, WorkerForm, CoreSteps DEF claimImport, At, Types, ImportRequest
      <4> QED  BY <4>2, CoreSteps DEF RunningIsWorkedOn
    <3>2. CASE job.status # "PENDING"
      <4>1. job' = job /\ jobDied' = jobDied /\ req' = [req EXCEPT ![r] = Idle] /\ At(r, "claim")
        BY <2>9, <3>2 DEF claimImport, Finish
      <4>2. \A q \in Requests : req[q].next \in Core => req'[q].next \in Core
        BY <2>0, <4>1, CoreSteps DEF Types, At
      <4> QED  BY <2>1, <4>1, <4>2
    <3> QED  BY <3>1, <3>2
  <2>10. ASSUME NEW r \in Requests, importSignals(r) \/ importRead(r) PROVE RunningIsWorkedOn'
    <3>1. job' = job /\ jobDied' = jobDied /\ req[r] \in ImportRequest
      BY <2>0, <2>10, WorkerForm, CoreSteps DEF importSignals, importRead, import, At
    <3>2. CASE importSignals(r)
      <4>1. PICK next \in Core : req' = [req EXCEPT ![r].next = next, ![r].verified = (seller = "VERIFIED"),
                                                    ![r].batch = Importable]
        <5>1. (IF Importable = {} THEN "finish" ELSE "read") \in Core
          BY CoreSteps
        <5> QED  BY <3>2, <5>1, Zenon DEF importSignals
      <4>2. \A q \in Requests : q # r => req'[q] = req[q]
        BY <2>0, <4>1 DEF Types
      <4>3. req'[r].next = next
        BY <2>0, <3>1, <4>1 DEF Types, ImportRequest
      <4> QED  BY <2>1, <3>1, <4>2, <4>3
    <3>3. CASE importRead(r)
      <4>1. \A q \in Requests : q # r => req'[q] = req[q]
        BY <2>0, <3>3 DEF importRead, Types
      <4>2. req'[r].next = "write"
        BY <2>0, <3>1, <3>3 DEF importRead, Types, ImportRequest
      <4> QED  BY <2>1, <3>1, <4>1, <4>2, CoreSteps
    <3> QED  BY <2>10, <3>2, <3>3
  <2>11. ASSUME NEW r \in Requests, importWrite(r) \/ importRollback(r) PROVE RunningIsWorkedOn'
    <3>1. /\ At(r, "write") /\ job' = job /\ jobDied' = jobDied
          /\ \E todo, created, failed \in SUBSET Products : NextBatch(r, todo, created, failed)
      <4>1. req[r] \in ImportRequest /\ At(r, "write")
        BY <2>0, <2>11, WorkerForm, CoreSteps DEF importWrite, importRollback, At
      <4>2. /\ req[r].todo \in SUBSET Products /\ req[r].created \in SUBSET Products /\ req[r].failed \in SUBSET Products
            /\ req[r].batch \in SUBSET Products /\ {} \in SUBSET Products
            /\ req[r].created \cup {p \in req[r].batch : rows[p] # "gone"} \in SUBSET Products
            /\ req[r].failed \cup req[r].batch \in SUBSET Products
        BY <4>1 DEF ImportRequest
      <4>3. CASE importWrite(r)
        BY <4>2, <4>3 DEF importWrite
      <4>4. CASE importRollback(r)
        <5>1. CASE req[r].alone
          BY <4>2, <4>4, <5>1 DEF importRollback, import
        <5>2. CASE ~req[r].alone
          BY <4>2, <4>4, <5>2 DEF importRollback, import
        <5> QED  BY <5>1, <5>2
      <4> QED  BY <2>11, <4>1, <4>3, <4>4 DEF importWrite, importRollback, import
    <3>2. PICK todo, created, failed \in SUBSET Products : NextBatch(r, todo, created, failed)
      BY <3>1
    <3>3. PICK x \in ImportRequest : Goes(r, x, todo, created, failed)
      BY <2>0, <3>1, <3>2, NextForm, CoreSteps DEF At
    <3>4. \A q \in Requests : req[q].next \in Core => req'[q].next \in Core
      BY <3>3, CoreSteps DEF Goes, Turns
    <3> QED  BY <2>1, <3>1, <3>4
  <2>12. ASSUME NEW r \in Requests, finishImport(r) PROVE RunningIsWorkedOn'
    BY <2>12 DEF finishImport, RunningIsWorkedOn
  <2>13. ASSUME NEW r \in Requests, discardBatch(r) PROVE RunningIsWorkedOn'
    <3>1. job' = job /\ jobDied' = jobDied /\ req' = [req EXCEPT ![r] = Idle] /\ At(r, "discard")
      BY <2>13 DEF discardBatch, Finish
    <3>2. \A q \in Requests : req[q].next \in Core => req'[q].next \in Core
      BY <2>0, <3>1, CoreSteps DEF Types, At
    <3> QED  BY <2>1, <3>1, <3>2
  <2>14. ASSUME NEW r \in Requests, processDies(r) PROVE RunningIsWorkedOn'
    <3>1. job' = job /\ req' = [req EXCEPT ![r] = Idle] /\ jobDied' = (jobDied \/ req[r].next \in Importing)
      BY <2>14 DEF processDies, Finish
    <3>2. \A q \in Requests : req[q].next \in Core => req'[q].next \in Core \/ jobDied'
      BY <2>0, <3>1, CoreSteps DEF Types
    <3> QED  BY <1>2, <3>1, <3>2, JobGoesOn
  <2>15. CASE UNCHANGED vars
    BY <2>1, <2>15 DEF vars, import
  <2> QED
    BY <1>2, <2>2, <2>3, <2>4, <2>5, <2>6, <2>7, <2>8, <2>9, <2>10, <2>11, <2>12, <2>13, <2>14, <2>15 DEF Next
<1> QED  BY <1>1, <1>2, Always, PTL DEF Spec

\* A request that imports works on rows of the file.
Ticked == \A r \in Requests : req[r].next \in {"read", "write"} => req[r].batch \cup req[r].todo \subseteq Importable

LEMMA TickedStays ==
    ASSUME Steady, Ticked, \A p \in Importable : rows'[p] \in {"new", "update", "gone"},
           \A q \in Requests : req'[q] = req[q] \/ req'[q].next \notin {"read", "write"}
    PROVE  Ticked'
<1>1. Importable \subseteq Importable'
  BY DEF Importable
<1>2. ASSUME NEW q \in Requests, req'[q].next \in {"read", "write"}
      PROVE  req'[q].batch \cup req'[q].todo \subseteq Importable'
  <2>1. req'[q] = req[q]
    BY <1>2
  <2>2. req[q].batch \cup req[q].todo \subseteq Importable
    BY <1>2, <2>1 DEF Ticked
  <2> QED  BY <1>1, <2>1, <2>2
<1> QED  BY <1>2 DEF Ticked

LEMMA TickedAlways == Spec => []Ticked
<1>1. Init => Ticked
  BY RequestKinds DEF Init, Ticked
<1>2. ASSUME Steady, JobRight, Ticked, [Next]_vars PROVE Ticked'
  <2>0. Types
    BY <1>2 DEF Steady
  <2>1. ASSUME UNCHANGED rows, \A q \in Requests : req'[q] = req[q] \/ req'[q].next \notin {"read", "write"}
        PROVE  Ticked'
    BY <1>2, <2>1, TickedStays DEF Importable
  <2>3. CASE \/ \E to \in {"SUSPENDED", "BANNED"} : suspendSeller(to)
             \/ \E p \in Products : (\E publish \in BOOLEAN : setCatalogStatus(p, publish)) \/ attachPhoto(p)
             \/ \E ps \in SUBSET Products : clearProductPhotos(ps)
             \/ expireBatch
             \/ UNCHANGED vars
    <3>1. UNCHANGED <<rows, req>>
      BY <2>3 DEF suspendSeller, setCatalogStatus, attachPhoto, clearProductPhotos, expireBatch, import, vars
    <3> QED  BY <2>1, <3>1
  <2>4. ASSUME NEW p \in Products, deleteCatalogItem(p) PROVE Ticked'
    <3>1. \A q \in Requests : req'[q] = req[q] \/ req'[q].next \notin {"read", "write"}
      BY <1>2, <2>4, Forgotten, CoreSteps DEF deleteCatalogItem
    <3>2. \A t \in Importable : rows'[t] \in {"new", "update", "gone"}
      BY <2>4 DEF deleteCatalogItem, Forget, Importable
    <3> QED  BY <1>2, <3>1, <3>2, TickedStays
  <2>5. ASSUME NEW ok \in SUBSET Products, upload(ok) PROVE Ticked'
    BY <2>5, CoreSteps DEF upload, Ticked
  <2>6. ASSUME NEW r \in Requests,
               \/ \E p \in Products : createProduct(r, p) \/ updateProduct(r, p)
               \/ \E ticked \in SUBSET Products : publishProducts(r, ticked)
               \/ verifySeller(r) \/ commitImport(r)
               \/ \E p \in Products, to \in {"APPROVED", "REJECTED"} : moderateProduct(r, p, to)
        PROVE  Ticked'
    <3>1. UNCHANGED rows /\ \E x : x.next \notin {"read", "write"} /\ req' = [req EXCEPT ![r] = x]
      BY <2>6 DEF createProduct, updateProduct, publishProducts, verifySeller, commitImport, moderateProduct, Begin,
                  Claim, import
    <3>2. \A q \in Requests : req'[q] = req[q] \/ req'[q].next \notin {"read", "write"}
      BY <2>0, <3>1 DEF Types
    <3> QED  BY <2>1, <3>1, <3>2
  <2>7. ASSUME NEW r \in Requests,
               \/ updateSignals(r) \/ publishWrite(r) \/ releasePendingContent(r) \/ moderatePhotos(r)
               \/ \E publish \in BOOLEAN, n \in 0 .. PhotoCap : createWrite(r, publish, n) \/ updateWrite(r, publish, n)
               \/ finishImport(r) \/ discardBatch(r) \/ processDies(r)
        PROVE  Ticked'
    <3>1. UNCHANGED rows /\ \E x : x.next \notin {"read", "write"} /\ req' = [req EXCEPT ![r] = x]
      <4>1. CASE finishImport(r)
        <5>1. [Claim EXCEPT !.next = "discard"].next = "discard"
          BY DEF Claim
        <5> QED  BY <4>1, <5>1 DEF finishImport
      <4>2. CASE updateSignals(r)
        <5> DEFINE x == [next |-> "save", item |-> req[r].item, saw |-> req[r].saw,
                         verified |-> seller = "VERIFIED", gone |-> req[r].gone]
        <5>1. x.next = "save"
          OBVIOUS
        <5>2. UNCHANGED rows /\ req' = [req EXCEPT ![r] = x]
          BY <4>2 DEF updateSignals, import
        <5> HIDE DEF x
        <5> QED  BY <5>1, <5>2
      <4>3. CASE \/ publishWrite(r) \/ releasePendingContent(r) \/ moderatePhotos(r)
                 \/ \E publish \in BOOLEAN, n \in 0 .. PhotoCap :
                       createWrite(r, publish, n) \/ updateWrite(r, publish, n)
                 \/ discardBatch(r) \/ processDies(r)
        <5>1. UNCHANGED rows /\ req' = [req EXCEPT ![r] = Idle]
          BY <4>3 DEF publishWrite, releasePendingContent, moderatePhotos, createWrite, updateWrite, discardBatch,
                      processDies, import, Finish
        <5> QED  BY <5>1, RequestKinds
      <4> QED  BY <2>7, <4>1, <4>2, <4>3
    <3>2. \A q \in Requests : req'[q] = req[q] \/ req'[q].next \notin {"read", "write"}
      BY <2>0, <3>1 DEF Types
    <3> QED  BY <2>1, <3>1, <3>2
  <2>8. ASSUME NEW r \in Requests, claimImport(r) PROVE Ticked'
    <3>1. req[r] \in ImportRequest /\ UNCHANGED rows
      BY <2>0, <2>8, WorkerForm, CoreSteps DEF claimImport, At
    <3>2. \E x : x.next \notin {"read", "write"} /\ req' = [req EXCEPT ![r] = x]
      <4>1. CASE job.status = "PENDING"
        <5>1. req' = [req EXCEPT ![r] = [req[r] EXCEPT !.next = "signals"]]
          BY <2>8, <4>1 DEF claimImport
        <5>2. [req[r] EXCEPT !.next = "signals"].next = "signals"
          BY <3>1 DEF ImportRequest
        <5> QED  BY <5>1, <5>2
      <4>2. CASE job.status # "PENDING"
        BY <2>8, <4>2, RequestKinds DEF claimImport, Finish
      <4> QED  BY <4>1, <4>2
    <3>3. \A q \in Requests : req'[q] = req[q] \/ req'[q].next \notin {"read", "write"}
      BY <2>0, <3>2 DEF Types
    <3> QED  BY <2>1, <3>1, <3>3
  <2>10. ASSUME NEW r \in Requests, importSignals(r) PROVE Ticked'
    <3>1. req[r] = [Claim EXCEPT !.next = "signals"] /\ UNCHANGED rows
      BY <1>2, <2>10, CoreSteps DEF importSignals, import, JobRight, OneJob, Uploaded, At
    <3> DEFINE next == IF Importable = {} THEN "finish" ELSE "read"
               v == seller = "VERIFIED"
               x == [[[req[r] EXCEPT !.next = next] EXCEPT !.verified = v] EXCEPT !.batch = Importable]
    <3>2. req' = [req EXCEPT ![r] = x]
      BY <2>10, Zenon DEF importSignals
    <3> HIDE DEF next, v
    <3>3. x.batch = Importable /\ x.todo = {}
      BY <3>1 DEF Claim
    <3> HIDE DEF x
    <3>4. req'[r] = x /\ \A q \in Requests : q # r => req'[q] = req[q]
      BY <2>0, <3>2 DEF Types
    <3> QED  BY <1>2, <3>1, <3>3, <3>4 DEF Ticked, Importable
  <2>11. ASSUME NEW r \in Requests, importRead(r) PROVE Ticked'
    <3>1. req[r] \in ImportRequest /\ UNCHANGED rows /\ At(r, "read")
      BY <2>0, <2>11, WorkerForm, CoreSteps DEF importRead, import, At
    <3>2. req[r].batch \cup req[r].todo \subseteq Importable
      BY <1>2, <3>1 DEF Ticked, At
    <3>3. req'[r].batch = req[r].batch /\ req'[r].todo = req[r].todo /\ \A q \in Requests : q # r => req'[q] = req[q]
      BY <2>0, <2>11, <3>1 DEF importRead, Types, ImportRequest
    <3> QED  BY <1>2, <3>1, <3>2, <3>3 DEF Ticked, Importable
  <2>12. ASSUME NEW r \in Requests, importWrite(r) \/ importRollback(r) PROVE Ticked'
    <3>1. req[r] \in ImportRequest /\ UNCHANGED rows /\ At(r, "write") /\ req[r].next \in Importing
      BY <2>0, <2>12, WorkerForm, CoreSteps DEF importWrite, importRollback, import, At
    <3>2. req[r].batch \cup req[r].todo \subseteq Importable
      BY <1>2, <3>1 DEF Ticked, At
    <3>3. \E todo \in SUBSET Importable, created, failed \in SUBSET Products : NextBatch(r, todo, created, failed)
      <4>1. /\ req[r].todo \in SUBSET Importable /\ req[r].created \in SUBSET Products
            /\ req[r].failed \in SUBSET Products /\ req[r].batch \in SUBSET Importable /\ {} \in SUBSET Products
            /\ req[r].created \cup {p \in req[r].batch : rows[p] # "gone"} \in SUBSET Products
            /\ req[r].failed \cup req[r].batch \in SUBSET Products
        BY <3>1, <3>2 DEF ImportRequest
      <4>2. CASE importWrite(r)
        BY <4>1, <4>2 DEF importWrite
      <4>3. CASE importRollback(r) /\ req[r].alone
        BY <4>1, <4>3 DEF importRollback
      <4>4. CASE importRollback(r) /\ ~req[r].alone
        BY <4>1, <4>4 DEF importRollback
      <4> QED  BY <2>12, <4>2, <4>3, <4>4
    <3>4. PICK todo \in SUBSET Importable, created, failed \in SUBSET Products : NextBatch(r, todo, created, failed)
      BY <3>3
    <3>5. todo \in SUBSET Products
      BY DEF Importable
    <3>6. PICK x \in ImportRequest : Goes(r, x, todo, created, failed)
      BY <2>0, <3>1, <3>4, <3>5, NextForm
    <3>7. Turns(r, x) /\ (x.next \in {"read", "write"} => x.batch \cup x.todo \subseteq Importable)
      BY <3>6 DEF Goes
    <3> QED  BY <1>2, <3>1, <3>7 DEF Ticked, Turns, Importable
  <2> QED
    BY <1>2, <2>3, <2>4, <2>5, <2>6, <2>7, <2>8, <2>10, <2>11, <2>12 DEF Next
<1> QED  BY <1>1, <1>2, Always, PTL DEF Spec

\* The steps that take a request from "save" to the end, and spend nothing.
LEMMA SaveEnds ==
    ASSUME Steady, JobRight, Next, NEW r \in Requests, At(r, "save"), req'[r] = Idle, used' = used
    PROVE  \E publish \in BOOLEAN, n \in 0 .. PhotoCap : updateWrite(r, publish, n)
<1>0. /\ Types /\ req[r] # Idle /\ req'[r] # req[r]
      /\ \A b \in DOMAIN Bounds : used[b] \in Nat
  BY RequestKinds DEF Steady, Types, Spent, At
<1>1. ~\E b \in {"forms", "admin", "uploads", "rare"} : Spend(b)
  <2> SUFFICES ASSUME NEW b \in DOMAIN Bounds, Spend(b) PROVE FALSE
    BY Bounded
  <2>1. used' = [used EXCEPT ![b] = used[b] + 1] /\ b \in DOMAIN used /\ used[b] \in Nat
    BY <1>0 DEF Spend, Types, Spent
  <2> QED  BY <2>1
<1>2. ASSUME NEW q \in Requests, NEW x, q # r, req' = [req EXCEPT ![q] = x] PROVE FALSE
  BY <1>0, <1>2 DEF Types
<1>3. ASSUME NEW q \in Requests,
             \/ updateSignals(q) \/ publishWrite(q) \/ releasePendingContent(q) \/ moderatePhotos(q)
             \/ \E publish \in BOOLEAN, n \in 0 .. PhotoCap : createWrite(q, publish, n) \/ updateWrite(q, publish, n)
             \/ claimImport(q) \/ importSignals(q) \/ importRead(q) \/ importWrite(q) \/ importRollback(q)
             \/ finishImport(q) \/ discardBatch(q)
      PROVE  q = r
  <2> SUFFICES ASSUME q # r PROVE FALSE
    OBVIOUS
  <2>1. req'[r] = req[r]
    BY <1>0, <1>3 DEF updateSignals, publishWrite, releasePendingContent, moderatePhotos, createWrite, updateWrite,
       claimImport, importSignals, importRead, importWrite, importRollback, finishImport, discardBatch, Finish,
       NextBatch, Types
  <2> QED  BY <1>0, <2>1
<1>4. ~updateSignals(r)
  BY <1>0 DEF updateSignals, At
<1>5. ~(\/ publishWrite(r) \/ releasePendingContent(r) \/ moderatePhotos(r)
        \/ \E publish \in BOOLEAN, n \in 0 .. PhotoCap : createWrite(r, publish, n)
        \/ claimImport(r) \/ importSignals(r) \/ importRead(r) \/ importWrite(r) \/ importRollback(r)
        \/ finishImport(r) \/ discardBatch(r))
  BY DEF publishWrite, releasePendingContent, moderatePhotos, createWrite, claimImport, importSignals, importRead,
         importWrite, importRollback, finishImport, discardBatch, At
<1>6. ~expireBatch
  BY <1>0 DEF expireBatch
<1>7. ASSUME NEW q \in Requests, commitImport(q) PROVE FALSE
  <2>1. req' = [req EXCEPT ![q] = Claim] /\ At(q, "idle")
    BY <1>7 DEF commitImport, Begin
  <2> QED  BY <1>0, <2>1 DEF Types, At
<1>8. ~(\/ \E p \in Products : (\E publish \in BOOLEAN : setCatalogStatus(p, publish)) \/ deleteCatalogItem(p) \/ attachPhoto(p)
        \/ \E ps \in SUBSET Products : clearProductPhotos(ps)
        \/ \E to \in {"SUSPENDED", "BANNED"} : suspendSeller(to)
        \/ \E ok \in SUBSET Products : upload(ok)
        \/ \E q \in Requests :
              \/ \E p \in Products : createProduct(q, p) \/ updateProduct(q, p)
              \/ \E ticked \in SUBSET Products : publishProducts(q, ticked)
              \/ verifySeller(q)
              \/ \E p \in Products, to \in {"APPROVED", "REJECTED"} : moderateProduct(q, p, to)
              \/ processDies(q))
  BY <1>1 DEF setCatalogStatus, deleteCatalogItem, attachPhoto, clearProductPhotos, suspendSeller, upload, createProduct,
     updateProduct, publishProducts, verifySeller, moderateProduct, processDies
<1> QED  BY <1>3, <1>4, <1>5, <1>6, <1>7, <1>8 DEF Next

\* The steps that count a row of r's batch as written.
LEMMA CountsRow ==
    ASSUME Steady, JobRight, Next, NEW r \in Requests, At(r, "write"), NEW p \in Products, p \in req[r].batch,
           writes'[p] > writes[p]
    PROVE  importWrite(r) /\ rows[p] # "gone"
<1>0. Types /\ writes \in [Products -> Nat] /\ req[r].next \in Core /\ req[r].next \in Importing
  BY CoreSteps DEF Steady, Types, JobTypes, At
<1>1. writes' # writes
  BY <1>0
<1>2. PICK q \in Requests : importWrite(q)
  <2>1. ~\E ok \in SUBSET Products : upload(ok)
    BY <1>0 DEF upload
  <2>2. ASSUME Next, ~\E ok \in SUBSET Products : upload(ok), ~\E q \in Requests : importWrite(q)
        PROVE  writes' = writes
    BY <2>2 DEF Next, setCatalogStatus, deleteCatalogItem, attachPhoto, clearProductPhotos, suspendSeller,
       expireBatch, createProduct, updateProduct, updateSignals, createWrite, updateWrite, publishProducts, publishWrite,
       verifySeller, releasePendingContent, moderateProduct, moderatePhotos, commitImport, claimImport, importSignals,
       importRead, importRollback, finishImport, discardBatch, processDies, import
  <2> QED  BY <1>1, <2>1, <2>2
<1>3. At(q, "write") /\ q = r
  BY <1>0, <1>2, CoreSteps DEF importWrite, At, JobRight, OneJob
<1>4. rows[p] # "gone"
  <2> SUFFICES ASSUME rows[p] = "gone" PROVE writes'[p] = writes[p]
    BY <1>0
  <2>1. writes' = [t \in Products |-> IF t \in {u \in req[r].batch : rows[u] # "gone"} THEN writes[t] + 1 ELSE writes[t]]
    BY <1>2, <1>3, Zenon DEF importWrite
  <2> QED  BY <2>1
<1> QED  BY <1>2, <1>3, <1>4

\* An edit for a seller who is not verified, and an import for one, leave nothing
\* approved that they found approved, whichever of the two paths is taken.
THEOREM EditsAreReviewed == Spec => UnverifiedEditsAreReviewed
<1>1. ASSUME Steady, JobRight, Ticked, Next, NEW r \in Requests, NEW p \in Products, Writes(r, p), ~req[r].verified
      PROVE  product'[p].moderation # "APPROVED"
  <2>0. Types
    BY <1>1 DEF Steady
  <2>1. CASE /\ At(r, "save") /\ req[r].item = p /\ ~req[r].gone /\ req[r].saw = product[p].moderation
             /\ req'[r] = Idle /\ used' = used
    <3>1. PICK publish \in BOOLEAN, n \in 0 .. PhotoCap : updateWrite(r, publish, n)
      BY <1>1, <2>1, SaveEnds
    <3> DEFINE m == Rereviewed(req[r].verified, req[r].saw)
    <3>2. product' = [product EXCEPT ![p] = [published |-> publish, moderation |-> m, photos |-> Photos(n, m)]]
      BY <2>1, <3>1 DEF updateWrite
    <3>3. m # "APPROVED"
      BY <1>1 DEF Rereviewed, Decided
    <3> HIDE DEF m
    <3> QED  BY <2>0, <3>2, <3>3 DEF Types
  <2>2. CASE /\ At(r, "write") /\ p \in req[r].batch /\ req[r].saw[p] = product[p].moderation
             /\ writes'[p] > writes[p]
    <3>1. importWrite(r) /\ rows[p] # "gone"
      BY <1>1, <2>2, CountsRow
    <3>2. product'[p] = Imported(r, p)
      BY <2>2, <3>1 DEF importWrite
    <3>3. rows[p] \in {"new", "update"}
      BY <1>1, <2>2, <3>1 DEF Ticked, Importable, At
    <3>4. CASE rows[p] = "new"
      <4>1. product'[p] = [NoProduct EXCEPT !.moderation = Decided(req[r].verified)]
        BY <3>2, <3>4 DEF Imported
      <4>2. Decided(req[r].verified) = "PENDING"
        BY <1>1 DEF Decided
      <4> QED  BY <4>1, <4>2 DEF NoProduct
    <3>5. CASE rows[p] = "update" /\ req[r].saw[p] = "APPROVED"
      <4>1. product'[p] = [product[p] EXCEPT !.moderation = "PENDING"]
        BY <1>1, <3>2, <3>5 DEF Imported
      <4>2. product[p] \in LiveRow
        BY <2>0, <2>2, <3>5, RowForms DEF Types
      <4> QED  BY <4>1, <4>2, Edited, RowForms
    <3>6. CASE rows[p] = "update" /\ req[r].saw[p] # "APPROVED"
      <4>1. product'[p] = product[p]
        BY <3>2, <3>6 DEF Imported
      <4> QED  BY <2>2, <3>6, <4>1
    <3> QED  BY <3>3, <3>4, <3>5, <3>6
  <2> QED  BY <1>1, <2>1, <2>2 DEF Writes
<1>2. Steady /\ JobRight /\ Ticked /\ [Next]_vars =>
          [\A r \in Requests, p \in Products :
              Writes(r, p) /\ ~req[r].verified => product'[p].moderation # "APPROVED"]_vars
  BY <1>1
<1> QED  BY <1>2, TickedAlways, Always, PTL DEF Spec, UnverifiedEditsAreReviewed

-----------------------------------------------------------------------------
(* Indexability: the actors.                                                *)

\* The types, with the counter and the rules told apart.
LEMMA ActForms ==
    /\ Recomputing = {"rules", "seller", "counts", "write"}
    /\ NoAct.next = "idle"
    /\ \A x \in Reading : /\ x.next \in {"release", "flip", "purge"} \cup Recomputing
                          /\ x.purge \in BOOLEAN /\ x.saw \subseteq Facts /\ x.left \subseteq Counts
    /\ \A step \in {"release", "flip", "purge"} \cup Recomputing, b \in BOOLEAN :
          Start(step, b) \in Reading /\ Start(step, b).next = step
  BY IndexabilityAssumption DEF Recomputing, NoAct, Reading, Start, Tiers

\* The actor a goes on as x; the others stay.
Acts(a, x) ==
    /\ act' \in [Actors -> {NoAct} \cup Reading] /\ act'[a] = x
    /\ \A b \in Actors : b # a => act'[b] = act[b]

LEMMA ActForm ==
    ASSUME SearchTypeOK, NEW a \in Actors, NEW x \in {NoAct} \cup Reading, act' = [act EXCEPT ![a] = x]
    PROVE  Acts(a, x)
  BY DEF SearchTypeOK, Acts

LEMMA ActsFrom ==
    ASSUME SearchTypeOK, NEW a \in Actors, act[a].next # "idle"
    PROVE  act[a] \in Reading
  BY ActForms DEF SearchTypeOK

LEMMA BeginForm ==
    ASSUME SearchTypeOK, NEW a \in Actors, NEW step \in {"release", "flip", "purge"} \cup Recomputing,
           NEW b \in BOOLEAN, BeginAct(a, step, b)
    PROVE  ActAt(a, "idle") /\ Acts(a, Start(step, b)) /\ Start(step, b).next = step
  BY ActForms, ActForm DEF BeginAct

LEMMA GoForm ==
    ASSUME SearchTypeOK, NEW a \in Actors, ActAt(a, "release"), Go(a, "rules")
    PROVE  \E x \in Reading : Acts(a, x) /\ x.next = "rules"
<1>1. act[a] \in Reading
  BY ActsFrom DEF ActAt
<1>2. [act[a] EXCEPT !.next = "rules"] \in Reading /\ [act[a] EXCEPT !.next = "rules"].next = "rules"
  BY <1>1, ActForms DEF Reading
<1>3. act' = [act EXCEPT ![a] = [act[a] EXCEPT !.next = "rules"]]
  BY DEF Go, SearchTypeOK
<1> QED  BY <1>2, <1>3, ActForm

\* After the verdict is stored, and after each purge, nothing is owed by a.
LEMMA ContinueForm ==
    ASSUME SearchTypeOK, NEW a \in Actors, ~ActAt(a, "idle"), NEW next \in {"flip", "purge", "idle"},
           Continue(a, next)
    PROVE  \E x \in {NoAct} \cup Reading : Acts(a, x) /\ x.next \in {"idle", "flip", "purge"}
<1>1. act[a].purge \in BOOLEAN
  BY ActsFrom, ActForms DEF ActAt
<1>2. CASE next = "idle" \/ (next = "purge" /\ ~act[a].purge)
  BY <1>2, ActForm, ActForms DEF Continue
<1>3. CASE ~(next = "idle" \/ (next = "purge" /\ ~act[a].purge))
  <2>1. Start(next, act[a].purge) \in Reading /\ Start(next, act[a].purge).next = next
    BY <1>1, <1>3, ActForms
  <2> QED  BY <1>3, <2>1, ActForm DEF Continue
<1> QED  BY <1>2, <1>3

\* What x, on its way through a recompute, has read is the seller as it is.
FreshAs(x) ==
    /\ x.next \in {"seller", "counts", "write"} => x.rules = rules
    /\ x.next \in {"counts", "write"} =>
          /\ x.hidden = hidden /\ x.tier = tier
          /\ x.saw = (Having \ Counts) \cup (facts \cap (Counts \ x.left))
    /\ x.next = "write" => x.left = {}
ReadsRight == \A a \in Actors \ crossed : FreshAs(act[a])

\* A step that fills in what was read.
LEMMA ReadForm ==
    ASSUME SearchTypeOK, NEW a \in Actors,
           getIndexEligibilityRules(a) \/ readSeller(a) \/ readCount(a)
    PROVE  \E x \in Reading : Acts(a, x) /\ x.next \in Recomputing /\ (FreshAs(act[a]) => FreshAs(x))
<1>1. act[a] \in Reading /\ act \in [Actors -> {NoAct} \cup Reading]
  BY ActsFrom DEF getIndexEligibilityRules, readSeller, readCount, ActAt, SearchTypeOK
<1>2. CASE getIndexEligibilityRules(a)
  <2> DEFINE x == [act[a] EXCEPT !.next = "seller", !.rules = rules]
  <2>1. x \in Reading /\ x.next = "seller"
    BY <1>1, ActForms DEF Reading, SearchTypeOK
  <2>2. act' = [act EXCEPT ![a] = x]
    BY <1>1, <1>2 DEF getIndexEligibilityRules
  <2>3. FreshAs(x)
    BY <1>1, <2>1 DEF FreshAs, Reading
  <2> HIDE DEF x
  <2> QED  BY <2>1, <2>2, <2>3, ActForm, ActForms
<1>3. CASE readSeller(a)
  <2> DEFINE x == [act[a] EXCEPT !.next = "counts", !.saw = Having \ Counts, !.hidden = hidden,
                                 !.tier = tier, !.was = indexable, !.left = Counts]
  <2>1. Having \subseteq Facts
    BY DEF Having, Facts, SearchTypeOK
  <2>2. x \in Reading /\ x.next = "counts"
    BY <1>1, <2>1, ActForms DEF Reading, SearchTypeOK
  <2>3. act' = [act EXCEPT ![a] = x]
    BY <1>1, <1>3 DEF readSeller
  <2>4. FreshAs(act[a]) => FreshAs(x)
    <3>1. /\ x.rules = act[a].rules /\ x.hidden = hidden /\ x.tier = tier
          /\ x.saw = Having \ Counts /\ x.left = Counts
      BY <1>1 DEF Reading
    <3>2. act[a].next = "seller"
      BY <1>3 DEF readSeller, ActAt
    <3> HIDE DEF x
    <3> QED  BY <2>2, <3>1, <3>2 DEF FreshAs
  <2> HIDE DEF x
  <2> QED  BY <2>2, <2>3, <2>4, ActForm, ActForms
<1>4. CASE readCount(a)
  <2>1. PICK f \in act[a].left :
            LET asked == IF f \in ContentFacts THEN {f} ELSE act[a].left IN
            act' = [act EXCEPT ![a].saw = @ \cup (asked \cap facts), ![a].left = @ \ asked,
                               ![a].next = IF act[a].left = asked THEN "write" ELSE "counts"]
    BY <1>4 DEF readCount
  <2> DEFINE asked == IF f \in ContentFacts THEN {f} ELSE act[a].left
             x == [act[a] EXCEPT !.saw = act[a].saw \cup (asked \cap facts), !.left = act[a].left \ asked,
                                 !.next = IF act[a].left = asked THEN "write" ELSE "counts"]
  <2>2. asked \subseteq act[a].left
    OBVIOUS
  <2>3. act' = [act EXCEPT ![a] = x]
    BY <1>1, <2>1
  <2> HIDE DEF asked
  <2>4. x \in Reading /\ x.next \in {"write", "counts"}
    BY <1>1, <2>2, ActForms DEF Reading, SearchTypeOK
  <2>5. FreshAs(act[a]) => FreshAs(x)
    <3>1. /\ x.rules = act[a].rules /\ x.hidden = act[a].hidden /\ x.tier = act[a].tier
          /\ x.saw = act[a].saw \cup (asked \cap facts) /\ x.left = act[a].left \ asked
          /\ x.next = "write" => act[a].left = asked
      BY <1>1 DEF Reading
    <3>2. act[a].next = "counts" /\ act[a].left \subseteq Counts
      BY <1>1, <1>4, ActForms DEF readCount, ActAt
    <3> HIDE DEF x
    <3> QED  BY <2>2, <2>4, <3>1, <3>2 DEF FreshAs
  <2> HIDE DEF x
  <2> QED  BY <2>3, <2>4, <2>5, ActForm, ActForms
<1> QED  BY <1>2, <1>3, <1>4

-----------------------------------------------------------------------------
(* The verdict.                                                             *)

\* What the evaluation says of the seller is what its words say.
LEMMA Evaluation ==
    ASSUME SearchTypeOK
    PROVE  Deserved <=> Deserves
<1> DEFINE q == RulesFor(rules, tier)
<1>1. rules \in [required : SUBSET Facts, minScore : 0 .. 100]
  BY IndexabilityAssumption DEF SearchTypeOK
<1>2. q.minScore = rules.minScore
  BY <1>1 DEF RulesFor
<1>3. CatalogueOk(Having) <=> "products" \in facts \/ "services" \in facts
  BY DEF CatalogueOk, Having
<1>4. Failures(Having, q) = {} <=>
          /\ q.required \cup {"name", "description"} \subseteq Having
          /\ "products" \in facts \/ "services" \in facts
  BY <1>3 DEF Failures
<1> HIDE DEF q
<1>5. Deserved <=> Failures(Having, q) = {} /\ Score(Having) >= q.minScore /\ ~hidden
  BY DEF Deserved, Verdict, Eligible, q
<1> QED  BY <1>2, <1>4, <1>5 DEF Deserves, q

\* The columns, without the actors and the counter.
RowTypes ==
    /\ status \in Statuses /\ facts \subseteq Facts /\ hidden \in BOOLEAN /\ tier \in Tiers
    /\ rules \in RuleSets /\ indexable \in BOOLEAN
    /\ page \in Snapshots \cup {Missing} /\ fill \in Snapshots \cup {Missing}
    /\ missed \subseteq Reasons /\ crossed \subseteq Actors

LEMMA ChangeKeeps ==
    ASSUME SearchTypeOK
    PROVE  /\ Change => changes' \in 0 .. MaxChanges
           /\ UNCHANGED changes => changes' \in 0 .. MaxChanges
  BY IndexabilityAssumption DEF SearchTypeOK, Change

LEMMA TypeParts == SearchTypeOK <=> RowTypes /\ act \in [Actors -> {NoAct} \cup Reading] /\ changes \in 0 .. MaxChanges
  BY DEF SearchTypeOK, RowTypes

Handed == SearchTypeOK' /\ NothingIsForgotten' /\ ReadsRight'

\* After a change, what is not crossed has not begun to read.
LEMMA CrossingTypes ==
    ASSUME SearchTypeOK, Crosses
    PROVE  /\ crossed' \subseteq Actors
           /\ UNCHANGED act => ReadsRight'
<1>1. crossed' = crossed \cup Readers /\ Readers \subseteq Actors
  BY DEF Crosses, Readers
<1>2. UNCHANGED act => \A b \in Actors \ crossed' : act'[b].next \notin {"seller", "counts", "write"}
  BY <1>1 DEF Readers
<1> QED  BY <1>1, <1>2 DEF SearchTypeOK, ReadsRight, FreshAs

LEMMA CrossingKeeps ==
    ASSUME SearchTypeOK, Crosses, NEW a \in Actors, NEW x, Acts(a, x),
           x.next \notin {"seller", "counts", "write"}
    PROVE  crossed' \subseteq Actors /\ ReadsRight'
<1>1. crossed' = crossed \cup Readers /\ Readers \subseteq Actors
  BY DEF Crosses, Readers
<1>2. \A b \in Actors \ crossed' : act'[b].next \notin {"seller", "counts", "write"}
  BY <1>1 DEF Readers, Acts
<1> QED  BY <1>1, <1>2 DEF SearchTypeOK, ReadsRight, FreshAs

\* Without a change only what a does counts.
LEMMA OthersStay ==
    ASSUME ReadsRight, UNCHANGED row, NEW a \in Actors, NEW x, Acts(a, x),
           crossed \ {a} \subseteq crossed', a \notin crossed' => FreshAs(x)
    PROVE  ReadsRight'
<1>1. \A y : FreshAs(y) => (FreshAs(y))'
  BY DEF FreshAs, row, Having
<1>2. SUFFICES ASSUME NEW b \in Actors \ crossed' PROVE FreshAs(act'[b])
  BY <1>1 DEF ReadsRight, FreshAs, row, Having
<1> QED  BY <1>2 DEF ReadsRight, Acts

LEMMA NotReading ==
    ASSUME NEW x, x.next \notin {"seller", "counts", "write"} PROVE FreshAs(x)
  BY DEF FreshAs

\* A handler that changes what counts goes on to recompute.
LEMMA HookedSteps ==
    ASSUME SearchTypeOK, NEW r \in Handlers,
           \/ \E f \in ProfileFacts \cup {"published"} : updateSellerProfile(r, f)
           \/ \E f \in ContentFacts : afterCatalogWrite(r, f)
           \/ \E first \in BOOLEAN : verifySellerAction(r, first)
           \/ setSellerSeoNoindex(r)
           \/ \E t \in Tiers : recomputeWebPresence(r, t)
    PROVE  Handed
<1>1. r \in Actors /\ ProfileFacts \cup {"published"} \cup ContentFacts \subseteq Facts
  BY IndexabilityAssumption DEF Actors, Facts, Counts
<1>2. \A f \in Facts : Toggle(f) \subseteq Facts
  BY DEF Toggle, SearchTypeOK
<1>3. /\ Change /\ \E step \in {"release", "rules"}, b \in BOOLEAN : BeginAct(r, step, b)
      /\ UNCHANGED <<indexable, fill, missed>> /\ page' \in {page, Missing} /\ Crosses
  BY DEF updateSellerProfile, afterCatalogWrite, verifySellerAction, setSellerSeoNoindex,
         recomputeWebPresence, Purged
<1>4. RowTypes'
  <2>1. /\ status' \in {status, "VERIFIED"} /\ hidden' \in {hidden, ~hidden} /\ rules' = rules
        /\ tier' \in Tiers
        /\ facts' \in {facts, facts \cup {"verified"}} \cup {Toggle(f) : f \in Facts}
    BY <1>1 DEF updateSellerProfile, afterCatalogWrite, verifySellerAction, setSellerSeoNoindex,
                recomputeWebPresence, SearchTypeOK
  <2>2. facts' \subseteq Facts
    BY <1>2, <2>1 DEF SearchTypeOK, Facts
  <2> QED  BY <1>3, <2>1, <2>2, CrossingTypes DEF RowTypes, SearchTypeOK, Statuses
<1>5. PICK step \in {"release", "rules"}, b \in BOOLEAN : BeginAct(r, step, b)
  BY <1>3
<1>6. Acts(r, Start(step, b)) /\ Start(step, b).next = step
  BY <1>1, <1>5, BeginForm, ActForms
<1>7. Owes(r)'
  BY <1>6, ActForms DEF Owes, Acts
<1>8. SearchTypeOK'
  BY <1>3, <1>4, <1>6, ChangeKeeps DEF Acts, SearchTypeOK, RowTypes
<1>9. ReadsRight'
  BY <1>1, <1>3, <1>6, CrossingKeeps
<1> QED  BY <1>1, <1>7, <1>8, <1>9 DEF Handed, NothingIsForgotten, Owes

\* What somebody owes, he still owes when another one acts, or when he himself did
\* not owe anything.
LEMMA DebtStays ==
    ASSUME SearchTypeOK, NEW a \in Actors, NEW x, Acts(a, x), ~Owes(a) \/ x.next \in {"release"} \cup Recomputing
    PROVE  (\E b \in Actors : Owes(b)) => \E b \in Actors : Owes(b)'
  BY DEF Acts, Owes

\* The steps that leave what the seller deserves, the stored flag and the mark.
LEMMA QuietSteps ==
    ASSUME SearchTypeOK, NothingIsForgotten, UNCHANGED <<indexable, Deserves>>, missed \subseteq missed',
           (\E b \in Actors : Owes(b)) => \E b \in Actors : Owes(b)'
    PROVE  NothingIsForgotten'
  BY DEF NothingIsForgotten, Owes

\* Those without a hook leave their mark; a rejection only if it counts.
LEMMA HooklessSteps ==
    ASSUME SearchTypeOK, NothingIsForgotten,
           \/ \E r \in Handlers : suspendSellerAction(r) \/ rejectSellerAction(r)
           \/ markUserPhoneVerified
           \/ \E q \in RuleSets : updateIndexEligibility(q)
    PROVE  Handed
<1>1. CASE \E r \in Handlers : suspendSellerAction(r) \/ rejectSellerAction(r)
  <2>1. PICK r \in Handlers : suspendSellerAction(r) \/ rejectSellerAction(r)
    BY <1>1
  <2>2. /\ Change /\ BeginAct(r, "purge", TRUE) /\ r \in Actors
        /\ UNCHANGED <<facts, hidden, tier, rules, indexable, page, fill>>
        /\ status' \in {"SUSPENDED", "REJECTED"}
        /\ missed' \subseteq Reasons /\ missed \subseteq missed' /\ Crosses
        /\ missed' # {} \/ (Active(status) /\ status' = "REJECTED")
    BY <2>1 DEF suspendSellerAction, rejectSellerAction, Actors, SearchTypeOK, Misses, Reasons
  <2>3. ActAt(r, "idle") /\ Acts(r, Start("purge", TRUE)) /\ Start("purge", TRUE).next = "purge"
    BY <2>2, BeginForm
  <2>4. SearchTypeOK' /\ ReadsRight'
    <3>1. crossed' \subseteq Actors /\ ReadsRight'
      BY <2>2, <2>3, CrossingKeeps
    <3> QED  BY <2>2, <2>3, <3>1, ChangeKeeps DEF Acts, SearchTypeOK, Statuses
  <2>5. CASE missed' # {}
    BY <2>4, <2>5 DEF Handed, NothingIsForgotten
  <2>6. CASE Active(status) /\ status' = "REJECTED"
    <3>1. Having' = Having
      BY <2>2, <2>6 DEF Having, Active
    <3>2. Deserves' = Deserves
      BY <2>2, <3>1 DEF Deserves
    <3>3. ~Owes(r)
      BY <2>3, ActForms DEF Owes, ActAt
    <3> QED  BY <2>2, <2>3, <2>4, <3>2, <3>3, DebtStays, QuietSteps DEF Handed
  <2> QED  BY <2>2, <2>5, <2>6
<1>2. CASE markUserPhoneVerified \/ \E q \in RuleSets : updateIndexEligibility(q)
  <2>1. /\ Change /\ Crosses /\ missed' # {} /\ missed' \subseteq Reasons
        /\ UNCHANGED <<status, hidden, tier, indexable, page, fill, act>>
        /\ facts' \in {facts, facts \cup {"phone"}} /\ rules' \in RuleSets
    BY <1>2 DEF markUserPhoneVerified, updateIndexEligibility, SearchTypeOK, Misses, Reasons
  <2>2. SearchTypeOK' /\ ReadsRight'
    BY <2>1, ChangeKeeps, CrossingTypes DEF SearchTypeOK, Facts
  <2> QED  BY <2>1, <2>2 DEF Handed, NothingIsForgotten
<1> QED  BY <1>1, <1>2

\* The night's job, and reading.
LEMMA ReadingSteps ==
    ASSUME SearchTypeOK, NothingIsForgotten, ReadsRight,
           \/ recomputeIndexabilityJob
           \/ \E a \in Actors : getIndexEligibilityRules(a) \/ readSeller(a) \/ readCount(a)
           \/ \E a \in Actors : \E released \in SUBSET ContentFacts : releaseContent(a, released)
    PROVE  Handed
<1>1. CASE recomputeIndexabilityJob
  <2>1. Nightly \in Actors /\ UNCHANGED <<row, indexable, page, fill, histories, changes>>
    BY <1>1 DEF recomputeIndexabilityJob, Actors
  <2>2. Acts(Nightly, Start("rules", FALSE)) /\ Start("rules", FALSE).next = "rules"
    BY <1>1, <2>1, BeginForm, ActForms DEF recomputeIndexabilityJob
  <2>3. ReadsRight'
    BY <2>1, <2>2, NotReading, OthersStay DEF histories
  <2> QED  BY <2>1, <2>2, <2>3, ActForms DEF Handed, SearchTypeOK, NothingIsForgotten, Acts, Owes, row, histories
<1>2. ASSUME NEW a \in Actors, getIndexEligibilityRules(a) \/ readSeller(a) \/ readCount(a) PROVE Handed
  <2>1. UNCHANGED <<row, indexable, page, fill, histories, changes>>
    BY <1>2 DEF getIndexEligibilityRules, readSeller, readCount
  <2>2. PICK x \in Reading : Acts(a, x) /\ x.next \in Recomputing /\ (FreshAs(act[a]) => FreshAs(x))
    BY <1>2, ReadForm, Zenon
  <2>3. ReadsRight'
    <3>1. a \notin crossed' => FreshAs(x)
      BY <2>1, <2>2 DEF ReadsRight, histories
    <3> QED  BY <2>1, <2>2, <3>1, OthersStay DEF histories
  <2> QED  BY <2>1, <2>2, <2>3 DEF Handed, SearchTypeOK, NothingIsForgotten, Acts, Owes, row, histories
<1>3. ASSUME NEW a \in Actors, NEW released \in SUBSET ContentFacts, releaseContent(a, released) PROVE Handed
  <2>1. /\ UNCHANGED <<status, hidden, tier, rules, indexable, page, fill, missed, changes>>
        /\ facts' = facts \cup released /\ ActAt(a, "release") /\ Go(a, "rules") /\ Crosses
    BY <1>3 DEF releaseContent
  <2>2. facts' \subseteq Facts
    BY <2>1, IndexabilityAssumption DEF SearchTypeOK, Facts
  <2>3. PICK x \in Reading : Acts(a, x) /\ x.next = "rules"
    BY <2>1, GoForm
  <2>4. crossed' \subseteq Actors /\ ReadsRight'
    BY <2>1, <2>3, CrossingKeeps
  <2> QED  BY <2>1, <2>2, <2>3, <2>4, ActForms DEF Handed, SearchTypeOK, NothingIsForgotten, Acts, Owes
<1> QED  BY <1>1, <1>2, <1>3

\* A recompute that nothing crossed comes to what the seller deserves.
LEMMA UncrossedIsRight ==
    ASSUME SearchTypeOK, ReadsRight, NEW a \in Actors \ crossed, ActAt(a, "write")
    PROVE  Conclusion(a) = Deserved
<1>1. /\ act[a].rules = rules /\ act[a].hidden = hidden /\ act[a].tier = tier
      /\ act[a].saw = (Having \ Counts) \cup (facts \cap Counts)
  BY DEF ReadsRight, FreshAs, ActAt
<1>2. act[a].saw = Having
  BY <1>1 DEF Having, Counts
<1> QED  BY <1>1, <1>2 DEF Conclusion, Deserved

LEMMA StoringSteps ==
    ASSUME SearchTypeOK, NothingIsForgotten, ReadsRight, NEW a \in Actors,
           storeVerdict(a) \/ revalidateIndexability(a) \/ revalidateTenant(a) \/ handlerDies(a)
    PROVE  Handed
<1>1. CASE storeVerdict(a)
  <2>1. /\ ActAt(a, "write") /\ indexable' = Conclusion(a)
        /\ missed' = (IF a \in crossed THEN {"crossing"} ELSE {}) /\ crossed' = crossed \ {a}
        /\ Continue(a, IF act[a].was # Conclusion(a) THEN "flip" ELSE "purge")
        /\ UNCHANGED <<row, page, fill, changes>>
    BY <1>1 DEF storeVerdict
  <2>2. PICK x \in {NoAct} \cup Reading : Acts(a, x) /\ x.next \in {"idle", "flip", "purge"}
    <3> DEFINE next == IF act[a].was # Conclusion(a) THEN "flip" ELSE "purge"
    <3>1. next \in {"flip", "purge", "idle"} /\ Continue(a, next) /\ ~ActAt(a, "idle")
      BY <2>1 DEF ActAt
    <3> HIDE DEF next
    <3> QED  BY <3>1, ContinueForm
  <2>3. Conclusion(a) \in BOOLEAN /\ Deserves' = Deserves /\ Deserves \in BOOLEAN
    BY <2>1 DEF Conclusion, Verdict, Deserves, row, Having
  <2>4. SearchTypeOK'
    BY <2>1, <2>2, <2>3 DEF SearchTypeOK, Acts, row, Reasons
  <2>5. indexable' = Deserves' \/ missed' # {}
    <3>1. CASE a \in crossed
      BY <2>1, <3>1
    <3>2. CASE a \notin crossed
      BY <2>1, <2>3, <3>2, UncrossedIsRight, Evaluation DEF Deserved, Verdict
    <3> QED  BY <3>1, <3>2
  <2>6. ReadsRight'
    BY <2>1, <2>2, NotReading, OthersStay
  <2> QED  BY <2>4, <2>5, <2>6 DEF Handed, NothingIsForgotten
<1>2. CASE revalidateIndexability(a) \/ revalidateTenant(a)
  <2>1. /\ act[a].next \in {"flip", "purge"} /\ page' = Missing
        /\ \E next \in {"purge", "idle"} : Continue(a, next)
        /\ UNCHANGED <<row, indexable, fill, histories, changes>>
    BY <1>2 DEF revalidateIndexability, revalidateTenant, ActAt, Purged
  <2>2. PICK x \in {NoAct} \cup Reading : Acts(a, x) /\ x.next \in {"idle", "flip", "purge"}
    BY <2>1, ContinueForm DEF ActAt
  <2>3. SearchTypeOK' /\ ReadsRight'
    <3>1. ReadsRight'
      BY <2>1, <2>2, NotReading, OthersStay DEF histories
    <3> QED  BY <2>1, <2>2, <3>1 DEF SearchTypeOK, Acts, row, histories
  <2>4. ~Owes(a) /\ Deserves' = Deserves
    BY <2>1, ActForms DEF Owes, Deserves, row, Having
  <2> QED  BY <2>1, <2>2, <2>3, <2>4, DebtStays, QuietSteps DEF Handed, histories
<1>3. CASE handlerDies(a)
  <2>1. /\ Change /\ act' = [act EXCEPT ![a] = NoAct] /\ UNCHANGED <<row, indexable, page, fill>>
        /\ missed' \subseteq Reasons /\ missed \subseteq missed' /\ (Owes(a) => missed' # {})
        /\ crossed' = crossed \ {a}
    BY <1>3 DEF handlerDies, Misses, Reasons, SearchTypeOK
  <2>2. Acts(a, NoAct) /\ NoAct.next = "idle"
    BY <2>1, ActForm, ActForms
  <2>3. SearchTypeOK' /\ Deserves' = Deserves /\ ReadsRight'
    <3>1. ReadsRight'
      BY <2>1, <2>2, NotReading, OthersStay
    <3> QED  BY <2>1, <2>2, <3>1, ChangeKeeps DEF SearchTypeOK, Acts, row, Deserves, Having
  <2>4. CASE missed' # {}
    BY <2>3, <2>4 DEF Handed, NothingIsForgotten
  <2>5. CASE missed' = {}
    BY <2>1, <2>2, <2>3, <2>5, DebtStays, QuietSteps DEF Handed
  <2> QED  BY <2>4, <2>5
<1> QED  BY <1>1, <1>2, <1>3

LEMMA VisitorSteps ==
    ASSUME SearchTypeOK, NothingIsForgotten, ReadsRight, readTenant \/ cacheTenant \/ expirePage \/ UNCHANGED searchVars
    PROVE  Handed
<1>1. /\ UNCHANGED <<row, indexable, act, histories, changes>>
      /\ page' \in {page, fill, Missing} /\ fill' \in {fill, Snapshot, Missing}
  BY DEF readTenant, cacheTenant, expirePage, Purged, searchVars
<1>2. Snapshot \in Snapshots
  BY DEF Snapshot, Snapshots, SearchTypeOK
<1>3. ReadsRight'
  BY <1>1 DEF ReadsRight, FreshAs, Having, row, histories
<1> QED  BY <1>1, <1>2, <1>3 DEF Handed, SearchTypeOK, NothingIsForgotten, Owes, Deserves, Having, row, histories

LEMMA SearchAlways == SearchSpec => [](SearchTypeOK /\ NothingIsForgotten /\ ReadsRight)
<1>1. SearchInit => SearchTypeOK /\ NothingIsForgotten /\ ReadsRight
  <2> SUFFICES ASSUME SearchInit PROVE SearchTypeOK /\ NothingIsForgotten /\ ReadsRight
    OBVIOUS
  <2>1. indexable \in BOOLEAN /\ indexable = Deserved
    <3>1. indexable = Deserved
      BY DEF SearchInit
    <3>2. Deserved \in BOOLEAN
      BY DEF Deserved, Verdict
    <3> QED  BY <3>1, <3>2
  <2>2. SearchTypeOK
    <3>1. /\ status = "PENDING_VERIFICATION" /\ facts = Given /\ hidden = FALSE /\ tier = "CATALOGUE"
          /\ rules = DefaultRules /\ page = Missing /\ fill = Missing /\ act = [a \in Actors |-> NoAct]
          /\ missed = {} /\ crossed = {} /\ changes = 0
      BY Zenon DEF SearchInit
    <3>2. DefaultRules \in RuleSets /\ Given \subseteq Facts /\ 0 \in 0 .. MaxChanges
      BY IndexabilityAssumption
    <3>3. indexable \in BOOLEAN
      BY <2>1, Zenon
    <3> QED  BY <3>1, <3>2, <3>3 DEF SearchTypeOK, Statuses, Tiers
  <2>3. Deserves \in BOOLEAN /\ Deserved \in BOOLEAN
    BY DEF Deserves, Deserved, Verdict
  <2>4. ReadsRight
    <3>1. \A a \in Actors : act[a].next = "idle"
      BY ActForms DEF SearchInit
    <3> QED  BY <3>1, NotReading DEF ReadsRight
  <2> QED  BY <2>1, <2>2, <2>3, <2>4, Evaluation DEF NothingIsForgotten
<1>2. ASSUME SearchTypeOK, NothingIsForgotten, ReadsRight, [SearchNext]_searchVars PROVE Handed
  <2>1. CASE \E r \in Handlers :
               \/ \E f \in ProfileFacts \cup {"published"} : updateSellerProfile(r, f)
               \/ \E f \in ContentFacts : afterCatalogWrite(r, f)
               \/ \E first \in BOOLEAN : verifySellerAction(r, first)
               \/ setSellerSeoNoindex(r)
               \/ \E t \in Tiers : recomputeWebPresence(r, t)
    BY <1>2, <2>1, HookedSteps
  <2>2. CASE \/ \E r \in Handlers : suspendSellerAction(r) \/ rejectSellerAction(r)
             \/ markUserPhoneVerified
             \/ \E q \in RuleSets : updateIndexEligibility(q)
    BY <1>2, <2>2, HooklessSteps
  <2>3. CASE \/ recomputeIndexabilityJob
             \/ \E a \in Actors : getIndexEligibilityRules(a) \/ readSeller(a) \/ readCount(a)
             \/ \E a \in Actors : \E released \in SUBSET ContentFacts : releaseContent(a, released)
    BY <1>2, <2>3, ReadingSteps
  <2>4. CASE \E a \in Actors :
               storeVerdict(a) \/ revalidateIndexability(a) \/ revalidateTenant(a) \/ handlerDies(a)
    BY <1>2, <2>4, StoringSteps
  <2>5. CASE readTenant \/ cacheTenant \/ expirePage \/ UNCHANGED searchVars
    BY <1>2, <2>5, VisitorSteps
  <2> QED  BY <1>2, <2>1, <2>2, <2>3, <2>4, <2>5 DEF SearchNext, Step
<1>3. SearchTypeOK /\ NothingIsForgotten /\ ReadsRight /\ [SearchNext]_searchVars =>
          (SearchTypeOK /\ NothingIsForgotten /\ ReadsRight)'
  BY <1>2 DEF Handed
<1> QED  BY <1>1, <1>3, PTL DEF SearchSpec

\* The columns' types and the state of a handler.
THEOREM SearchTypes == SearchSpec => []SearchTypeOK
  BY SearchAlways, PTL

\* After every change the comment of indexability.service.ts lists but suspension,
\* the stored flag is what the seller deserves by the rules of the moment, or
\* somebody is about to store it, unless the phone or the rules changed, a process
\* died, or a change came between what the last recompute read and what it stored.
THEOREM VerdictIsKept == SearchSpec => []NothingIsForgotten
  BY SearchAlways, PTL
================================================================================
