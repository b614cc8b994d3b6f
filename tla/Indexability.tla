------------------------------ MODULE Indexability ------------------------------
(***************************************************************************)
(* Whether search engines may index the pages of one seller                  *)
(* (index-eligibility.ts, indexability.service.ts), who recomputes it, and   *)
(* what a visitor is served from the tenant cache (resolve.ts).              *)
(*                                                                         *)
(* The verdict is stored in the write path: a handler changes the seller or  *)
(* the catalogue, then reads rules, seller and counts in queries of their    *)
(* own, stores what they come to, and purges the cached pages.  A job does   *)
(* the same every night for the sellers whose hooks were missed.             *)
(***************************************************************************)
EXTENDS Integers, FiniteSets, FiniteSetsExt

CONSTANTS
    Handlers,       \* handlers that run at once
    Nightly,        \* the recompute-indexability job
    RuleSets,       \* the rules an administrator may set
    DefaultRules,
    ProfileFacts,   \* what the profile form may change here
    ContentFacts,   \* what catalogue and moderation may change here
    Given,          \* what holds of the seller from the start
    MaxChanges      \* bound on changes and on processes that die, together

Counts == {"products", "services", "clear"}
Facts == Counts \cup {"verified", "phone", "active", "published", "name", "description",
                      "image", "location", "contact", "address"}

ASSUME IndexabilityAssumption ==
    /\ Nightly \notin Handlers
    /\ DefaultRules \in RuleSets /\ RuleSets \subseteq [required : SUBSET Facts, minScore : 0 .. 100]
    /\ ProfileFacts \subseteq Facts \ Counts /\ ContentFacts \subseteq Counts /\ Given \subseteq Facts
    /\ MaxChanges \in Nat

VARIABLES
    status,     \* Seller.status; SUSPENDED stands for BANNED too
    facts,      \* what of Facts \ {"active"} holds of seller, owner and catalogue
    hidden,     \* Seller.seoNoindex
    tier,       \* Seller.webPresence
    rules,      \* the Setting row
    indexable,  \* SellerWebsite.indexable, which score and reason explain
    page,       \* the cached row of the tenant
    fill,       \* a visitor's request that has read the row and not cached it yet
    act,        \* the handlers and the job in progress
    missed,     \* history: why the verdict may be wrong with nobody about to store another
    crossed,    \* history: recomputes that something changed under
    changes

row == <<status, facts, hidden, tier, rules>>
histories == <<missed, crossed>>
searchVars == <<row, indexable, page, fill, act, histories, changes>>

Actors == Handlers \cup {Nightly}
Statuses == {"PENDING_VERIFICATION", "VERIFIED", "SUSPENDED", "REJECTED"}
Tiers == {"CATALOGUE", "SUBDOMAIN"}
Reasons == {"suspension", "rejection", "phone", "rules", "crossing", "death"}
Missing == [status |-> "missing"]
Snapshot == [status |-> status, tier |-> tier, indexable |-> indexable]
Snapshots == [status : Statuses, tier : Tiers, indexable : BOOLEAN]

NoAct == [next |-> "idle"]
Recomputing == {"rules", "seller", "counts", "write"}
Reading == [next : {"release", "flip", "purge"} \cup Recomputing, purge : BOOLEAN,
            rules : RuleSets, saw : SUBSET Facts, hidden : BOOLEAN, tier : Tiers,
            was : BOOLEAN, left : SUBSET Counts]

-----------------------------------------------------------------------------
(* evaluateEligibility.                                                     *)

Weight == [f \in Facts \cup {"catalogue"} |->
    CASE f = "description" -> 20
      [] f = "verified" -> 15
      [] f \in {"active", "published", "image", "contact", "catalogue"} -> 10
      [] f \in {"name", "location", "address"} -> 5
      [] OTHER -> 0]

\* EITHER bar clears the gate.
CatalogueOk(have) == have \cap {"products", "services"} # {}

\* The bars an administrator can switch off, and those that always stand.
Failures(have, q) ==
    {f \in q.required \cup {"name", "description"} : f \notin have}
    \cup (IF CatalogueOk(have) THEN {} ELSE {"catalogue"})

Score(have) ==
    MapThenSumSet(LAMBDA f : Weight[f], have \cup (IF CatalogueOk(have) THEN {"catalogue"} ELSE {}))

Eligible(have, q) == Failures(have, q) = {} /\ Score(have) >= q.minScore

\* A catalogue seller has no website to publish.
RulesFor(q, t) == IF t = "CATALOGUE" THEN [q EXCEPT !.required = @ \ {"published"}] ELSE q

\* An administrator can hide a seller whatever the gate says.
Verdict(have, q, noindex) == Eligible(have, q) /\ ~noindex

Active(s) == s # "SUSPENDED"
Having == facts \cup (IF Active(status) THEN {"active"} ELSE {})
Deserved == Verdict(Having, RulesFor(rules, tier), hidden)

SearchInit ==
    /\ status = "PENDING_VERIFICATION"
    /\ facts = Given
    /\ hidden = FALSE
    /\ tier = "CATALOGUE"
    /\ rules = DefaultRules
    /\ indexable = Deserved
    /\ page = Missing /\ fill = Missing
    /\ act = [a \in Actors |-> NoAct]
    /\ missed = {} /\ crossed = {}
    /\ changes = 0

ActAt(a, step) == act[a].next = step
Start(step, purge) ==
    [next |-> step, purge |-> purge, rules |-> DefaultRules, saw |-> {}, hidden |-> FALSE,
     tier |-> "CATALOGUE", was |-> FALSE, left |-> {}]
BeginAct(a, step, purge) == ActAt(a, "idle") /\ act' = [act EXCEPT ![a] = Start(step, purge)]
Owes(a) == act[a].next \in {"release"} \cup Recomputing
Go(a, step) == act' = [act EXCEPT ![a].next = step]
Readers == {a \in Actors : act[a].next \in {"seller", "counts", "write"}}
Crosses == crossed' = crossed \cup Readers
Change == changes < MaxChanges /\ changes' = changes + 1
Misses(reason) == missed' = missed \cup {reason}
Toggle(f) == IF f \in facts THEN facts \ {f} ELSE facts \cup {f}

-----------------------------------------------------------------------------
(* The handlers, up to what they leave to be recomputed.                    *)

\* updateSellerProfile and saveTrustStep; publishWebsite and unpublishWebsite.
updateSellerProfile(r, f) ==
    /\ Change /\ BeginAct(r, "rules", TRUE)
    /\ facts' = Toggle(f)
    /\ Crosses
    /\ UNCHANGED <<status, hidden, tier, rules, indexable, page, fill, missed>>

\* Mutant: a catalogue write leaves the gate to the night.
afterCatalogWrite_NoHook(r, f) ==
    /\ Change /\ BeginAct(r, "purge", TRUE)
    /\ facts' = Toggle(f)
    /\ Crosses
    /\ UNCHANGED <<status, hidden, tier, rules, indexable, page, fill, missed>>

\* A product or service created, edited, published, deleted or imported, or
\* moderated by an administrator, where it moves a count over a bar.
afterCatalogWrite(r, f) ==
    /\ Change /\ BeginAct(r, "rules", TRUE)
    /\ facts' = Toggle(f)
    /\ Crosses
    /\ UNCHANGED <<status, hidden, tier, rules, indexable, page, fill, missed>>

\* verifySeller, and reinstateSeller, which does not set verifiedAt.
verifySellerAction(r, first) ==
    /\ Change /\ BeginAct(r, "release", TRUE)
    /\ status' = "VERIFIED"
    /\ facts' = IF first THEN facts \cup {"verified"} ELSE facts
    /\ Crosses
    /\ UNCHANGED <<hidden, tier, rules, indexable, page, fill, missed>>

\* releasePendingContent: what waited for review now counts.
releaseContent(r, released) ==
    /\ ActAt(r, "release")
    /\ facts' = facts \cup released
    /\ Go(r, "rules")
    /\ Crosses
    /\ UNCHANGED <<status, hidden, tier, rules, indexable, page, fill, missed, changes>>

\* suspendSeller purges the pages and does not recompute, although the comment of
\* indexability.service.ts lists suspension.
suspendSellerAction(r) ==
    /\ Change /\ BeginAct(r, "purge", TRUE)
    /\ status' = "SUSPENDED"
    /\ Crosses /\ Misses("suspension")
    /\ UNCHANGED <<facts, hidden, tier, rules, indexable, page, fill>>

\* Neither does rejectSeller; no rule looks at REJECTED.
rejectSellerAction(r) ==
    /\ Change /\ BeginAct(r, "purge", TRUE)
    /\ status' = "REJECTED"
    /\ Crosses
    /\ IF Active(status) THEN UNCHANGED missed ELSE Misses("rejection")
    /\ UNCHANGED <<facts, hidden, tier, rules, indexable, page, fill>>

\* setSellerSeoNoindexAction: the pages are purged only if the verdict flips.
setSellerSeoNoindex(r) ==
    /\ Change /\ BeginAct(r, "rules", FALSE)
    /\ hidden' = ~hidden
    /\ Crosses
    /\ UNCHANGED <<status, facts, tier, rules, indexable, page, fill, missed>>

Purged == page' = Missing

\* recomputeWebPresence after a change of plan: purged first, recomputed after.
recomputeWebPresence(r, t) ==
    /\ t # tier
    /\ Change /\ BeginAct(r, "rules", FALSE)
    /\ tier' = t
    /\ Purged
    /\ Crosses
    /\ UNCHANGED <<status, facts, hidden, rules, indexable, fill, missed>>

\* markUserPhoneVerified and updateIndexEligibilityAction recompute nobody.
markUserPhoneVerified ==
    /\ Change /\ "phone" \notin facts
    /\ facts' = facts \cup {"phone"}
    /\ Crosses /\ Misses("phone")
    /\ UNCHANGED <<status, hidden, tier, rules, indexable, page, fill, act>>

updateIndexEligibility(q) ==
    /\ Change /\ q # rules
    /\ rules' = q
    /\ Crosses /\ Misses("rules")
    /\ UNCHANGED <<status, facts, hidden, tier, indexable, page, fill, act>>

\* recomputeIndexabilityJob, for this seller.
recomputeIndexabilityJob ==
    /\ status \in {"VERIFIED", "PENDING_VERIFICATION"}
    /\ BeginAct(Nightly, "rules", FALSE)
    /\ UNCHANGED <<row, indexable, page, fill, histories, changes>>

-----------------------------------------------------------------------------
(* recomputeIndexability.                                                   *)

Continue(a, next) ==
    act' = [act EXCEPT ![a] = IF next = "idle" \/ (next = "purge" /\ ~act[a].purge) THEN NoAct
                              ELSE Start(next, act[a].purge)]

getIndexEligibilityRules(a) ==
    /\ ActAt(a, "rules")
    /\ act' = [act EXCEPT ![a].next = "seller", ![a].rules = rules]
    /\ UNCHANGED <<row, indexable, page, fill, histories, changes>>

\* Seller, owner and website come in one query.
readSeller(a) ==
    /\ ActAt(a, "seller")
    /\ act' = [act EXCEPT ![a].next = "counts", ![a].saw = Having \ Counts, ![a].hidden = hidden,
                          ![a].tier = tier, ![a].was = indexable, ![a].left = Counts]
    /\ UNCHANGED <<row, indexable, page, fill, histories, changes>>

\* The three counts are sent at once and answered one by one.  Only those that
\* may change are worth a step of their own.
readCount(a) ==
    /\ ActAt(a, "counts")
    /\ \E f \in act[a].left \cap (IF act[a].left \cap ContentFacts = {} THEN Counts ELSE ContentFacts) :
          LET asked == IF f \in ContentFacts THEN {f} ELSE act[a].left IN
          act' = [act EXCEPT ![a].saw = @ \cup (asked \cap facts), ![a].left = @ \ asked,
                             ![a].next = IF act[a].left = asked THEN "write" ELSE "counts"]
    /\ UNCHANGED <<row, indexable, page, fill, histories, changes>>

Conclusion(a) == Verdict(act[a].saw, RulesFor(act[a].rules, act[a].tier), act[a].hidden)

\* The verdict is stored whatever changed meanwhile; the pages are purged where
\* it differs from the one that was read.
storeVerdict(a) ==
    /\ ActAt(a, "write")
    /\ indexable' = Conclusion(a)
    /\ missed' = IF a \in crossed THEN {"crossing"} ELSE {}
    /\ crossed' = crossed \ {a}
    /\ Continue(a, IF act[a].was # Conclusion(a) THEN "flip" ELSE "purge")
    /\ UNCHANGED <<row, page, fill, changes>>

\* revalidateIndexability.
revalidateIndexability(a) ==
    /\ ActAt(a, "flip")
    /\ Purged
    /\ Continue(a, "purge")
    /\ UNCHANGED <<row, indexable, fill, histories, changes>>

\* revalidateTenant.
revalidateTenant(a) ==
    /\ ActAt(a, "purge")
    /\ Purged
    /\ Continue(a, "idle")
    /\ UNCHANGED <<row, indexable, fill, histories, changes>>

handlerDies(a) ==
    /\ Change /\ ~ActAt(a, "idle")
    /\ act' = [act EXCEPT ![a] = NoAct]
    /\ crossed' = crossed \ {a}
    /\ IF Owes(a) THEN Misses("death") ELSE UNCHANGED missed
    /\ UNCHANGED <<row, indexable, page, fill>>

-----------------------------------------------------------------------------
(* Visitors: loadBySlug through unstable_cache.                             *)

readTenant ==
    /\ page = Missing /\ fill = Missing
    /\ fill' = Snapshot
    /\ UNCHANGED <<row, indexable, page, act, histories, changes>>

cacheTenant ==
    /\ fill # Missing
    /\ page' = fill /\ fill' = Missing
    /\ UNCHANGED <<row, indexable, act, histories, changes>>

\* TENANT_REVALIDATE_SECONDS.
expirePage ==
    /\ page # Missing /\ Purged
    /\ UNCHANGED <<row, indexable, fill, act, histories, changes>>

\* Mutant: the tier is looked at before the status.
resolveTenant_TierFirst(p) ==
    CASE p.tier = "CATALOGUE" -> "downgraded"
      [] p.status = "VERIFIED" -> "found"
      [] p.status = "SUSPENDED" -> "suspended"
      [] OTHER -> "not_found"

\* resolveTenant: what the cached row comes to.
resolveTenant(p) ==
    CASE p.status = "VERIFIED" -> IF p.tier = "CATALOGUE" THEN "downgraded" ELSE "found"
      [] p.status = "SUSPENDED" -> "suspended"
      [] OTHER -> "not_found"

\* The robots of the site; a downgraded seller's marketplace page reads the same flag.
Indexed(p) == resolveTenant(p) \in {"found", "downgraded"} /\ p.indexable

-----------------------------------------------------------------------------
Step(a) ==
    \/ getIndexEligibilityRules(a) \/ readSeller(a) \/ readCount(a) \/ storeVerdict(a)
    \/ revalidateIndexability(a) \/ revalidateTenant(a)
    \/ \E released \in SUBSET ContentFacts : releaseContent(a, released)

SearchNext ==
    \/ \E r \in Handlers :
          \/ \E f \in ProfileFacts \cup {"published"} : updateSellerProfile(r, f)
          \/ \E f \in ContentFacts : afterCatalogWrite(r, f)
          \/ \E first \in BOOLEAN : verifySellerAction(r, first)
          \/ suspendSellerAction(r) \/ rejectSellerAction(r) \/ setSellerSeoNoindex(r)
          \/ \E t \in Tiers : recomputeWebPresence(r, t)
    \/ markUserPhoneVerified
    \/ \E q \in RuleSets : updateIndexEligibility(q)
    \/ recomputeIndexabilityJob
    \/ \E a \in Actors : Step(a) \/ handlerDies(a)
    \/ readTenant \/ cacheTenant \/ expirePage

SearchSpec == SearchInit /\ [][SearchNext]_searchVars

\* Handlers that run come to an end, the job runs every night, visitors come and
\* cached rows expire after an hour.
FairSpec ==
    /\ SearchSpec
    /\ \A a \in Actors : WF_searchVars(Step(a))
    /\ WF_searchVars(recomputeIndexabilityJob)
    /\ WF_searchVars(cacheTenant) /\ WF_searchVars(expirePage)

-----------------------------------------------------------------------------
(* Properties.                                                              *)

\* The columns' types and the state of a handler.
SearchTypeOK ==
    /\ status \in Statuses /\ facts \subseteq Facts /\ hidden \in BOOLEAN /\ tier \in Tiers
    /\ rules \in RuleSets
    /\ indexable \in BOOLEAN
    /\ page \in Snapshots \cup {Missing} /\ fill \in Snapshots \cup {Missing}
    /\ act \in [Actors -> {NoAct} \cup Reading]
    /\ missed \subseteq Reasons /\ crossed \subseteq Actors /\ changes \in 0 .. MaxChanges

\* What the seller deserves, told without the evaluation: every bar that the rules
\* ask for is cleared, one of the two catalogue bars too, and no administrator
\* hides the seller.
Deserves ==
    /\ ~hidden
    /\ (RulesFor(rules, tier)).required \cup {"name", "description"} \subseteq Having
    /\ "products" \in facts \/ "services" \in facts
    /\ Score(Having) >= rules.minScore

\* "Recompute after: profile edits, product/service publish or unpublish,
\* verification changes, suspension, moderation decisions, website publish"
\* (indexability.service.ts), and a change of tier.  Of these the code leaves out
\* suspension, and rejection of a suspended seller; `missed` says so.  After all the
\* others the stored flag is what the seller deserves, or somebody is about to store
\* it, unless a process died, the phone or the rules changed, or the one who stored
\* it last was crossed by a change.
NothingIsForgotten ==
    \/ indexable = Deserves
    \/ missed # {}
    \/ \E a \in Actors : Owes(a)

\* The same of the comment's whole list, suspension too.  It does not hold:
\* suspendSeller recomputes nothing.
ListedChangesAreRecomputed ==
    \/ indexable = Deserves
    \/ missed \ {"suspension"} # {}
    \/ \E a \in Actors : Owes(a)

\* "A missed hook should cost at most a day of staleness, never a permanently
\* wrong answer" (recomputeIndexabilityJob), for the sellers the job looks at, and
\* through every cache: once the changes are over, a visitor of a verified seller
\* is served what the seller deserves, and a suspended or rejected seller's pages
\* are gone.
PagesComeRight ==
    <>[](page # Missing =>
            CASE status = "VERIFIED" ->
                    /\ resolveTenant(page) = IF tier = "CATALOGUE" THEN "downgraded" ELSE "found"
                    /\ Indexed(page) <=> Deserves
              [] status = "SUSPENDED" -> resolveTenant(page) = "suspended"
              [] OTHER -> ~Indexed(page))

\* The same of the stored flag itself, for whatever status the seller has.  The
\* job skips the suspended and the rejected, so it does not hold of them.
NeverPermanentlyWrong == <>[](indexable = Deserves)
================================================================================
