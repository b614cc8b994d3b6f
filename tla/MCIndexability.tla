----------------------------- MODULE MCIndexability -----------------------------
(* Small instances of Indexability for TLC. *)
EXTENDS Indexability

CONSTANTS r1, r2, nightly

Switchable == {"verified", "phone", "active", "published", "image", "location", "contact",
               "address", "clear"}
Defaults == [required |-> Switchable, minScore |-> 60]
\* Without the website, and all of the score.
Strict == [required |-> Switchable \ {"published"}, minScore |-> 100]
BothRules == {Defaults, Strict}
AllGiven == Facts \ {"active", "verified", "published", "products", "services"}
NoPhone == AllGiven \ {"phone"}
================================================================================
