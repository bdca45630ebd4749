----------------------------- MODULE ClaimRules -----------------------------
(***************************************************************************)
(* The decisions of the RefManager (pkg/utils/controller/refmanager.go)    *)
(* that depend on data alone: what ClaimOwnedObjects does with one object, *)
(* and whether the owner may adopt.  The API calls that carry a decision   *)
(* out are actions of the modules that use these operators.                *)
(***************************************************************************)

CONSTANTS
    NoOwner,    \* "the object has no controller reference"
    Foreign     \* a controller other than any incarnation of our owner

ASSUME OwnerAssumption == NoOwner # Foreign

(* claimObject: obj has fields owner (the UID of its controller reference) *)
(* and del (deletionTimestamp set); me has uid and del; matches says       *)
(* whether the selector and the filters accept obj.                        *)
Claim(obj, me, matches) ==
    IF obj.owner # NoOwner
    THEN CASE obj.owner # me.uid                        -> "ignore"
           [] obj.owner = me.uid /\ matches             -> "claim"
           [] obj.owner = me.uid /\ ~matches /\ me.del  -> "ignore"
           [] OTHER                                     -> "release"
    ELSE IF me.del \/ ~matches \/ obj.del THEN "ignore" ELSE "adopt"

(* canAdopt: me is the owner the manager was built with, fresh what the    *)
(* second Get of the same key returns (uid 0: not found).                  *)
canAdopt(me, fresh) == fresh.uid = me.uid /\ ~fresh.del
=============================================================================
