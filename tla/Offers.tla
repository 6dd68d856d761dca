------------------------------- MODULE Offers -------------------------------
(***************************************************************************)
(* What the administrator offers: the plans of the distributors, of which  *)
(* one is to be active, and coupons, which are limited, expire, and are    *)
(* redeemed inside the transactions of the orders.  Each plan and coupon   *)
(* is read by one query and written by another.                            *)
(***************************************************************************)
EXTENDS Service

CONSTANTS
    PlanIds, Amounts,
    Coupons,            \* the codes
    Users,
    Values,             \* what a flat or percent coupon takes off
    Limits, Unlimited,  \* usage limits
    PerUserLimits,      \* how often one user may use a coupon
    Never               \* no expiry

Plan == [amount : Amounts, active : BOOLEAN]

\* used: usedCount.
Coupon == [type : {"FLAT", "PERCENT", "FREE"}, value : Values, limit : Limits \cup {Unlimited},
           perUser : PerUserLimits, used : Nat, expires : Nat \cup {Never}, active : BOOLEAN]

ASSUME OffersAssumption ==
    /\ Values \subseteq Nat /\ Limits \subseteq Nat \ {0}
    /\ Unlimited \notin Nat /\ Never \notin Nat /\ Never # Unlimited

VARIABLES
    plans,          \* distributor_plans
    planRaces,      \* two requests about plans were under way at once
    coupons,        \* coupons
    uses,           \* coupon_uses: the users of each coupon
    bounded,        \* coupons that have had a limit since they were created
    highest,        \* the highest limit a coupon has had
    erased          \* uses deleted with their coupon: <<coupon, user, known>>,
                    \* known when it was there as the deletion was asked for

planVars == <<plans, planRaces>>
couponVars == <<coupons, uses, bounded, highest, erased>>
offerVars == <<planVars, couponVars>>

None == [amount |-> Never, type |-> Never]

Planned(p) == plans[p] # None

\* A code that is created again after its deletion is another coupon.
Gone == [amount |-> Never, type |-> Unlimited]

Offered(c) == coupons[c] \notin {None, Gone}

\* What is offered to who subscribes.
GetActivePlans == {p \in PlanIds : Planned(p) /\ plans[p].active}

PlanRace == planRaces \/ \E h \in Handlers : "plan" \in DOMAIN call[h]

----------------------------------------------------------------------------
(* Plans *)

\* An amount that an active plan has is refused.
BeginCreatePlan(h, p, amount) ==
    /\ ~Planned(p) /\ \A g \in Handlers : "plan" \in DOMAIN call[g] => call[g].plan # p
    /\ \A q \in GetActivePlans : plans[q].amount # amount
    /\ Begin(h, [at |-> "findPlan", plan |-> p, amount |-> amount])
    /\ planRaces' = PlanRace
    /\ UNCHANGED <<plans, couponVars>>

BeginActivatePlan(h, p) ==
    /\ Planned(p) /\ ~plans[p].active
    /\ Begin(h, [at |-> "findPlan", plan |-> p, amount |-> plans[p].amount])
    /\ planRaces' = PlanRace
    /\ UNCHANGED <<plans, couponVars>>

\* The transaction looks for one active plan, ...
FindActivePlan(h) ==
    LET c == call[h]
    IN  /\ c.at = "findPlan"
        /\ \E old \in IF GetActivePlans = {} THEN {Never} ELSE GetActivePlans :
               Then(h, [at |-> "storePlan", plan |-> c.plan, amount |-> c.amount, old |-> old])
        /\ UNCHANGED offerVars

\* Mutant: the plan that was active stays so.
StorePlanBeside(h) ==
    LET c == call[h]
    IN  /\ c.at = "storePlan"
        /\ End(h)
        /\ plans' = [plans EXCEPT ![c.plan] = [amount |-> c.amount, active |-> TRUE]]
        /\ UNCHANGED <<planRaces, couponVars>>

\* ... switches it off and stores the new one.
StorePlan(h) ==
    LET c == call[h]
    IN  /\ c.at = "storePlan"
        /\ End(h)
        /\ plans' = [p \in PlanIds |->
               IF p = c.plan THEN [amount |-> c.amount, active |-> TRUE]
               ELSE IF p = c.old THEN [plans[p] EXCEPT !.active = FALSE]
               ELSE plans[p]]
        /\ UNCHANGED <<planRaces, couponVars>>

DeactivatePlan(p) ==
    /\ AskOnce
    /\ Planned(p)
    /\ plans' = [plans EXCEPT ![p].active = FALSE]
    /\ UNCHANGED <<planRaces, couponVars>>

----------------------------------------------------------------------------
(* Coupons *)

\* FREE and 90 percent or more.
IsHighDiscount(type, value) == type = "FREE" \/ (type = "PERCENT" /\ value >= 90)

\* Such a coupon needs a limit, of at most 1000, and an expiry.
CreateCoupon(c, type, value, limit, perUser, expires) ==
    /\ AskOnce
    /\ coupons[c] = None
    /\ expires # Never => expires > today
    /\ IsHighDiscount(type, value) => limit # Unlimited /\ limit <= 1000 /\ expires # Never
    /\ coupons' = [coupons EXCEPT ![c] =
           [type |-> type, value |-> value, limit |-> limit, perUser |-> perUser, used |-> 0,
            expires |-> expires, active |-> TRUE]]
    /\ bounded' = IF limit = Unlimited THEN bounded \ {c} ELSE bounded \cup {c}
    /\ highest' = [highest EXCEPT ![c] = IF limit = Unlimited THEN 0 ELSE limit]
    /\ UNCHANGED <<planVars, uses, erased>>

Expired(c) == coupons[c].expires # Never /\ coupons[c].expires <= today

\* A field is sent: active, expires or limit.
BeginUpdateCoupon(h, c, change) ==
    /\ Offered(c)
    /\ "expires" \in DOMAIN change => change.expires \notin 0..today
    /\ "active" \in DOMAIN change /\ change.active => ~Expired(c)
    /\ Begin(h, [at |-> "coupon", coupon |-> c, change |-> change, row |-> coupons[c]])
    /\ UNCHANGED offerVars

\* Mutant: the whole row that was read is written back.
UpdateCouponStale(h) ==
    LET c == call[h].coupon
        change == call[h].change
        row == call[h].row
    IN  /\ call[h].at = "coupon"
        /\ End(h)
        /\ \/ /\ Offered(c)
              /\ coupons' = [coupons EXCEPT ![c] =
                     [f \in DOMAIN row |-> IF f \in DOMAIN change THEN change[f] ELSE row[f]]]
              /\ highest' = [highest EXCEPT ![c] =
                     IF "limit" \in DOMAIN change /\ change.limit \in Nat /\ change.limit > @
                     THEN change.limit ELSE @]
              /\ bounded' = IF "limit" \in DOMAIN change /\ change.limit = Unlimited
                            THEN bounded \ {c} ELSE bounded
           \/ ~Offered(c) /\ UNCHANGED <<coupons, highest, bounded>>
        /\ UNCHANGED <<planVars, uses, erased>>

\* Only the fields that were sent are written; a coupon deleted meanwhile is not.
UpdateCoupon(h) ==
    LET c == call[h].coupon
        change == call[h].change
        row == coupons[c]
    IN  /\ call[h].at = "coupon"
        /\ End(h)
        /\ \/ /\ Offered(c)
              /\ coupons' = [coupons EXCEPT ![c] =
                     [f \in DOMAIN row |-> IF f \in DOMAIN change THEN change[f] ELSE row[f]]]
              /\ highest' = [highest EXCEPT ![c] =
                     IF "limit" \in DOMAIN change /\ change.limit \in Nat /\ change.limit > @
                     THEN change.limit ELSE @]
              /\ bounded' = IF "limit" \in DOMAIN change /\ change.limit = Unlimited
                            THEN bounded \ {c} ELSE bounded
           \/ ~Offered(c) /\ UNCHANGED <<coupons, highest, bounded>>
        /\ UNCHANGED <<planVars, uses, erased>>

\* Mutant: a coupon that was used is deleted, too.
BeginDeleteCouponUsed(h, c) ==
    /\ Offered(c)
    /\ Begin(h, [at |-> "erase", coupon |-> c, known |-> uses[c]])
    /\ UNCHANGED offerVars

\* Whether the coupon was used is read off usedCount.
BeginDeleteCoupon(h, c) ==
    /\ Offered(c)
    /\ Begin(h, [at |-> IF coupons[c].used > 0 THEN "retire" ELSE "erase", coupon |-> c,
                 known |-> uses[c]])
    /\ UNCHANGED offerVars

\* A used coupon is switched off; one that was not goes, and its uses with it.
DeleteCoupon(h) ==
    LET c == call[h].coupon
    IN  /\ End(h)
        /\ \/ /\ call[h].at = "retire"
              /\ coupons' = IF Offered(c) THEN [coupons EXCEPT ![c].active = FALSE] ELSE coupons
              /\ UNCHANGED <<uses, erased>>
           \/ /\ call[h].at = "erase"
              /\ coupons' = [coupons EXCEPT ![c] = Gone]
              /\ uses' = [uses EXCEPT ![c] = {}]
              /\ erased' = erased \cup {<<c, u, u \in call[h].known>> : u \in uses[c]}
        /\ UNCHANGED <<planVars, bounded, highest>>

Usable(c) == Offered(c) /\ coupons[c].active /\ ~Expired(c)

\* Mutant: the preview still takes a coupon whose last use is gone.
ValidateCouponFull(c, u) ==
    /\ Usable(c)
    /\ coupons[c].limit = Unlimited \/ coupons[c].used <= coupons[c].limit
    /\ (IF u \in uses[c] THEN 1 ELSE 0) < coupons[c].perUser

\* The preview, which consumes nothing.
ValidateCoupon(c, u) ==
    /\ Usable(c)
    /\ coupons[c].limit = Unlimited \/ coupons[c].used < coupons[c].limit
    /\ (IF u \in uses[c] THEN 1 ELSE 0) < coupons[c].perUser

\* validateCouponInTx reads the coupon, ...
BeginRedeem(h, c, u) ==
    /\ Usable(c)
    /\ Begin(h, [at |-> "redeem", coupon |-> c, user |-> u, row |-> coupons[c]])
    /\ UNCHANGED offerVars

\* What the row that was read lets the transaction write: the use must be the
\* user's first, and the count below the limit that was read.
MayRedeem(row, c, u) ==
    /\ Offered(c) /\ u \notin uses[c]
    /\ row.limit # Unlimited => coupons[c].used < row.limit

\* ... stores the use and raises the count where there is a limit to keep, or the
\* transaction fails.
RedeemCoupon(h) ==
    LET c == call[h].coupon
        u == call[h].user
        row == call[h].row
    IN  /\ call[h].at = "redeem"
        /\ End(h)
        /\ \/ /\ MayRedeem(row, c, u)
              /\ uses' = [uses EXCEPT ![c] = @ \cup {u}]
              /\ coupons' = IF row.limit = Unlimited THEN coupons
                            ELSE [coupons EXCEPT ![c].used = @ + 1]
           \/ ~MayRedeem(row, c, u) /\ UNCHANGED <<uses, coupons>>
        /\ UNCHANGED <<planVars, bounded, highest, erased>>

----------------------------------------------------------------------------

OfferInit ==
    /\ plans = [p \in PlanIds |-> None]
    /\ planRaces = FALSE
    /\ coupons = [c \in Coupons |-> None]
    /\ uses = [c \in Coupons |-> {}]
    /\ bounded = {} /\ erased = {}
    /\ highest = [c \in Coupons |-> 0]

Expiries == 1..LastDay + 1

\* null is let through: it lifts a limit.
CouponChanges ==
    [active : BOOLEAN] \cup [expires : Expiries \cup {Never}] \cup [limit : Limits \cup {Unlimited}]

PlanRoutes(h) ==
    \E p \in PlanIds :
        \/ \E amount \in Amounts : BeginCreatePlan(h, p, amount)
        \/ BeginActivatePlan(h, p)
        \/ DeactivatePlan(p)

CouponRoutes(h) ==
    \E c \in Coupons :
        \/ \E type \in {"FLAT", "PERCENT", "FREE"}, value \in Values,
              limit \in Limits \cup {Unlimited}, perUser \in PerUserLimits,
              expires \in Expiries \cup {Never} :
               CreateCoupon(c, type, value, limit, perUser, expires)
        \/ \E change \in CouponChanges : BeginUpdateCoupon(h, c, change)
        \/ BeginDeleteCoupon(h, c)

OfferNext ==
    \/ \E h \in Handlers :
           \/ PlanRoutes(h) \/ CouponRoutes(h)
           \/ FindActivePlan(h) \/ StorePlan(h) \/ UpdateCoupon(h) \/ DeleteCoupon(h)
           \/ \E c \in Coupons, u \in Users : BeginRedeem(h, c, u)
           \/ RedeemCoupon(h)

\* The offers alone.
OfferSpec ==
    /\ ServiceInit /\ OfferInit
    /\ [][OfferNext \/ ((DayPasses \/ Restart) /\ UNCHANGED offerVars)]_<<service, offerVars>>

----------------------------------------------------------------------------
(* What should hold *)

\* At most one plan is active unless two requests about plans met (the plan that is
\* active is read by one query and switched off by another).
OneActivePlan == planRaces \/ Cardinality(GetActivePlans) <= 1

\* The count of a coupon that has always had a limit is the number of its users and
\* never above the highest limit it has had: edits, made from a row read before, do
\* not undo a use made meanwhile.
UsesCounted ==
    \A c \in bounded : Offered(c) =>
        /\ coupons[c].used = Cardinality(uses[c])
        /\ coupons[c].used <= highest[c]

\* Deleting a coupon with a limit erases no use that was there when it was asked for.
KnownUsesKept == \A e \in erased : e[1] \in bounded => ~e[3]

\* What the preview tells a user is what the transaction would do now, for a coupon
\* that each user may use once.
PreviewKeepsItsWord ==
    \A c \in Coupons, u \in Users : Offered(c) /\ coupons[c].perUser = 1 =>
        (ValidateCoupon(c, u) <=> Usable(c) /\ MayRedeem(coupons[c], c, u))
=============================================================================
