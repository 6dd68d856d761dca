----------------------------- MODULE Campaigns ------------------------------
(***************************************************************************)
(* Campaigns: links with a UTM slug that distributors and administrators   *)
(* keep, and the count of what became of the visitors they brought.  The   *)
(* slug is looked up before it is written and no constraint stands behind. *)
(***************************************************************************)
EXTENDS Service

CONSTANTS
    Owners,             \* distributors
    Managers,           \* administrators: they see every campaign
    Slugs, NoSlug,
    MaxCampaigns,       \* bound on the campaigns that are created
    Visitors

Actors == Owners \cup Managers

CampaignIds == 1..MaxCampaigns

Campaign == [owner : Actors, slug : Slugs, active : BOOLEAN]

NoCampaign == [owner |-> NoSlug]

\* What may become of a visitor.  The order of the funnel's steps is the
\* administrator's: nothing here says which comes first.
Facts == {"registered", "emailVerified", "paid", "yes"}

ASSUME CampaignsAssumption ==
    /\ NoSlug \notin Slugs /\ NoSlug \notin Actors /\ Owners \cap Managers = {}
    /\ MaxCampaigns \in Nat /\ IsFiniteSet(Visitors)

VARIABLES
    campaigns,      \* campaigns, numbered as they are created
    made,           \* campaigns ever created
    acquired,       \* user_acquisition: the slug a visitor registered with
    facts,          \* users and funnel_progress of the visitors
    raced           \* owners of whose campaigns two requests were under way at once

campaignVars == <<campaigns, made, acquired, facts, raced>>

Kept(k) == campaigns[k].owner # NoSlug

HasSlug(k, owner, slug) == campaigns[k].owner = owner /\ campaigns[k].slug = slug

WritingFor(owner) == \E h \in Handlers : "owner" \in DOMAIN call[h] /\ call[h].owner = owner

Race(owner) == IF WritingFor(owner) THEN raced \cup {owner} ELSE raced

FindOwnedCampaign(k, actor) == Kept(k) /\ (actor \in Managers \/ campaigns[k].owner = actor)

BeginCreateCampaign(h, actor, slug) ==
    /\ \A k \in CampaignIds : ~HasSlug(k, actor, slug)
    /\ Begin(h, [at |-> "newCampaign", owner |-> actor, slug |-> slug])
    /\ raced' = Race(actor)
    /\ UNCHANGED <<campaigns, made, acquired, facts>>

CreateCampaign(h) ==
    /\ call[h].at = "newCampaign"
    /\ End(h)
    /\ made < MaxCampaigns
    /\ made' = made + 1
    /\ campaigns' = [campaigns EXCEPT ![made + 1] =
           [owner |-> call[h].owner, slug |-> call[h].slug, active |-> TRUE]]
    /\ UNCHANGED <<acquired, facts, raced>>

\* Mutant: the new slug is looked for among the campaigns of who asks.
BeginUpdateCampaignOwn(h, k, actor, slug, active) ==
    /\ FindOwnedCampaign(k, actor)
    /\ slug # campaigns[k].slug => \A j \in CampaignIds \ {k} : ~HasSlug(j, actor, slug)
    /\ Begin(h, [at |-> "oldCampaign", owner |-> campaigns[k].owner, campaign |-> k, slug |-> slug, active |-> active])
    /\ raced' = Race(campaigns[k].owner)
    /\ UNCHANGED <<campaigns, made, acquired, facts>>

\* A slug that changes must be new among the campaigns of the owner.
BeginUpdateCampaign(h, k, actor, slug, active) ==
    /\ FindOwnedCampaign(k, actor)
    /\ slug # campaigns[k].slug =>
           \A j \in CampaignIds \ {k} : ~HasSlug(j, campaigns[k].owner, slug)
    /\ Begin(h, [at |-> "oldCampaign", owner |-> campaigns[k].owner, campaign |-> k, slug |-> slug, active |-> active])
    /\ raced' = Race(campaigns[k].owner)
    /\ UNCHANGED <<campaigns, made, acquired, facts>>

\* The row may be gone by now.
UpdateCampaign(h) ==
    LET c == call[h]
    IN  /\ c.at = "oldCampaign"
        /\ End(h)
        /\ \/ /\ Kept(c.campaign)
              /\ campaigns' = [campaigns EXCEPT ![c.campaign].slug = c.slug,
                                                ![c.campaign].active = c.active]
           \/ ~Kept(c.campaign) /\ UNCHANGED campaigns
        /\ UNCHANGED <<made, acquired, facts, raced>>

DeleteCampaign(k, actor) ==
    /\ AskOnce
    /\ FindOwnedCampaign(k, actor)
    /\ campaigns' = [campaigns EXCEPT ![k] = NoCampaign]
    /\ UNCHANGED <<made, acquired, facts, raced>>

----------------------------------------------------------------------------
(* The visitors *)

\* A visitor comes by a link, which registers him or finds him registered; the campaign
\* need not exist.  A slug replaces the one before.
Visit(v, slug) ==
    /\ AskOnce
    /\ facts' = [facts EXCEPT ![v] = @ \cup {"registered"}]
    /\ acquired' = [acquired EXCEPT ![v] = IF slug = NoSlug THEN @ ELSE slug]
    /\ UNCHANGED <<campaigns, made, raced>>

\* The other modules' business: the visitor verifies his mail, pays, decides.
Advance(v) ==
    /\ facts[v] # {}
    /\ \E f \in Facts \ facts[v] : facts' = [facts EXCEPT ![v] = @ \cup {f}]
    /\ UNCHANGED <<service, campaigns, made, acquired, raced>>

----------------------------------------------------------------------------
(* What the pages show *)

\* Mutant: the buyers are counted over all visitors.
GetCampaignAnalyticsAll(slug) ==
    LET users == {v \in Visitors : acquired[v] = slug}
    IN  [clicks |-> users,
         signups |-> {v \in users : "emailVerified" \in facts[v]},
         funnelCompletions |-> {v \in Visitors : "paid" \in facts[v]},
         conversions |-> {v \in users : "yes" \in facts[v]}]

\* By slug alone, whoever owns the campaign; the page shows how many they are.
GetCampaignAnalytics(slug) ==
    LET users == {v \in Visitors : acquired[v] = slug}
    IN  [clicks |-> users,
         signups |-> {v \in users : "emailVerified" \in facts[v]},
         funnelCompletions |-> {v \in users : "paid" \in facts[v]},
         conversions |-> {v \in users : "yes" \in facts[v]}]

GetCampaign(actor, k) ==
    IF FindOwnedCampaign(k, actor)
    THEN [found |-> TRUE, slug |-> campaigns[k].slug,
          analytics |-> GetCampaignAnalytics(campaigns[k].slug)]
    ELSE [found |-> FALSE]

----------------------------------------------------------------------------

CampaignInit ==
    /\ campaigns = [k \in CampaignIds |-> NoCampaign]
    /\ acquired = [v \in Visitors |-> NoSlug]
    /\ facts = [v \in Visitors |-> {}]
    /\ made = 0 /\ raced = {}

CampaignRoutes(h, actor) ==
    \/ \E slug \in Slugs : BeginCreateCampaign(h, actor, slug)
    \/ \E k \in CampaignIds :
           \/ \E slug \in Slugs, active \in BOOLEAN : BeginUpdateCampaign(h, k, actor, slug, active)
           \/ DeleteCampaign(k, actor)

DistributorCampaignRoutes(h) == \E actor \in Owners : CampaignRoutes(h, actor)

AdminCampaignRoutes(h) == \E actor \in Managers : CampaignRoutes(h, actor)

CampaignNext ==
    \/ \E h \in Handlers :
           \/ DistributorCampaignRoutes(h) \/ AdminCampaignRoutes(h)
           \/ CreateCampaign(h) \/ UpdateCampaign(h)
    \/ \E v \in Visitors :
           \/ \E slug \in Slugs \cup {NoSlug} : Visit(v, slug)
           \/ Advance(v)

\* The campaigns alone.
CampaignSpec ==
    /\ ServiceInit /\ CampaignInit
    /\ [][CampaignNext \/ ((DayPasses \/ Restart) /\ UNCHANGED campaignVars)]_<<service, campaignVars>>

----------------------------------------------------------------------------
(* What should hold *)

\* An owner none of whose requests met another has no slug twice, whoever edited
\* the campaigns (the slug is looked up and written in two steps).
SlugsDistinct ==
    \A j, k \in CampaignIds :
        j # k /\ Kept(j) /\ Kept(k) /\ campaigns[j].owner = campaigns[k].owner
            /\ campaigns[j].slug = campaigns[k].slug
        => campaigns[j].owner \in raced

\* Who looks at two campaigns of one owner, none of whose requests met another, finds
\* no visitor counted for both, though visitors come again by other links and slugs
\* are edited and given to new campaigns; and of neither more than its clicks.
CountedForOne ==
    \A actor \in Actors, j, k \in CampaignIds :
        LET one == GetCampaign(actor, j)
            other == GetCampaign(actor, k)
        IN  j # k /\ one.found /\ other.found /\ campaigns[j].owner = campaigns[k].owner
                /\ campaigns[j].owner \notin raced
            => \A f, g \in DOMAIN one.analytics :
                   /\ one.analytics[f] \cap other.analytics[g] = {}
                   /\ one.analytics[f] \subseteq one.analytics.clicks
=============================================================================
