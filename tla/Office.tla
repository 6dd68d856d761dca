------------------------------- MODULE Office -------------------------------
(***************************************************************************)
(* The desk, the campaigns, the offers and the reports in one server.      *)
(* They share the way a request is served, the days and the restarts, but  *)
(* here no table: a behaviour follows the requests to one of them.         *)
(***************************************************************************)
EXTENDS Desk, Campaigns, Offers, Reports

VARIABLE department     \* whose requests the behaviour follows

vars == <<service, deskVars, campaignVars, offerVars, reportVars, department>>

Init ==
    /\ ServiceInit /\ DeskInit /\ CampaignInit /\ OfferInit /\ ReportsInit
    /\ department \in {"desk", "campaigns", "offers", "reports"}
    /\ department = "reports" \/ \A u \in Clients : ~HasLead(u)

Next ==
    /\ UNCHANGED department
    /\ \/ department = "desk" /\ DeskNext /\ UNCHANGED <<campaignVars, offerVars, reportVars>>
       \/ department = "campaigns" /\ CampaignNext /\ UNCHANGED <<deskVars, offerVars, reportVars>>
       \/ department = "offers" /\ OfferNext /\ UNCHANGED <<deskVars, campaignVars, reportVars>>
       \/ department = "reports" /\ ReportsNext /\ UNCHANGED <<deskVars, campaignVars, offerVars>>
       \/ DayPasses /\ department # "reports"
              /\ UNCHANGED <<deskVars, campaignVars, offerVars, reportVars>>
       \/ Restart /\ UNCHANGED <<deskVars, campaignVars, offerVars, reportVars>>

Spec == Init /\ [][Next]_vars

\* The rows have their types.
TypeOK ==
    /\ today \in Nat /\ requests \in Nat
    /\ tasks \in [TaskIds -> Task \cup {NoTask}] /\ created \in Nat
    /\ notes \in [NoteIds -> Note \cup {NoNote}]
    /\ followups \subseteq People \X Days
    /\ shuffled \subseteq People
    /\ campaigns \in [CampaignIds -> Campaign \cup {NoCampaign}] /\ made \in Nat
    /\ acquired \in [Visitors -> Slugs \cup {NoSlug}]
    /\ facts \in [Visitors -> SUBSET Facts]
    /\ raced \subseteq Actors
    /\ plans \in [PlanIds -> Plan \cup {None}]
    /\ coupons \in [Coupons -> Coupon \cup {None, Gone}]
    /\ uses \in [Coupons -> SUBSET Users]
    /\ leadOf \in [Clients -> Lead \cup {NoLeadRow}]
    /\ acquisition \in [Clients -> Acquisition \cup {NoAcquisition}]
    /\ orders \cup payments \subseteq Payment /\ activities \subseteq Activity
    /\ verified \cup past \cup paid \subseteq Clients /\ distributors \subseteq Referrers

\* The rows have their types; an owner has no slug twice and one plan is active: what
\* is looked up before it is written and has no constraint behind it.
OneOfEach == TypeOK /\ SlugsDistinct /\ OneActivePlan

\* The uses of limited coupons are counted and kept.
CouponLedger == UsesCounted /\ KnownUsesKept

\* What is listed is listed once, in its place, and by the rules that are applied.
ListsAreRight ==
    /\ CalendarShowsOnce /\ RemindedOnce /\ BoardInOrder
    /\ CountedForOne
    /\ PreviewKeepsItsWord

\* The pages of distributors and of the administrator count the same users.  (Their
\* tables, and those of the properties below, are those of no clients elsewhere.)
PagesSound == department = "reports" => PagesAgree /\ StageListsAgree /\ SourcesAddUp

\* Charts and cached reports add up.
ReportsAddUp == department = "reports" => ChartsCover /\ ReportAddsUp

\* Who is told of the follow-ups of a lead, before and after it is handed over.
FollowupsReach == department = "reports" => FollowupsTold
=============================================================================
