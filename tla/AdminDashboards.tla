--------------------------- MODULE AdminDashboards ---------------------------
(***************************************************************************)
(* The screens of admin-dashboard and of the administration of mahu-web,   *)
(* as records of Screens (see TenantDashboard).  A tenant's fields have a  *)
(* control each: there a row is a field of a tenant.                       *)
(***************************************************************************)
EXTENDS TLC

None == "none"

Page(how) == [load |-> how, filters |-> FALSE, fails |-> "keep", busy |-> "own", does |-> {},
              then |-> "patch", answer |-> "row", create |-> FALSE, photo |-> FALSE, editor |-> None,
              saves |-> "row", second |-> None, closes |-> FALSE, follows |-> FALSE]

-----------------------------------------------------------------------------
(* admin-dashboard/lib/api.ts *)

TenantsApi == [answer |-> "nothing"]
AccountsApi == [answer |-> "nothing"]
PaymentConfigApi == [answer |-> "nothing"]
ConfigApi == [answer |-> "nothing"]
SubscriptionApi == [answer |-> "row"]
ProfileApi == [answer |-> "row"]

-----------------------------------------------------------------------------
(* The tenants *)

\* Each control of a tenant waits for its own call.
TenantActiveToggle == [does |-> {"patch"}, busy |-> "each"]
RateLimitEditor == [does |-> {"patch"}, busy |-> "each"]
BusinessTypeEditor == [does |-> {"patch"}, busy |-> "each"]
TenantDangerActions == [does |-> {"remove"}, busy |-> "each"]
TenantsTable ==
  [busy |-> "each", does |-> TenantActiveToggle.does \cup RateLimitEditor.does
                             \cup BusinessTypeEditor.does \cup TenantDangerActions.does]
CreateTenantForm == [create |-> TRUE]
TenantsPage == TenantsTable @@ CreateTenantForm @@ TenantsApi @@ Page("latest")

\* The profile's form is part of the page and shows the tenant answered.
TenantProfilePage == [editor |-> "page"] @@ ProfileApi @@ Page("once")

\* The price is saved, then the subscription read again, in one handler.
TenantSubscriptionPanel == [does |-> {"patch"}, busy |-> "all"] @@ SubscriptionApi @@ Page("once")

\* Saving and removing the keys load their status again; a status that cannot be
\* read is shown as keys that are not there.
TenantPaymentConfig ==
  [does |-> {"patch", "remove"}, busy |-> "all", then |-> "reload", fails |-> "empty"]
    @@ PaymentConfigApi @@ Page("guarded")

-----------------------------------------------------------------------------
(* Accounts, services, traffic *)

\* handleToggle returns while savingId is set.
AdminAccountsTable == [does |-> {"patch"}, busy |-> "all"]
CreateAdminAccountForm == [create |-> TRUE]
AdminAccountsPage == AdminAccountsTable @@ CreateAdminAccountForm @@ AccountsApi @@ Page("latest")

\* onSaved is the page's load, without a look at the one in flight.
ConfigKeyField == [does |-> {"patch"}, busy |-> "own", then |-> "reload"]
ServicesPage == ConfigKeyField @@ ConfigApi @@ Page("overlapping")

TrafficPage == Page("latest")
TenantTrafficPage == Page("latest")

-----------------------------------------------------------------------------
(* The administration of mahu-web: no button loads a list again *)

MahuStaffApi == [answer |-> "copy"]
ArticlesApi == [answer |-> "row"]

\* busyId: one row for the whole table.
ArticlesTable == [does |-> {"patch", "remove"}, busy |-> "last"]
MahuArticlesPage == ArticlesTable @@ ArticlesApi @@ Page("once")
MahuStaffTable == [does |-> {"patch"}, busy |-> "last"]
MahuNewStaffForm == [create |-> TRUE]
MahuEquipePage == MahuStaffTable @@ MahuNewStaffForm @@ MahuStaffApi @@ Page("once")
\* The form stays where it is: the route it goes on to is its own.
ArticleForm == [editor |-> "page"]
EditArticlePage == ArticleForm @@ ArticlesApi @@ Page("once")
StatsPage == Page("once")

AdminScreens ==
  {TenantsPage, TenantProfilePage, TenantSubscriptionPanel, TenantPaymentConfig,
   AdminAccountsPage, ServicesPage, TrafficPage, TenantTrafficPage,
   MahuArticlesPage, MahuEquipePage, EditArticlePage, StatsPage}
=============================================================================
