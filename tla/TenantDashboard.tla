--------------------------- MODULE TenantDashboard ---------------------------
(***************************************************************************)
(* The screens of tenant-dashboard as records of Screens: which pattern    *)
(* each page follows to load its list, and each table, form and modal to   *)
(* change it.  A page is put together from the records of its parts.       *)
(***************************************************************************)
EXTENDS TLC

None == "none"

Page(how) == [load |-> how, filters |-> FALSE, fails |-> "keep", busy |-> "own", does |-> {},
              then |-> "patch", answer |-> "row", create |-> FALSE, photo |-> FALSE, editor |-> None,
              saves |-> "row", second |-> None, closes |-> FALSE, follows |-> FALSE]

-----------------------------------------------------------------------------
(* lib/api.ts: what the calls that change a row answer; where they answer nothing,
   the row or the card lists the copy it was drawn with, changed *)

OrdersApi == [answer |-> "row"]
ProductsApi == [answer |-> "row"]
FabricsApi == [answer |-> "row"]
CustomersApi == [answer |-> "row"]
DomainsApi == [answer |-> "row"]
GalleryApi == [answer |-> "nothing"]
ReviewsApi == [answer |-> "copy"]
StaffApi == [answer |-> "copy"]

-----------------------------------------------------------------------------
(* Tables, cards and row controls *)

\* The select is disabled while its own call is in flight.
OrderStatusSelect == [busy |-> "own", does |-> {"patch"}]

\* Both lists of orders keep a copy of the orders they updated.
OrdersTable == OrderStatusSelect @@ [then |-> "override"]
OrdersCardList == OrderStatusSelect @@ [then |-> "override"]

\* pendingId, deletingId: one row for the whole table.
StaffTable == [busy |-> "last", does |-> {"patch"}]
StaffCardList == [busy |-> "last", does |-> {"patch"}]
GalleryGrid == [busy |-> "last", does |-> {"remove"}]

\* Publishing and deleting share the card's flag.
ReviewCard == [busy |-> "own", does |-> {"patch", "remove"}]

-----------------------------------------------------------------------------
(* Forms and modals *)

NewOrderForm == [create |-> TRUE]
NewProductForm == [create |-> TRUE, photo |-> TRUE]
NewFabricForm == [create |-> TRUE]
NewGalleryPhotoForm == [create |-> TRUE]
NewStaffForm == [create |-> TRUE]

\* onUpdated, then onClose.  The photos are sent as they are chosen; the save lists
\* the row answered, with the modal's own photos.
EditProductForm == [editor |-> "modal", closes |-> TRUE, saves |-> "copy", second |-> "upload"]
EditFabricForm == [editor |-> "modal", closes |-> TRUE]
\* onUpdated only: the list decides what the modal shows next.  The password has a
\* form of its own, and its call answers nothing.
EditCustomerForm == [editor |-> "modal", closes |-> FALSE, saves |-> "row", second |-> "password"]
EditOrderForm == [editor |-> "page"]

\* The list hands the answer on to its page, or edits the row answered.
ProductsTable == EditProductForm @@ [follows |-> FALSE]
ProductsCardList == EditProductForm @@ [follows |-> FALSE]
FabricsGallery == EditFabricForm @@ [follows |-> FALSE]
CustomerTable == EditCustomerForm @@ [follows |-> TRUE]
CustomerCardList == EditCustomerForm @@ [follows |-> TRUE]

-----------------------------------------------------------------------------
(* Pages *)

OrdersPageContent == OrdersTable @@ NewOrderForm @@ OrdersApi @@ Page("guarded")

\* handleStatusUpdated shows the answer and loads the order and its history again.
OrderDetailPage == [then |-> "both"] @@ OrderStatusSelect @@ EditOrderForm @@ OrdersApi @@ Page("guarded")

ClientsPageContent == CustomerTable @@ CustomersApi @@ Page("guarded")
EquipePageContent == StaffTable @@ NewStaffForm @@ StaffApi @@ Page("guarded")
CataloguePageContent == ProductsTable @@ NewProductForm @@ ProductsApi @@ Page("guarded")
TissusPageContent == FabricsGallery @@ NewFabricForm @@ FabricsApi @@ Page("guarded")
\* The category is a dependency of the effect that loads the photos.
GaleriePageContent == [filters |-> TRUE] @@ GalleryGrid @@ NewGalleryPhotoForm @@ GalleryApi @@ Page("guarded")
AvisPageContent == ReviewCard @@ ReviewsApi @@ Page("guarded")
TraficPage == Page("guarded")

\* Loaded when they are mounted; a domain registered or bought is put in the list.
MobileHome == Page("once")
SubscriptionSection == Page("once")
DomainSection == [create |-> TRUE] @@ DomainsApi @@ Page("once")

TenantScreens ==
  {OrdersPageContent, OrderDetailPage, ClientsPageContent, EquipePageContent,
   CataloguePageContent, TissusPageContent, GaleriePageContent, AvisPageContent,
   TraficPage, MobileHome, SubscriptionSection, DomainSection,
   OrdersCardList @@ NewOrderForm @@ OrdersApi @@ Page("guarded"),
   CustomerCardList @@ CustomersApi @@ Page("guarded"),
   StaffCardList @@ NewStaffForm @@ StaffApi @@ Page("guarded"),
   ProductsCardList @@ NewProductForm @@ ProductsApi @@ Page("guarded")}
=============================================================================
