------------------------------ MODULE Screens -------------------------------
(***************************************************************************)
(* The component tree of the front end, as far as the server is concerned: *)
(* what each page, panel and dialog asks for while it is mounted, what it  *)
(* offers, and under which permission.                                     *)
(*                                                                         *)
(*   reads    queries mounted with the component                           *)
(*   acts     the requests its controls send, each under its gate          *)
(*   parts    components mounted inside it, each under its gate            *)
(*   opens    the dialogs it can put on top of the page                    *)
(*   links    the pages its links lead to                                  *)
(*   guarded  a dialog that cannot be dismissed while its request runs     *)
(*   then     what its controls do when the server has said yes: "closes"  *)
(*            the dialog, "stays", or the section whose list is opened     *)
(*                                                                         *)
(* Which of its own rows, fields and disabled states a component shows is  *)
(* left to any choice: every control it could offer is one it may offer.   *)
(***************************************************************************)
EXTENDS ServerState

Bare == [reads |-> {}, acts |-> {}, parts |-> {}, opens |-> {}, links |-> {},
         guarded |-> FALSE, then |-> "stays"]
Page(section, editing) == [section |-> section, editing |-> editing] @@ Bare
\* A form page saves and goes to the list of its section.
FormPage(section, editing) == [Page(section, editing) EXCEPT !.then = section]
Dialog(act) == [Bare EXCEPT !.acts = {<<act, Unguarded>>}, !.then = "closes"]
Guarded(dialog) == [dialog EXCEPT !.guarded = TRUE]

\* The same gate on each of several things.
Behind(gate, things) == {<<thing, gate>> : thing \in things}
Free(things) == Behind(Unguarded, things)
-----------------------------------------------------------------------------
(* The frame around every page *)
AppSidebar == [Bare EXCEPT !.parts = Free({"UserMenu"}),
  !.links = {<<section, "canVisit">> : section \in DOMAIN ListOf \cup {"users"}}]
UserMenu == [Bare EXCEPT !.reads = {"usePreferences"},
  !.parts = Behind("GET /locations", {"DefaultLocationMenu"})]
DefaultLocationMenu == [Bare EXCEPT !.reads = {"usePreferences", "useLocations"},
  !.acts = Free({"useSetDefaultLocation"})]

(* Invoices *)
InvoicesPage == [Page("invoices", FALSE) EXCEPT
  !.reads = {"useInvoices", "useMaterials", "useLocations"},
  !.parts = Free({"InvoiceColumns", "InvoiceOrderBreakdown"}),
  !.opens = Free({"NotificationDialog", "CollectInvoiceDialog", "RecordPaymentDialog"}),
  !.links = Free({"InvoiceNewPage"})]
InvoiceColumns == [Bare EXCEPT !.reads = {"useUsers"},
  !.acts = Free({"printInvoiceDocument"}),
  !.links = Free({"InvoiceDetailPage", "InvoiceEditPage"})]
InvoiceOrderBreakdown == [Bare EXCEPT !.reads = {"useOrders"},
  !.links = Free({"OrderDetailPage"})]
CollectInvoiceDialog == Dialog("useCollectInvoice")
RecordPaymentDialog == Guarded(Dialog("useRecordPayment"))

InvoiceDetailPage == [Page("invoices", FALSE) EXCEPT
  !.reads = {"useInvoice", "useReturns", "useUsers"},
  !.acts = Free({"printInvoiceDocument"}),
  !.parts = Free({"InvoiceReadinessControls", "NotificationHistory",
                  "InvoiceLines", "ReturnsPanel", "RefundPendingCreditAction",
                  "InvoicePaymentHistory"}),
  !.opens = Free({"NotificationDialog", "CollectInvoiceDialog", "RecordPaymentDialog"}),
  !.links = Free({"InvoiceEditPage"}) \cup {<<"invoices", Unguarded>>}]
InvoiceLines == [Bare EXCEPT !.links = Free({"OrderDetailPage"})]
InvoicePaymentHistory == [Bare EXCEPT !.reads = {"useUsers"},
  !.links = Free({"OrderDetailPage"})]
NotificationHistory == [Bare EXCEPT
  !.reads = {"useNotificationHistory", "useNotificationSends", "useNotificationDelivery"},
  !.opens = Free({"NotificationDialog"})]
ReturnsPanel == [Bare EXCEPT !.reads = {"useReturns", "useUsers"},
  !.opens = Behind("POST /invoices/:id/returns", {"ReturnDialog"})]
RefundPendingCreditAction == [Bare EXCEPT
  !.opens = Behind("POST /invoices/:id/refunds", {"RefundDialog"})]
RefundDialog == Guarded(Dialog("useCreateRefund"))
ReturnDialog == [Guarded(Dialog("useCreateReturn")) EXCEPT
  !.reads = {"restockLocations"}]
InvoiceReadinessControls == [Bare EXCEPT
  !.opens = Behind("POST /invoices/:id/ready", {"InvoiceReadinessDialog"})
              \cup Behind("POST /invoices/:id/notifications", {"NotificationDialog"})]
InvoiceReadinessDialog == Dialog("confirmInvoice")
\* It discards its preview when it goes, and stays when the message is queued.
NotificationDialog == [Bare EXCEPT !.reads = {"useNotificationDocument"},
  !.acts = Free({"usePrepareNotification", "useSelectNotificationRecipients",
                 "useDiscardNotificationPreview", "useSendNotification"}),
  !.guarded = TRUE]

(* The invoice form.  Creating an invoice shows the cards it sold, then the *)
(* notification, and leaves for the list when that is closed.              *)
InvoiceForm == [Bare EXCEPT
  !.reads = {"usePricing", "useInvoiceLocationDefault", "soldFrom"},
  !.parts = Free({"CustomerBlock", "OrderBlock", "MaterialBlock", "ProductBlock",
                  "RedemptionBlock", "InvoiceSummary"}),
  !.opens = Free({"SendGiftCardDialog", "NotificationDialog"}),
  !.links = {<<"invoices", Unguarded>>}]
InvoiceNewPage == [Page("invoices", TRUE) EXCEPT !.parts = Free({"InvoiceForm"}),
  !.acts = Free({"useCreateInvoice"})]
InvoiceEditPage == [Page("invoices", TRUE) EXCEPT !.reads = {"useInvoiceEdit"},
  !.parts = Free({"InvoiceForm"}), !.acts = Free({"useUpdateInvoice"})]
CustomerBlock == [Bare EXCEPT !.reads = {"invoiceCustomer"}]
OrderBlock == [Bare EXCEPT
  !.reads = {"useDesignOptions", "usePreferences", "useInvoiceLocationDefault",
             "useLocation", "materialPricing", "usePricing",
             "invoiceOrderMaterial", "invoiceProductionBranch"}]
MaterialBlock == [Bare EXCEPT !.reads = {"usePreferences", "invoiceMaterial"}]
ProductBlock == [Bare EXCEPT !.reads = {"invoiceProduct"}]
RedemptionBlock == [Bare EXCEPT !.reads = {"useGiftCardByCode"}]
InvoiceSummary == [Bare EXCEPT
  !.reads = {"useInvoiceLocationDefault", "invoiceIssuingBranch",
             "invoiceReceivingBranch", "invoiceSummaryCustomer"}]

(* Orders and repairs *)
OrdersPage == [Page("orders", FALSE) EXCEPT
  !.reads = {"useOrders", "useInventory", "useOrderStages", "useLocations"},
  !.parts = Free({"OrderColumns"})]
OrderColumns == [Bare EXCEPT
  !.opens = Behind("POST /orders/:id/collect", {"CollectOrderDialog"}),
  !.links = Free({"OrderDetailPage"}) \cup Behind("GET /invoices", {"InvoiceDetailPage"})]
CollectOrderDialog == Dialog("useCollectOrder")
OrderDetailPage == [Page("orders", FALSE) EXCEPT
  !.reads = {"useOrder", "useDesignOptions", "useUsers"},
  !.acts = Free({"printOrderDocument"}),
  !.parts = Free({"OrderReadinessControls", "OrderTrackingPanel"})
              \cup Behind("POST /orders/:id/cancel", {"OrderResolutionActions"}),
  !.opens = Behind("POST /orders/:id/collect", {"CollectOrderDialog"}),
  !.links = {<<"orders", Unguarded>>} \cup Behind("GET /invoices/:id", {"InvoiceDetailPage"})]
OrderReadinessControls == [Bare EXCEPT !.reads = {"useUsers"},
  !.opens = Behind("POST /orders/:id/ready", {"OrderReadinessDialog"})
              \cup Behind("POST /orders/:id/reopen", {"ReopenDialog"})
              \cup Behind("POST /invoices/:id/notifications", {"NotificationDialog"})]
OrderReadinessDialog == Dialog("confirmOrder")
ReopenDialog == Dialog("reopenOrder")
OrderResolutionActions == [Bare EXCEPT !.reads = {"useReturns", "useCancellation"},
  !.opens = Free({"ReturnDialog", "CancelOrderDialog"})]
CancelOrderDialog == Guarded(Dialog("useCancelOrder"))
OrderTrackingPanel == [Bare EXCEPT
  !.parts = Free({"ProductionLocationPicker", "StageRow", "RepairsSection"})]
ProductionLocationPicker == [Bare EXCEPT
  !.reads = {"usePreferences", "productionLocationPicker"},
  !.acts = Free({"useUpdateOrder"})]
\* Mutant: the checkbox is offered to whoever sees the row.
StageRowUngated == [Bare EXCEPT
  !.parts = Behind("PUT /orders/:id/stages/:stageId/assignee", {"AssigneePicker"}),
  !.acts = Free({"useSetOrderStage"})]
StageRow == [Bare EXCEPT
  !.parts = Behind("PUT /orders/:id/stages/:stageId/assignee", {"AssigneePicker"}),
  !.acts = Behind("POST /orders/:id/stages/:stageId", {"useSetOrderStage"})]
AssigneePicker == [Bare EXCEPT !.reads = {"useUsers"}, !.acts = Free({"useSetAssignee"})]
RepairsSection == [Bare EXCEPT !.parts = Free({"RepairCard"}),
  !.opens = Behind("POST /orders/:id/repairs", {"LogRepairDialog"})]
LogRepairDialog == Dialog("useCreateRepair")
\* Staff of the shop cancel a repair, the workshop starts and finishes it.
RepairCard == [Bare EXCEPT
  !.acts = Behind("sales", {"useUpdateRepair"})
             \cup Behind("production", {"useUpdateRepair"})
             \cup Free({"printRepairDocument"}),
  !.opens = Behind("POST /orders/:id/repairs/:repairId/receive", {"ReceiveRepairDialog"})]
ReceiveRepairDialog == Dialog("useReceiveRepair")
RepairsPage == [Page("repairs", FALSE) EXCEPT !.reads = {"useRepairs"},
  !.parts = Free({"RepairColumns"}), !.acts = Free({"printRepairDocument"})]
RepairColumns == [Bare EXCEPT !.links = Free({"OrderDetailPage"}),
  !.opens = Behind("POST /orders/:id/repairs/:repairId/receive", {"ReceiveRepairDialog"})]

(* Customers *)
CustomersPage == [Page("customers", FALSE) EXCEPT !.reads = {"useCustomers"},
  !.parts = Free({"CustomerColumns"}), !.links = Free({"CustomerNewPage"})]
CustomerColumns == [Bare EXCEPT !.links = Free({"CustomerEditPage"}),
  !.opens = Free({"CustomerDetailsSheet"})]
CustomerDetailsSheet == [Bare EXCEPT
  !.links = Free({"CustomerEditPage", "InvoiceDetailPage"})]
CustomerNewPage == [FormPage("customers", TRUE) EXCEPT !.acts = Free({"useCreateCustomer"})]
CustomerEditPage == [FormPage("customers", TRUE) EXCEPT !.reads = {"useCustomer"},
  !.acts = Free({"useUpdateCustomer"})]

(* Inventory and products *)
InventoryPage == [Page("inventory", FALSE) EXCEPT
  !.reads = {"useInventory", "useLocations"},
  !.parts = Free({"InventoryColumns"}),
  !.opens = Behind("POST /materials", {"AddStockDialog"}) \cup Free({"InventoryDetailsSheet"})]
InventoryColumns == [Bare EXCEPT
  !.opens = Behind("PATCH /materials/:id", {"AddStockDialog", "EditMaterialDialog",
                                            "TransferStockDialog", "RemoveStockDialog"})]
InventoryDetailsSheet == Bare
AddStockDialog == [Dialog("useAddStock") EXCEPT
  !.reads = {"inventoryMaterialPicker", "usePreferences"}, !.parts = Free({"StockEntryRow"})]
StockEntryRow == [Bare EXCEPT !.reads = {"usePreferences", "stockEntryLocations"}]
EditMaterialDialog == Dialog("useUpdateMaterial")
TransferStockDialog == Dialog("useTransferStock")
RemoveStockDialog == Dialog("useRemoveStock")

ProductsPage == [Page("products", FALSE) EXCEPT !.reads = {"useProducts", "useLocations"},
  !.parts = Free({"ProductColumns"}),
  !.links = Behind("POST /products", {"ProductNewPage"})]
ProductColumns == [Bare EXCEPT
  !.acts = Behind("PATCH /products/:id", {"useUpdateProduct"}),
  !.links = Behind("PATCH /products/:id", {"ProductEditPage"})]
ProductNewPage == [FormPage("products", TRUE) EXCEPT !.acts = Free({"useCreateProduct"}),
  !.parts = Free({"StockEntryRow"})]
ProductEditPage == [FormPage("products", TRUE) EXCEPT !.reads = {"useProduct"},
  !.acts = Free({"useUpdateProduct"}), !.parts = Free({"StockEntryRow"})]

(* Gift cards *)
GiftCardsPage == [Page("gift-cards", FALSE) EXCEPT !.reads = {"useGiftCards", "useUsers"},
  !.acts = Free({"useDownloadGiftCardImage"}),
  !.parts = Free({"GiftCardColumns"}), !.links = Free({"GiftCardNewPage"})]
GiftCardColumns == [Bare EXCEPT
  !.acts = Behind("PATCH /gift-cards/:id", {"useUpdateGiftCard"}),
  !.opens = Behind("PATCH /gift-cards/:id", {"GiftCardRecipientDialog"})
              \cup Behind("POST /gift-cards/:id/replace", {"ReplaceGiftCardDialog"})
              \cup Free({"SendGiftCardDialog"}),
  !.links = Free({"GiftCardDetailPage"})]
GiftCardRecipientDialog == Guarded(Dialog("useUpdateGiftCard"))
SendGiftCardDialog == [Guarded(Dialog("useSendGiftCard")) EXCEPT
  !.reads = {"useGiftCardPreview"}]
\* It shows the new card before it is closed by hand.
ReplaceGiftCardDialog == [Guarded(Dialog("useReplaceGiftCard")) EXCEPT !.then = "stays"]
GiftCardNewPage == [FormPage("gift-cards", TRUE) EXCEPT !.reads = {"giftCardCustomers"},
  !.acts = Free({"useCreateGiftCard"})]
GiftCardDetailPage == [Page("gift-cards", FALSE) EXCEPT
  !.reads = {"useGiftCardByCode", "useUsers"},
  !.opens = Behind("POST /gift-cards/:id/replace", {"ReplaceGiftCardDialog"}),
  !.links = Free({"GiftCardDetailPage"}) \cup {<<"gift-cards", Unguarded>>}]

(* Locations, the stage catalogue, the design catalogue and the directory *)
LocationsPage == [Page("locations", FALSE) EXCEPT !.reads = {"useLocations"},
  !.parts = Free({"LocationColumns"}),
  !.links = Behind("POST /locations", {"LocationNewPage"})]
LocationColumns == [Bare EXCEPT
  !.acts = Behind("PATCH /locations/:id", {"useUpdateLocation"}),
  !.links = Behind("PATCH /locations/:id", {"LocationEditPage"})]
LocationNewPage == [FormPage("locations", TRUE) EXCEPT !.acts = Free({"useCreateLocation"})]
LocationEditPage == [FormPage("locations", TRUE) EXCEPT !.reads = {"useLocation"},
  !.acts = Free({"useUpdateLocation"})]
OrderStagesPage == [Page("order-stages", FALSE) EXCEPT !.reads = {"useOrderStages"},
  !.parts = Free({"OrderStageColumns"}),
  !.links = Behind("POST /order-stages", {"OrderStageNewPage"})]
OrderStageColumns == [Bare EXCEPT
  !.acts = Behind("PATCH /order-stages/:id", {"useUpdateOrderStage"}),
  !.links = Behind("PATCH /order-stages/:id", {"OrderStageEditPage"})]
OrderStageNewPage == [FormPage("order-stages", TRUE) EXCEPT !.reads = {"useOrderStages"},
  !.acts = Free({"useCreateOrderStage"})]
OrderStageEditPage == [OrderStageNewPage EXCEPT !.acts = Free({"useUpdateOrderStage"})]
DesignOptionsPage == [Page("design-options", FALSE) EXCEPT !.reads = {"useDesignOptions"},
  !.parts = Free({"DesignOptionColumns"}),
  !.links = Behind("POST /design-options", {"DesignOptionNewPage"})]
DesignOptionColumns == [Bare EXCEPT
  !.acts = Behind("PATCH /design-options/:id", {"useUpdateDesignOption"}),
  !.links = Behind("PATCH /design-options/:id", {"DesignOptionEditPage"})]
DesignOptionNewPage == [FormPage("design-options", TRUE) EXCEPT
  !.reads = {"useDesignOptions"}, !.acts = Free({"useCreateDesignOption"})]
DesignOptionEditPage == [DesignOptionNewPage EXCEPT !.acts = Free({"useUpdateDesignOption"})]
UsersPage == [Page("users", FALSE) EXCEPT !.reads = {"useUsers"}]
-----------------------------------------------------------------------------
(* Everything by its name *)
QueryOf ==
  [useInvoices |-> useInvoices, useInvoice |-> useInvoice, useInvoiceEdit
   |-> useInvoiceEdit, useMaterials |-> useMaterials, usePricing |->
   usePricing, useInvoiceLocationDefault |-> useInvoiceLocationDefault,
   useReturns |-> useReturns, useCancellation |-> useCancellation, useOrders
   |-> useOrders, useOrder |-> useOrder, useRepairs |-> useRepairs,
   useCustomers |-> useCustomers, useCustomer |-> useCustomer, useInventory
   |-> useInventory, useProducts |-> useProducts, useProduct |-> useProduct,
   useLocations |-> useLocations, useLocation |-> useLocation,
   usePreferences |-> usePreferences, useOrderStages |-> useOrderStages,
   useDesignOptions |-> useDesignOptions, useUsers |-> useUsers,
   useGiftCards |-> useGiftCards, useGiftCardByCode |-> useGiftCardByCode,
   useGiftCardPreview |-> useGiftCardPreview, useNotificationHistory |->
   useNotificationHistory, useNotificationSends |-> useNotificationSends,
   useNotificationDelivery |-> useNotificationDelivery,
   useNotificationDocument |-> useNotificationDocument, materialPricing |->
   materialPricing, invoiceCustomer |-> invoiceCustomer,
   invoiceSummaryCustomer |-> invoiceSummaryCustomer, giftCardCustomers |->
   giftCardCustomers, invoiceMaterial |-> invoiceMaterial,
   invoiceOrderMaterial |-> invoiceOrderMaterial, inventoryMaterialPicker
   |-> inventoryMaterialPicker, invoiceProduct |-> invoiceProduct, soldFrom
   |-> soldFrom, invoiceIssuingBranch |-> invoiceIssuingBranch,
   invoiceReceivingBranch |-> invoiceReceivingBranch,
   invoiceProductionBranch |-> invoiceProductionBranch,
   productionLocationPicker |-> productionLocationPicker,
   stockEntryLocations |-> stockEntryLocations, restockLocations |->
   restockLocations]
MutationOf ==
  [useCreateInvoice |-> useCreateInvoice, useUpdateInvoice |->
   useUpdateInvoice, useCollectInvoice |-> useCollectInvoice,
   useRecordPayment |-> useRecordPayment, useCreateReturn |->
   useCreateReturn, useCreateRefund |-> useCreateRefund, useCancelOrder |->
   useCancelOrder, useCollectOrder |-> useCollectOrder, useCreateRepair |->
   useCreateRepair, useUpdateRepair |-> useUpdateRepair, useReceiveRepair
   |-> useReceiveRepair, useUpdateOrder |-> useUpdateOrder, useSetOrderStage
   |-> useSetOrderStage, useSetAssignee |-> useSetAssignee, confirmOrder |->
   confirmOrder, confirmInvoice |-> confirmInvoice, reopenOrder |->
   reopenOrder, printInvoiceDocument |-> printInvoiceDocument,
   printOrderDocument |-> printOrderDocument, printRepairDocument |->
   printRepairDocument, useCreateCustomer |-> useCreateCustomer,
   useUpdateCustomer |-> useUpdateCustomer, useAddStock |-> useAddStock,
   useRemoveStock |-> useRemoveStock, useTransferStock |-> useTransferStock,
   useUpdateMaterial |-> useUpdateMaterial, useCreateProduct |->
   useCreateProduct, useUpdateProduct |-> useUpdateProduct,
   useCreateLocation |-> useCreateLocation, useUpdateLocation |->
   useUpdateLocation, useSetDefaultLocation |-> useSetDefaultLocation,
   useCreateOrderStage |-> useCreateOrderStage, useUpdateOrderStage |->
   useUpdateOrderStage, useCreateDesignOption |-> useCreateDesignOption,
   useUpdateDesignOption |-> useUpdateDesignOption, useCreateGiftCard |->
   useCreateGiftCard, useUpdateGiftCard |-> useUpdateGiftCard,
   useReplaceGiftCard |-> useReplaceGiftCard, useSendGiftCard |->
   useSendGiftCard, useDownloadGiftCardImage |-> useDownloadGiftCardImage,
   usePrepareNotification |-> usePrepareNotification,
   useSelectNotificationRecipients |-> useSelectNotificationRecipients,
   useDiscardNotificationPreview |-> useDiscardNotificationPreview,
   useSendNotification |-> useSendNotification]
Component ==
  [AppSidebar |-> AppSidebar, UserMenu |-> UserMenu, DefaultLocationMenu |->
   DefaultLocationMenu, InvoicesPage |-> InvoicesPage, InvoiceColumns |->
   InvoiceColumns, InvoiceOrderBreakdown |-> InvoiceOrderBreakdown,
   CollectInvoiceDialog |-> CollectInvoiceDialog, RecordPaymentDialog |->
   RecordPaymentDialog, InvoiceDetailPage |-> InvoiceDetailPage,
   InvoiceLines |-> InvoiceLines, InvoicePaymentHistory |->
   InvoicePaymentHistory, NotificationHistory |-> NotificationHistory,
   ReturnsPanel |-> ReturnsPanel, RefundPendingCreditAction |->
   RefundPendingCreditAction, RefundDialog |-> RefundDialog, ReturnDialog
   |-> ReturnDialog, InvoiceReadinessControls |-> InvoiceReadinessControls,
   InvoiceReadinessDialog |-> InvoiceReadinessDialog, NotificationDialog |->
   NotificationDialog, InvoiceForm |-> InvoiceForm, InvoiceNewPage |->
   InvoiceNewPage, InvoiceEditPage |-> InvoiceEditPage, CustomerBlock |->
   CustomerBlock, OrderBlock |-> OrderBlock, MaterialBlock |->
   MaterialBlock, ProductBlock |-> ProductBlock, RedemptionBlock |->
   RedemptionBlock, InvoiceSummary |-> InvoiceSummary, OrdersPage |->
   OrdersPage, OrderColumns |-> OrderColumns, CollectOrderDialog |->
   CollectOrderDialog, OrderDetailPage |-> OrderDetailPage,
   OrderReadinessControls |-> OrderReadinessControls, OrderReadinessDialog
   |-> OrderReadinessDialog, ReopenDialog |-> ReopenDialog,
   OrderResolutionActions |-> OrderResolutionActions, CancelOrderDialog |->
   CancelOrderDialog, OrderTrackingPanel |-> OrderTrackingPanel,
   ProductionLocationPicker |-> ProductionLocationPicker, StageRow |->
   StageRow, AssigneePicker |-> AssigneePicker, RepairsSection |->
   RepairsSection, LogRepairDialog |-> LogRepairDialog, RepairCard |->
   RepairCard, ReceiveRepairDialog |-> ReceiveRepairDialog, RepairsPage |->
   RepairsPage, RepairColumns |-> RepairColumns, CustomersPage |->
   CustomersPage, CustomerColumns |-> CustomerColumns, CustomerDetailsSheet
   |-> CustomerDetailsSheet, CustomerNewPage |-> CustomerNewPage,
   CustomerEditPage |-> CustomerEditPage, InventoryPage |-> InventoryPage,
   InventoryColumns |-> InventoryColumns, InventoryDetailsSheet |->
   InventoryDetailsSheet, AddStockDialog |-> AddStockDialog, StockEntryRow
   |-> StockEntryRow, EditMaterialDialog |-> EditMaterialDialog,
   TransferStockDialog |-> TransferStockDialog, RemoveStockDialog |->
   RemoveStockDialog, ProductsPage |-> ProductsPage, ProductColumns |->
   ProductColumns, ProductNewPage |-> ProductNewPage, ProductEditPage |->
   ProductEditPage, GiftCardsPage |-> GiftCardsPage, GiftCardColumns |->
   GiftCardColumns, GiftCardRecipientDialog |-> GiftCardRecipientDialog,
   SendGiftCardDialog |-> SendGiftCardDialog, ReplaceGiftCardDialog |->
   ReplaceGiftCardDialog, GiftCardNewPage |-> GiftCardNewPage,
   GiftCardDetailPage |-> GiftCardDetailPage, LocationsPage |->
   LocationsPage, LocationColumns |-> LocationColumns, LocationNewPage |->
   LocationNewPage, LocationEditPage |-> LocationEditPage, OrderStagesPage
   |-> OrderStagesPage, OrderStageColumns |-> OrderStageColumns,
   OrderStageNewPage |-> OrderStageNewPage, OrderStageEditPage |->
   OrderStageEditPage, DesignOptionsPage |-> DesignOptionsPage,
   DesignOptionColumns |-> DesignOptionColumns, DesignOptionNewPage |->
   DesignOptionNewPage, DesignOptionEditPage |-> DesignOptionEditPage,
   UsersPage |-> UsersPage]
PageName == {c \in DOMAIN Component : "section" \in DOMAIN Component[c]}

\* What the roles may pass: a permission, a role asked for by name, or nothing.
Allows(roles, gate) ==
  IF gate \in Role THEN RoleGuard(roles, {gate}) ELSE PermissionGuard(roles, gate)
Passed(roles, gated) == {pair[1] : pair \in {p \in gated : Allows(roles, p[2])}}

\* A component with all that it mounts, four levels down at most.  (Joined to
\* the empty function so that TLC keeps the table it has computed.)
WithParts(roles, components) ==
  components \cup UNION {Passed(roles, Component[c].parts) : c \in components}
Subtree ==
  [roles \in SUBSET Role |->
     [component \in DOMAIN Component |->
        WithParts(roles, WithParts(roles, WithParts(roles,
          WithParts(roles, {component}))))] @@ <<>>] @@ <<>>
Inside ==
  [roles \in SUBSET Role |-> [component \in DOMAIN Component |->
     LET tree == Subtree[roles][component]
     IN  [reads |-> UNION {Component[c].reads : c \in tree},
          acts |-> UNION {Passed(roles, Component[c].acts) : c \in tree},
          opens |-> UNION {Passed(roles, Component[c].opens) : c \in tree}]] @@ <<>>] @@ <<>>

Visitable(roles, page) == CanVisit(roles, Component[page].section, Component[page].editing)
\* The list page of each section, where "/" and form pages lead.
ListPage ==
  "invoices" :> "InvoicesPage" @@ "orders" :> "OrdersPage" @@ "repairs" :> "RepairsPage"
  @@ "customers" :> "CustomersPage" @@ "inventory" :> "InventoryPage"
  @@ "products" :> "ProductsPage" @@ "gift-cards" :> "GiftCardsPage"
  @@ "locations" :> "LocationsPage" @@ "order-stages" :> "OrderStagesPage"
  @@ "design-options" :> "DesignOptionsPage" @@ "users" :> "UsersPage"

\* What the pages offer and the tables name exists, for every set of roles.
ASSUME TablesAreWhole ==
  /\ \A section \in DOMAIN ListPage : ListPage[section] \in PageName
  /\ \A roles \in SUBSET Role, component \in DOMAIN Component :
       Inside[roles][component].acts \subseteq DOMAIN MutationOf
  /\ \A mutation \in DOMAIN MutationOf :
       /\ Len(MutationOf[mutation].sends) \in 1..2
       /\ DOMAIN MutationOf[mutation].sends = 1..Len(MutationOf[mutation].sends)
       /\ DOMAIN MutationOf[mutation].writes = DOMAIN MutationOf[mutation].sends
=============================================================================
