---------------------------- MODULE ServerState -----------------------------
(***************************************************************************)
(* The front end's hooks: what each query reads from the server, and what  *)
(* each mutation changes there and then marks for re-reading.              *)
(*                                                                         *)
(* A query is cached under a key.  Its first segment is the family; an     *)
(* invalidation names a family and reaches every key below it, so lists,   *)
(* details and sub-resources of a family are refreshed together.  What a   *)
(* query shows and what a mutation changes are sets of subjects:           *)
(*   roster, people      which customers there are; their names and numbers *)
(*   sizes               their measurements                                *)
(*   sale                an invoice's lines, with the names, the cards' codes *)
(*                       and the measurements they were saved with         *)
(*   paid, givenBack     its payments; its credits and refunds             *)
(*   handover, ready     collected, cancelled or returned; confirmed ready *)
(*   progress, workshop  stages done and assigned; where a garment is made *)
(*   checklist, repairs  the stage catalogue; the repairs of garments      *)
(*   materials, stock    fabrics and their quantities                      *)
(*   goods, goodsStock   products and their quantities                     *)
(*   branches, places    which locations there are; what they are          *)
(*   issued, cards       which gift cards there are; what they are worth    *)
(*   recipients          who they are for                                  *)
(*   preference, designs, prices, sends, notices, artifact, staff          *)
(***************************************************************************)
EXTENDS AccessPolicy, Naturals, Sequences

\* A cached query keeps its answer for five minutes; polled ones ask again
\* every ten seconds while they are on screen.
Query(get, family, reads) ==
  [get |-> get, family |-> family, reads |-> reads, polled |-> FALSE, keeps |-> TRUE]
Polled(query) == [query EXCEPT !.polled = TRUE]
\* staleTime 0: every mount asks the server again.
AlwaysStale(query) == [query EXCEPT !.keeps = FALSE]

\* A mutation sends its requests one after another: the k-th writes the k-th
\* set of subjects.  Each request is one of a set of endpoints.
\* `refreshes` are the families its success invalidates.
Mutation(sends, writes, refreshes) ==
  [sends |-> <<sends>>, writes |-> <<writes>>, refreshes |-> refreshes,
   settles |-> FALSE, patches |-> {}]
\* Mutant: onSuccess only, so an answer that was lost refreshes nothing.
OnSuccessOnly(mutation) == mutation
\* onSettled: the families are invalidated whether the answer was a success
\* or not, and the mutation stays pending until what is on screen was re-read.
OnSettled(mutation) == [mutation EXCEPT !.settles = TRUE]
\* The answer is written into the cache instead.
Patching(mutation, queries) == [mutation EXCEPT !.patches = queries]

Writes(mutation) ==
  UNION {mutation.writes[k] : k \in DOMAIN mutation.writes}
-----------------------------------------------------------------------------
(* Invoices *)
useInvoices == Query("GET /invoices", "invoices",
  {"people", "sale", "paid", "givenBack", "handover", "ready", "workshop",
   "materials", "places"})
useInvoice == Query("GET /invoices/:id", "invoices",
  {"people", "sale", "paid", "givenBack", "handover", "ready", "materials", "places"})
\* The lines as they were entered, and beside them what is there now: where a
\* garment is made, what is in stock, and who the cards sold are for.
useInvoiceEdit == Query("GET /invoices/:id/edit", "invoices",
  {"people", "sale", "paid", "workshop", "materials", "stock", "goodsStock",
   "places", "recipients"})
useMaterials == Query("GET /materials", "materials", {"materials", "stock", "places"})
usePricing == Query("GET /pricing", "pricing", {"prices"})
useInvoiceLocationDefault ==
  Query("GET /locations", "invoice-location-default", {"branches", "places"})

\* What an invoice touches when it is created or replaced: customers and
\* measurements entered on the form, stock, the cards it sells and redeems.
InvoiceWrites == {"roster", "sizes", "sale", "paid", "handover", "ready",
                  "progress", "workshop", "stock", "goodsStock", "issued", "cards"}
InvoiceRefreshes ==
  {"customers", "invoices", "orders", "products", "materials",
   "invoice-material", "invoice-order-material", "gift-cards"}
useCreateInvoice == Mutation({"POST /invoices"}, InvoiceWrites, InvoiceRefreshes)
useUpdateInvoice == Mutation({"PUT /invoices/:id"}, InvoiceWrites, InvoiceRefreshes)
useCollectInvoice == Mutation({"POST /invoices/:id/collect"},
  {"handover", "ready", "paid"}, {"invoices", "orders"})
useRecordPayment == OnSettled(
  Mutation({"POST /invoices/:id/payments"}, {"paid"}, {"invoices", "orders"}))

(* Returns, refunds and cancellations *)
useReturns == Query("GET /invoices/:id/returns", "invoices",
  {"sale", "paid", "givenBack", "handover", "places"})
useCancellation == Query("GET /orders/:id/cancel", "orders",
  {"sale", "paid", "givenBack", "handover", "ready", "progress", "checklist",
   "repairs", "places"})
useAdjustment(sends, writes) == OnSettled(Mutation(sends, writes,
  {"invoices", "orders", "products", "materials", "invoice-material",
   "invoice-order-material", "gift-cards", "gift-card"}))
useCreateReturn == useAdjustment({"POST /invoices/:id/returns"},
  {"givenBack", "handover", "ready", "stock", "goodsStock", "cards"})
useCreateRefund == useAdjustment({"POST /invoices/:id/refunds"}, {"givenBack", "cards"})
useCancelOrder == useAdjustment({"POST /orders/:id/cancel"},
  {"givenBack", "handover", "ready", "stock", "cards"})

(* Orders and repairs *)
useOrders == Query("GET /orders", "orders",
  {"people", "sale", "paid", "givenBack", "handover", "ready", "progress",
   "workshop", "checklist", "repairs", "materials", "stock", "places"})
useOrder == Query("GET /orders/:id", "orders", useOrders.reads \cup {"sizes"})
useRepairs == Query("GET /repairs", "repairs", {"people", "repairs", "materials"})
useCollectOrder == Mutation({"POST /orders/:id/collect"},
  {"handover", "ready", "paid"}, {"orders", "invoices"})
\* A repair, like a step undone, takes the confirmation of a ready garment
\* back, and may bring a measurement with it.
useCreateRepair == Mutation({"POST /orders/:id/repairs"},
  {"repairs", "sizes", "ready"}, {"orders", "repairs", "customers"})
\* Starting one that somebody completed meanwhile takes it back as well.
useUpdateRepair == Mutation({"PATCH /orders/:id/repairs/:repairId"},
  {"repairs", "ready"}, {"orders", "repairs"})
useReceiveRepair == Mutation({"POST /orders/:id/repairs/:repairId/receive"},
  {"repairs"}, {"orders", "repairs"})
\* Another place to make a ready garment at reopens it.
useUpdateOrder == Mutation({"PATCH /orders/:id"}, {"workshop", "ready"}, {"orders"})
useSetOrderStage == Mutation({"POST /orders/:id/stages/:stageId"},
  {"progress", "ready"}, {"orders"})
useSetAssignee == Mutation({"PUT /orders/:id/stages/:stageId/assignee"},
  {"progress"}, {"orders"})
\* One hook confirms a garment from the order's page or all of an invoice's
\* from the invoice's, and takes a confirmation back.
useChangeReadiness(endpoint) == Mutation({endpoint}, {"ready"}, {"orders", "invoices"})
confirmOrder == useChangeReadiness("POST /orders/:id/ready")
confirmInvoice == useChangeReadiness("POST /invoices/:id/ready")
reopenOrder == useChangeReadiness("POST /orders/:id/reopen")

\* Fetches a document to show or save: nothing is changed, nothing is cached.
Download(endpoint) == Mutation({endpoint}, {}, {})
printInvoiceDocument == Download("GET /invoices/:id/document")
printOrderDocument == Download("GET /orders/:id/document")
printRepairDocument == Download("GET /orders/:id/repairs/:repairId/document")

(* Customers, stock, catalogues and preferences *)
useCustomers == Query("GET /customers", "customers",
  {"roster", "people", "sizes", "sale", "paid"})
useCustomer == Query("GET /customers/:id", "customers", useCustomers.reads)
useCreateCustomer == Mutation({"POST /customers"}, {"roster"}, {"customers"})
useUpdateCustomer == Mutation({"PATCH /customers/:id"}, {"people"}, {"customers"})

useInventory == Query("GET /materials", "materials", {"materials", "stock", "places"})
useAddStock == Mutation({"POST /materials", "POST /materials/:id/stock"},
  {"stock"}, {"materials"})
useRemoveStock == Mutation({"POST /materials/:id/stock/remove"}, {"stock"}, {"materials"})
useTransferStock == Mutation({"POST /materials/:id/stock/transfer"}, {"stock"},
  {"materials", "invoice-order-material", "orders"})
useUpdateMaterial == Mutation({"PATCH /materials/:id"}, {"materials"},
  {"materials", "invoice-order-material", "orders", "invoices"})

useProducts == Query("GET /products", "products", {"goods", "goodsStock", "places"})
useProduct == Query("GET /products/:id", "products", useProducts.reads)
\* A new product comes with its stock: only the lists have either.
useCreateProduct == Mutation({"POST /products"}, {"goods"}, {"products"})
\* Two requests: the second adds stock, and may fail when the first is done.
useUpdateProduct ==
  [Mutation({"PATCH /products/:id"}, {"goods"}, {"products"}) EXCEPT
     !.sends = <<{"PATCH /products/:id"}, {"POST /products/:id/stock"}>>,
     !.writes = <<{"goods"}, {"goodsStock"}>>]

useLocations == Query("GET /locations", "locations", {"branches", "places"})
useLocation == Query("GET /locations/:id", "locations", {"places"})
LOCATION_QUERY_KEYS ==
  {"locations", "default-location", "invoice-location-default",
   "invoice-issuing-branch", "invoice-receiving-branch", "invoice-sold-from",
   "invoice-production-branch", "production-location-picker",
   "stock-entry-locations", "return-restock-locations"}
useCreateLocation == Mutation({"POST /locations"}, {"branches"}, LOCATION_QUERY_KEYS)
useUpdateLocation == Mutation({"PATCH /locations/:id"}, {"places"}, LOCATION_QUERY_KEYS)
usePreferences == Query("GET /me/preferences", "default-location", {"preference", "places"})
useSetDefaultLocation == Patching(
  Mutation({"PUT /me/preferences"}, {"preference"}, {}), {"usePreferences"})

useOrderStages == Query("GET /order-stages", "order-stages", {"checklist"})
\* The answer is put under the key <<"order-stages">>, which no query reads:
\* the list's key also holds the (empty) request.
useCreateOrderStage == Patching(
  Mutation({"POST /order-stages"}, {"checklist"}, {"orders"}), {})
useUpdateOrderStage == Patching(
  Mutation({"PATCH /order-stages/:id"}, {"checklist"}, {"orders"}), {})
useDesignOptions == Query("GET /design-options", "design-options", {"designs"})
useCreateDesignOption == Mutation({"POST /design-options"}, {"designs"}, {"design-options"})
useUpdateDesignOption == Mutation({"PATCH /design-options/:id"}, {"designs"}, {"design-options"})
useUsers == Query("GET /users", "users", {"staff"})

(* Gift cards *)
useGiftCards == Polled(Query("GET /gift-cards", "gift-cards",
  {"people", "issued", "cards", "recipients", "sends"}))
\* A code that no card has is an answer too, and is kept as long.
useGiftCardByCode == Query("GET /gift-cards/by-code/:code", "gift-card",
  {"people", "issued", "cards", "recipients", "sends"})
useGiftCardPreview == AlwaysStale(
  Query("GET /gift-cards/:id/preview", "gift-card-preview", {"cards", "recipients"}))
useCreateGiftCard == Mutation({"POST /gift-cards"}, {"issued"}, {"gift-cards"})
useUpdateGiftCard == Mutation({"PATCH /gift-cards/:id"}, {"cards", "recipients"},
  {"gift-cards", "gift-card"})
useReplaceGiftCard == Mutation({"POST /gift-cards/:id/replace"}, {"cards"},
  {"gift-cards", "gift-card", "gift-card-preview"})
useSendGiftCard == Mutation({"POST /gift-cards/:id/send"}, {"sends"}, {"gift-cards"})
useDownloadGiftCardImage == Download("GET /gift-cards/:id/image")

(* Notifications: preparing, choosing and discarding a preview leave the    *)
(* history alone.                                                          *)
useNotificationHistory == Polled(
  Query("GET /invoices/:id/notifications", "notifications", {"notices"}))
useNotificationSends == Polled(
  Query("GET /notifications/:id/sends", "notification-sends", {"notices"}))
useNotificationDelivery == Polled(
  Query("GET /notifications/:id", "notification-delivery", {"notices"}))
useNotificationDocument == Query("GET /documents/:id/content", "notification-document", {"artifact"})
usePrepareNotification == Mutation({"POST /invoices/:id/notifications"}, {}, {})
useSelectNotificationRecipients == Mutation({"POST /notifications/:id/selection"}, {}, {})
useDiscardNotificationPreview == Mutation({"DELETE /notifications/:id"}, {}, {})
useSendNotification == Mutation({"POST /notifications/:id/send"}, {"notices"},
  {"notifications", "notification-sends"})

(* The pickers' own keys, one per place a picker stands. *)
LocationPicker(key) == Query("GET /locations", key, {"branches", "places"})
CustomerPicker(key) == Query("GET /customers", key, {"roster", "people"})
MaterialPicker(key) == Query("GET /materials", key, {"materials", "stock", "places"})
ProductPicker(key) == Query("GET /products", key, {"goods", "goodsStock", "places"})
\* The price a fabric on the order form is looked up at, below its family.
materialPricing == Query("GET /materials/:id", "materials", {"materials"})
invoiceCustomer == CustomerPicker("invoice-customer")
invoiceSummaryCustomer == CustomerPicker("invoice-summary-customer")
giftCardCustomers == CustomerPicker("gift-card-customers")
invoiceMaterial == MaterialPicker("invoice-material")
invoiceOrderMaterial == MaterialPicker("invoice-order-material")
inventoryMaterialPicker == MaterialPicker("inventory-material-picker")
invoiceProduct == ProductPicker("invoice-product")
soldFrom == LocationPicker("invoice-sold-from")
invoiceIssuingBranch == LocationPicker("invoice-issuing-branch")
invoiceReceivingBranch == LocationPicker("invoice-receiving-branch")
invoiceProductionBranch == LocationPicker("invoice-production-branch")
productionLocationPicker == LocationPicker("production-location-picker")
stockEntryLocations == LocationPicker("stock-entry-locations")
restockLocations == LocationPicker("return-restock-locations")
=============================================================================
