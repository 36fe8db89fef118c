---------------------------- MODULE AccessPolicy ----------------------------
(***************************************************************************)
(* Who may ask the server for what, and which pages a member of staff may  *)
(* open.  The Rust middleware and the front end read the same policy file, *)
(* so one table serves both: a request outside it is refused by the server *)
(* and a control outside it is not rendered by a careful component.        *)
(*                                                                         *)
(* An endpoint is named as the policy names it ("POST /orders/:id/ready"). *)
(* A page is the first segment of its path and whether the path holds one  *)
(* of the segments "new" and "edit": nothing else of a path decides.       *)
(***************************************************************************)
EXTENDS TLC

Role == {"admin", "manager", "sales", "production", "inventory"}

\* The policy file: the endpoints each set of roles is granted.
Policy == {
  [roles |-> {"authenticated"},
   endpoints |-> {"GET /me/preferences", "PUT /me/preferences"}],
  [roles |-> {"sales", "production"},
   endpoints |-> {"GET /customers", "GET /customers/:id", "POST /customers",
     "PATCH /customers/:id", "GET /design-options", "GET /order-stages",
     "POST /invoices/:id/ready", "GET /orders", "GET /orders/:id",
     "GET /orders/:id/document", "GET /repairs",
     "GET /orders/:id/repairs/:repairId/document", "PATCH /orders/:id",
     "PATCH /orders/:id/repairs/:repairId", "POST /orders/:id/ready",
     "PUT /orders/:id/repairs/:repairId/measurement", "GET /users"}],
  [roles |-> {"sales", "production", "inventory"},
   endpoints |-> {"GET /materials", "GET /materials/:id",
     "GET /locations", "GET /locations/:id"}],
  [roles |-> {"inventory"},
   endpoints |-> {"POST /materials", "POST /materials/:id/stock",
     "POST /materials/:id/stock/remove", "POST /materials/:id/stock/transfer",
     "PATCH /materials/:id", "POST /products", "POST /products/:id/stock",
     "PATCH /products/:id"}],
  [roles |-> {"sales", "inventory"},
   endpoints |-> {"GET /products", "GET /products/:id"}],
  [roles |-> {"admin"},
   endpoints |-> {"POST /locations", "PATCH /locations/:id",
     "POST /design-options", "PATCH /design-options/:id",
     "POST /order-stages", "PATCH /order-stages/:id"}],
  [roles |-> {"sales"},
   endpoints |-> {"GET /pricing", "GET /invoices", "GET /invoices/:id",
     "GET /invoices/:id/edit", "GET /invoices/:id/document",
     "POST /invoices", "POST /invoices/:id/collect",
     "POST /invoices/:id/payments", "PUT /invoices/:id",
     "POST /orders/:id/collect", "POST /orders/:id/repairs",
     "POST /orders/:id/repairs/:repairId/receive",
     "GET /invoices/:id/returns", "GET /orders/:id/cancel",
     "GET /gift-cards", "GET /gift-cards/by-code/:code",
     "GET /gift-cards/:id/preview", "GET /gift-cards/:id/image",
     "POST /gift-cards", "POST /gift-cards/:id/send",
     "GET /notifications/capabilities", "GET /invoices/:id/notifications",
     "GET /notifications/:id", "GET /notifications/:id/sends",
     "GET /documents/:id", "GET /documents/:id/content",
     "POST /invoices/:id/notifications", "POST /notifications/:id/send",
     "POST /notifications/:id/selection", "POST /notifications/:id/cancel",
     "POST /notifications/:id/resend", "POST /invoices/:id/documents",
     "DELETE /notifications/:id"}],
  [roles |-> {"manager"},
   endpoints |-> {"POST /orders/:id/reopen",
     "PUT /orders/:id/stages/:stageId/assignee", "POST /invoices/:id/returns",
     "POST /invoices/:id/refunds", "POST /orders/:id/cancel",
     "POST /gift-cards/:id/replace", "PATCH /gift-cards/:id"}],
  [roles |-> {"production"},
   endpoints |-> {"POST /orders/:id/stages/:stageId"}]}

Endpoint == UNION {rule.endpoints : rule \in Policy}

\* An administrator may do everything, a manager all but what is granted to
\* administrators alone, and anyone else what one of the roles names.
HasRole(roles, required) ==
  /\ required # {}
  /\ \/ "admin" \in roles
     \/ "manager" \in roles /\ required # {"admin"}
     \/ roles \cap required # {}

\* An endpoint that no rule matches is refused to everyone.
CanAccess(roles, endpoint) ==
  \E rule \in Policy :
    /\ endpoint \in rule.endpoints
    /\ rule.roles = {"authenticated"} \/ HasRole(roles, rule.roles)

\* The list each section of the application is about.
ListOf ==
  "invoices" :> "GET /invoices" @@ "orders" :> "GET /orders"
  @@ "repairs" :> "GET /repairs" @@ "customers" :> "GET /customers"
  @@ "products" :> "GET /products" @@ "inventory" :> "GET /materials"
  @@ "gift-cards" :> "GET /gift-cards" @@ "locations" :> "GET /locations"
  @@ "order-stages" :> "GET /order-stages"
  @@ "design-options" :> "GET /design-options"

\* Page access is separate from lookup access: looking products up does not
\* open their editor, and naming a colleague does not open the directory.
CanVisit(roles, section, editing) ==
  CASE section = "users" -> HasRole(roles, {"manager"})
    [] editing /\ section \in {"locations", "order-stages", "design-options"} ->
         HasRole(roles, {"admin"})
    [] editing /\ section \in {"inventory", "products"} ->
         HasRole(roles, {"inventory"})
    [] editing /\ section = "customers" ->
         HasRole(roles, {"sales", "production"})
    [] OTHER -> section \in DOMAIN ListOf /\ CanAccess(roles, ListOf[section])

HomePath(roles) ==
  CASE HasRole(roles, {"sales"}) -> "invoices"
    [] HasRole(roles, {"production"}) -> "orders"
    [] HasRole(roles, {"inventory"}) -> "inventory"
    [] OTHER -> "customers"

\* A control inside a PermissionGuard, and the content of a page, is mounted
\* for a signed-in user whose roles allow it; its queries are not even made
\* otherwise.  A control without a guard is mounted for everyone on the page.
Unguarded == "unguarded"
PermissionGuard(roles, gate) == gate = Unguarded \/ CanAccess(roles, gate)
RoleGuard(roles, required) == HasRole(roles, required)
=============================================================================
