--------------------------- MODULE MCClientCache ----------------------------
(* One session for every set of roles, going anywhere; and one for every     *)
(* query a save is about, on the pages that show the one or offer the other. *)
EXTENDS ClientCache

Dialogs == DOMAIN Component \ PageName
AnyRoles == {Following(roles, None, None, PageName, Dialogs) : roles \in SUBSET Role}

Everyone == {"admin"}
Related == {pair \in (DOMAIN MutationOf) \X (DOMAIN QueryOf) :
  Writes(MutationOf[pair[1]]) \cap QueryOf[pair[2]].reads # {}}
\* A page with the dialogs it opens offers some requests and shows some data.
PairSessions ==
  LET seen == Inside[Everyone]
      pairs == Related
      whole == [page \in PageName |-> {page} \cup seen[page].opens] @@ <<>>
      offers == [page \in PageName |-> UNION {seen[c].acts : c \in whole[page]}] @@ <<>>
      reads == [page \in PageName |-> UNION {seen[c].reads : c \in whole[page]}] @@ <<>>
      PairSession(pair) ==
        LET offering == {page \in PageName : pair[1] \in offers[page]}
        IN  Following(Everyone, pair[2], pair[1],
              offering \cup {page \in PageName : pair[2] \in reads[page]}
                \cup {ListPage[Component[page].section] : page \in offering},
              {c \in Dialogs : pair[1] \in seen[c].acts \/ pair[2] \in seen[c].reads})
  IN  {PairSession(pair) : pair \in pairs}

SessionDef == AnyRoles \cup PairSessions
InvoiceEdits ==
  {s \in PairSessions : s.query = "useInvoiceEdit" /\ s.mutation = "useUpdateInvoice"}
IdentitiesDef == {{"production", "inventory"}}
=============================================================================
