-------------------------- MODULE MCNotifications --------------------------
(* Model values, symmetry and the instance of the runs over Notifications.  *)
EXTENDS NotificationsPromise, FiniteSets, TLC

\* Ids, destinations, requests and workers are interchangeable.
Symmetry == Permutations(Notification) \cup Permutations(Mobile)
            \cup Permutations(Staff) \cup Permutations(Worker)

\* The behaviours of approval.cfg, in two parts that share their beginnings: a
\* preview that outlives reopening and a second confirmation, for which the
\* last revision is kept; and a chain of resends of one approved notification,
\* the longer the fewer changes.
Rows == Cardinality({n \in Notification : notification[n].state # "absent"})
SecondConfirmation ==
    /\ Rows <= 2 /\ invoice.catalog = 0 /\ clock <= 2
    /\ invoice.revision = 4 => invoice.generation = 2
    /\ \A n \in Notification : notification[n].resend_of = None
    /\ \A s \in Staff : staff[s].pc = "rendering" => staff[s].resend_of = None
ResendChain ==
    /\ invoice.revision <= 2 /\ (invoice.ready => invoice.generation # 0)
    /\ \A n \in Notification : notification[n].preview_version = 0
    /\ \A s \in Staff : staff[s].pc = "approving" => staff[s].send

StaffSpec == Init /\ [][Next /\ (SecondConfirmation \/ ResendChain)']_vars

=============================================================================
