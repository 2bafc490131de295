------------------------- MODULE SubscriptionStore -------------------------
(***************************************************************************)
(* The table of subscriptions and the queries of internal/subscriptions/   *)
(* repo.go. A table maps every subscription id to its row, or to NoRow; a  *)
(* row keeps the columns the decisions read: user_id, product_id, status   *)
(* and updated_at. The statuses that grant access are written down four    *)
(* times in the code, and so they are here: in IsActive, in the unique     *)
(* index of the migrations and in the two queries.                         *)
(***************************************************************************)
EXTENDS Integers, FiniteSets

CONSTANTS
    Subs,       \* subscription ids
    Users,      \* user ids
    Products,   \* product ids
    Statuses,   \* the provider's subscription statuses
    NoRow       \* a subscription that is not stored

\* As a bug would have it: a grace period does not count.
IsActiveStrict(status) == status \in {"on_trial", "active"}

\* The statuses the code names, of those the provider uses.
IsActive(status) == status \in {"on_trial", "active", "past_due", "cancelled"}

Rows == [user : Users, product : Products, status : Statuses, updated : Nat]

ASSUME StoreAssumption == NoRow \notin Rows /\ Statuses \subseteq STRING

Tables == [Subs -> Rows \cup {NoRow}]

EmptyTable == [s \in Subs |-> NoRow]

RowsOf(table, u) == {s \in Subs : table[s] # NoRow /\ table[s].user = u}

-----------------------------------------------------------------------------
(* UpsertSubscription: INSERT ... ON CONFLICT(id) DO UPDATE, whatever the   *)
(* row held before. The partial unique index of the migrations refuses a    *)
(* second row of one user with a status that grants access.                 *)

\* As a bug would have it: only 'active' rows are indexed.
ConflictsOnActiveOnly(table, s, row) ==
    /\ row.status = "active"
    /\ \E t \in RowsOf(table, row.user) \ {s} : table[t].status = "active"

\* As a bug would have it: the row conflicts with its own earlier version.
ConflictsWithItself(table, s, row) ==
    LET indexed == {"on_trial", "active", "past_due", "cancelled"}
    IN  /\ row.status \in indexed
        /\ \E t \in RowsOf(table, row.user) : table[t].status \in indexed

ConflictsOnUserActive(table, s, row) ==
    LET indexed == {"on_trial", "active", "past_due", "cancelled"}
    IN  /\ row.status \in indexed
        /\ \E t \in RowsOf(table, row.user) \ {s} : table[t].status \in indexed

\* As a bug would have it: an existing row is left as it is.
UpsertOrIgnore(table, s, row) ==
    IF table[s] = NoRow THEN [table EXCEPT ![s] = row] ELSE table

Upsert(table, s, row) == [table EXCEPT ![s] = row]

-----------------------------------------------------------------------------
(* The queries. Rows of equal updated_at come in an order the database      *)
(* chooses, so a query has a set of possible answers.                       *)

Newest(table, subs) ==
    {s \in subs : \A t \in subs : table[t].updated <= table[s].updated}

\* GetSubscriptionByUserID: active rows before the others, the newest first.
SubscriptionByUser(table, u) ==
    LET active == {s \in RowsOf(table, u) :
                      table[s].status \in {"on_trial", "active", "past_due", "cancelled"}}
    IN  Newest(table, IF active # {} THEN active ELSE RowsOf(table, u))

\* As a bug would have it: rows in a grace period are not loaded.
GrantingRowsStrict(table, u) ==
    {s \in RowsOf(table, u) : table[s].status \in {"on_trial", "active"}}

\* The rows GetActiveUserPlans selects for a user.
GrantingRows(table, u) ==
    {s \in RowsOf(table, u) :
        table[s].status \in {"on_trial", "active", "past_due", "cancelled"}}

\* GetActiveUserPlans: the first row of each user in updated_at order.
ActiveUserSubscriptions(table, u) == Newest(table, GrantingRows(table, u))
=============================================================================
