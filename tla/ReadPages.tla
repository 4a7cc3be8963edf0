------------------------------ MODULE ReadPages -----------------------------
(***************************************************************************)
(* The paged reads of read_services over the tables other transactions     *)
(* keep writing.  A traversal is a sequence of requests, each its own      *)
(* transaction: the first without a cursor, the others with the cursor     *)
(* the page before returned, until a page returns none.  Rows are added,   *)
(* and leave the filtered collections, between any two pages.              *)
(***************************************************************************)
EXTENDS Naturals, Sequences, FiniteSets, Functions

CONSTANTS
    PagedCollections,  \* the collections a traversal is made of
    RowIds,            \* identities of rows, numbers ordered as their text is
    PageScopes,        \* workspaces, sessions, plans or runs that own rows
    PageLimits,        \* limits a client asks for
    MaxInstant         \* bound: the last reading of the application's clock

ASSUME PageAssumption ==
    RowIds \subseteq Nat /\ PageLimits \subseteq 1..100 /\ MaxInstant \in Nat \ {0}

VARIABLES
    collection,  \* the collection under traversal
    table,       \* row -> its state, owner, position and membership
    instant,     \* the application's clock
    reader       \* the traversal

pvars == <<collection, table, instant, reader>>

-----------------------------------------------------------------------------
\* READ_COLLECTION_SPECS: the parent of the rows, and the keyset cursor.
CollectionSpec ==
    LET temporal == {"activity-sessions", "open-sessions", "session-plans",
                     "session-approvals", "pending-approvals", "plan-runs"}
        ordinal == {"session-actions", "run-events"}
        identity == {"latest-observations", "runtime-authorities",
                     "runtime-authority-deliveries", "ingress-authorities",
                     "secret-providers", "secret-references"}
    IN  [c \in temporal \cup ordinal \cup identity
                 \cup {"delegation-signing-keys", "gateway-probes"} |->
            [scope |-> CASE c \in {"session-actions", "session-plans",
                                   "session-approvals"} -> "session"
                         [] c = "plan-runs" -> "plan"
                         [] c = "run-events" -> "run"
                         [] OTHER -> "workspace",
             cursor |-> CASE c \in temporal -> "temporal"
                          [] c \in ordinal -> "ordinal"
                          [] c \in identity -> "identity"
                          [] c = "delegation-signing-keys" -> "delegation-key"
                          [] c = "gateway-probes" -> "epoch"]]

ASSUME CollectionsAssumption ==
    PagedCollections # {} /\ PagedCollections \subseteq DOMAIN CollectionSpec

Cursor == CollectionSpec[collection].cursor

\* Collections whose rows stop matching: a session ends, an approval is decided,
\* a registration is superseded or revoked.
Filtered == {"open-sessions", "pending-approvals", "runtime-authorities",
             "runtime-authority-deliveries", "ingress-authorities", "secret-providers",
             "secret-references"}

\* Registrations that are paged by a reference a later registration may carry again.
Reused == {"runtime-authorities", "runtime-authority-deliveries",
           "ingress-authorities", "secret-providers"}

\* The committed rows of one parent.
Rows(s) == {i \in RowIds : table[i].state = "committed" /\ table[i].scope = s}

\* The position a cursor names: an instant or an ordinal and the identity, or
\* the identity alone.
Position(i) ==
    <<IF Cursor \in {"identity", "delegation-key"} THEN 0 ELSE table[i].at, i>>

Less(p, q) == p[1] < q[1] \/ (p[1] = q[1] /\ p[2] < q[2])

-----------------------------------------------------------------------------
(* The stores' page queries.  Each takes the rows of the parent the scope  *)
(* names, filters them, seeks past the cursor, orders them by position and *)
(* stops one row past the limit.                                           *)

\* A first request, and a last page, carry no cursor.
NoCursor == <<>>

\* ReadPageRequest: a cursor belongs to the request's own collection and scope.
Congruent(q) ==
    q.cursor # NoCursor => q.cursor.collection = q.collection /\ q.cursor.scope = q.scope

\* Probes are read newest first.
Precedes(q, a, b) == IF q.collection = "gateway-probes" THEN Less(b, a) ELSE Less(a, b)

\* ORDER BY ... LIMIT limit + 1, of the rows after the cursor.
Seek(q, rows) ==
    LET after == {i \in rows : q.cursor = NoCursor \/ Precedes(q, q.cursor.position, Position(i))}
        rank(i) == 1 + Cardinality({j \in after : Precedes(q, Position(j), Position(i))})
        first == {i \in after : rank(i) <= q.limit + 1}
    IN  [n \in 1..Cardinality(first) |-> CHOOSE i \in first : rank(i) = n]

SessionPage(q) ==
    Seek(q, {i \in Rows(q.scope) : q.collection = "open-sessions" => table[i].on})
ActionPage(q) == Seek(q, Rows(q.scope))
PlanPage(q) == Seek(q, Rows(q.scope))
ApprovalPage(q) ==
    Seek(q, {i \in Rows(q.scope) : q.collection = "pending-approvals" => table[i].on})
RunPage(q) == Seek(q, Rows(q.scope))
EventPage(q) == Seek(q, Rows(q.scope))
LatestPage(q) == Seek(q, Rows(q.scope))
RuntimeAuthorityPage(q) == Seek(q, {i \in Rows(q.scope) : table[i].on})
DeliveryPage(q) == Seek(q, {i \in Rows(q.scope) : table[i].on})
IngressAuthorityPage(q) == Seek(q, {i \in Rows(q.scope) : table[i].on})
SecretProviderPage(q) == Seek(q, {i \in Rows(q.scope) : table[i].on})
SecretReferencePage(q) == Seek(q, {i \in Rows(q.scope) : table[i].on})
DelegationKeyPage(q) == Seek(q, Rows(q.scope))
GatewayProbePage(q) == Seek(q, Rows(q.scope))

\* The read services: each collection's route asks one store for its candidates.
HistoryCandidates(q) ==
    CASE q.collection \in {"activity-sessions", "open-sessions"} -> SessionPage(q)
      [] q.collection = "session-actions" -> ActionPage(q)
      [] q.collection = "session-plans" -> PlanPage(q)
      [] q.collection \in {"session-approvals", "pending-approvals"} -> ApprovalPage(q)
      [] q.collection = "plan-runs" -> RunPage(q)
      [] q.collection = "run-events" -> EventPage(q)

PageCandidates(q) ==
    CASE q.collection = "latest-observations" -> LatestPage(q)
      [] q.collection = "runtime-authorities" -> RuntimeAuthorityPage(q)
      [] q.collection = "runtime-authority-deliveries" -> DeliveryPage(q)
      [] q.collection = "ingress-authorities" -> IngressAuthorityPage(q)
      [] q.collection = "secret-providers" -> SecretProviderPage(q)
      [] q.collection = "secret-references" -> SecretReferencePage(q)
      [] q.collection = "delegation-signing-keys" -> DelegationKeyPage(q)
      [] q.collection = "gateway-probes" -> GatewayProbePage(q)
      [] OTHER -> HistoryCandidates(q)

\* Mutant of FromCandidates: the next page starts after the row past the page.
FromCandidatesPastTheLast(q, candidates) ==
    LET more == Len(candidates) = q.limit + 1
    IN  [items |-> IF more THEN SubSeq(candidates, 1, q.limit) ELSE candidates,
         next |-> IF more
                  THEN [collection |-> q.collection, scope |-> q.scope,
                        position |-> Position(candidates[q.limit + 1])]
                  ELSE NoCursor]

\* ReadPage.from_candidates: the extra row is not shown, it only says that
\* another page follows; the next page starts after the last row shown.
FromCandidates(q, candidates) ==
    LET more == Len(candidates) = q.limit + 1
    IN  [items |-> IF more THEN SubSeq(candidates, 1, q.limit) ELSE candidates,
         next |-> IF more
                  THEN [collection |-> q.collection, scope |-> q.scope,
                        position |-> Position(candidates[q.limit])]
                  ELSE NoCursor]

-----------------------------------------------------------------------------
NoScope == ""

Blank == [state |-> "absent", scope |-> NoScope, at |-> 0, on |-> FALSE]

\* A command begins a row: it reads the clock before its transaction commits.
BeginRow(i, s) ==
    /\ table[i].state = "absent"
    /\ table' = [table EXCEPT ![i] =
                    [state |-> "begun", scope |-> s, at |-> instant, on |-> TRUE]]
    /\ UNCHANGED <<collection, instant, reader>>

\* An ordinal is one past the parent's last and is read under the parent's lock,
\* held until the row commits.
NextOrdinal(s) == 1 + Cardinality(Rows(s))

CommitRow(i) ==
    /\ table[i].state = "begun"
    /\ table' = [table EXCEPT ![i] =
                    [state |-> "committed", scope |-> table[i].scope,
                     at |-> IF Cursor = "ordinal" THEN NextOrdinal(table[i].scope)
                                                  ELSE table[i].at,
                     on |-> table[i].on]]
    /\ UNCHANGED <<collection, instant, reader>>

\* The command's transaction rolls back.
AbandonRow(i) ==
    /\ table[i].state = "begun"
    /\ table' = [table EXCEPT ![i] = Blank]
    /\ UNCHANGED <<collection, instant, reader>>

\* A row stops matching; where a reference is used again its key is free once more.
WithdrawRow(i) ==
    /\ collection \in Filtered /\ table[i].state = "committed" /\ table[i].on
    /\ table' = [table EXCEPT ![i] =
                    IF collection \in Reused THEN Blank ELSE [@ EXCEPT !.on = FALSE]]
    /\ reader' = [reader EXCEPT !.throughout = @ \ {i}]
    /\ UNCHANGED <<collection, instant>>

ClockTick ==
    /\ instant < MaxInstant
    /\ instant' = instant + 1
    /\ UNCHANGED <<collection, table, reader>>

\* One request of the traversal.  A cursor of another scope is refused.
ReadPage(s, n) ==
    LET q == [collection |-> collection, scope |-> s, limit |-> n, cursor |-> reader.cursor]
        page == FromCandidates(q, PageCandidates(q))
    IN  /\ reader.phase # "ended"
        /\ Congruent(q)
        /\ reader' = [phase |-> IF page.next = NoCursor THEN "ended" ELSE "reading",
                      scope |-> s,
                      cursor |-> page.next,
                      seen |-> reader.seen \o page.items,
                      throughout |-> IF reader.phase = "begin"
                                     THEN {i \in Rows(s) : table[i].on} ELSE reader.throughout]
        /\ UNCHANGED <<collection, table, instant>>

-----------------------------------------------------------------------------
PageInitOf(c) ==
    /\ collection = c
    /\ table = [i \in RowIds |-> Blank]
    /\ instant = 1
    /\ reader = [phase |-> "begin", scope |-> NoScope, cursor |-> NoCursor, seen |-> <<>>,
                 throughout |-> {}]

PageInit == \E c \in PagedCollections : PageInitOf(c)

PageNext ==
    \/ \E i \in RowIds, s \in PageScopes : BeginRow(i, s)
    \/ \E i \in RowIds : CommitRow(i) \/ AbandonRow(i) \/ WithdrawRow(i)
    \/ ClockTick
    \/ \E s \in PageScopes, n \in PageLimits : ReadPage(s, n)

PageSpec == PageInit /\ [][PageNext]_pvars

-----------------------------------------------------------------------------
PageTypeOK ==
    /\ collection \in DOMAIN CollectionSpec
    /\ table \in [RowIds -> [state : {"absent", "begun", "committed"},
                             scope : PageScopes \cup {NoScope}, at : Nat, on : BOOLEAN]]
    /\ instant \in 1..MaxInstant
    /\ reader.phase \in {"begin", "reading", "ended"}
    /\ reader.seen \in Seq(RowIds) /\ reader.throughout \subseteq RowIds
    /\ reader.cursor # NoCursor => reader.phase = "reading" /\ reader.cursor.scope = reader.scope

\* A traversal shows a row of its parent at most once, in the collection's order,
\* and, when it ends, has shown every row that matched from its first page on.
\* Where positions are ordinals it has no gap: what it has shown is the beginning of
\* the parent's history.  The read model's pages (read_pages.py, the stores' page
\* queries), against inserts, commits out of clock order and withdrawals.
PagesCoverOnce ==
    LET n == Len(reader.seen)
    IN  /\ IsInjective(reader.seen)
        /\ reader.phase = "ended" => reader.throughout \subseteq Range(reader.seen)
        /\ collection \notin Reused =>
              \A k \in 1..n :
                 /\ table[reader.seen[k]].scope = reader.scope
                 /\ k < n =>
                       LET p == Position(reader.seen[k])
                           q == Position(reader.seen[k + 1])
                       IN  IF Cursor = "epoch" THEN Less(q, p) ELSE Less(p, q)
        /\ Cursor = "ordinal" => \A k \in 1..n : table[reader.seen[k]].at = k
=============================================================================
