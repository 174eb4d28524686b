------------------------------- MODULE Records -------------------------------
(***************************************************************************)
(* What the API creates and shows of several tenants: tenants with their   *)
(* first admin, requisitions, candidate cases, interviews, feedback and    *)
(* calendar subscriptions; lists, reports and calendar feeds.              *)
(*                                                                         *)
(* A request that creates something reads, perhaps refuses, and inserts    *)
(* its row, with its audit record, in one commit.  Its reads are one step: *)
(* each but the one for a duplicate asks for rows that are never removed.  *)
(* Between reads and commit other requests commit, and the unique          *)
(* constraints decide.  A reader issues several statements, each of which  *)
(* sees what is committed by then; readers change nothing, so one of them  *)
(* stands for all.                                                         *)
(***************************************************************************)
EXTENDS Naturals, Sequences, FiniteSets, Permissions

CONSTANTS
    Tenants,      \* slugs, which stand for the tenants that have them
    Users,
    Member,       \* the role of each user in each tenant, NoRole for none
    NoRole,
    Emails,       \* of candidates, stripped and in lower case
    Ids,          \* row ids; those of cases are random
    Seed,         \* the rows of earlier requests
    Requests,
    PageSize      \* limit

ASSUME MembersAssumption ==
    Member \in [Tenants -> [Users -> Roles \cup {NoRole}]] /\ NoRole \notin Roles
ASSUME IdsAssumption == Ids \subseteq Nat \ {0}
ASSUME PageAssumption == PageSize \in Nat \ {0}

VARIABLES
    db,           \* the committed rows of each table
    req,          \* what each request is about to write, or its answer
    reader        \* the local state of a list, a report or a feed

vars == <<db, req, reader>>

-----------------------------------------------------------------------------
(* The tables.  A tenant row carries the user row inserted with it.         *)
Row == [tenants |-> [id : Tenants, admin : Users, insertsUser : BOOLEAN],
        requisitions |-> [id : Ids, tenant : Tenants],
        cases |-> [id : Ids, tenant : Tenants, requisition : Ids,
                   email : Emails, stage : {"applied", "screening"}],
        interviews |-> [id : Ids, tenant : Tenants, case : Ids,
                        interviewer : Users],
        feedback |-> [interview : Ids, tenant : Tenants, interviewer : Users],
        subscriptions |-> [id : Ids, tenant : Tenants, interviewer : Users,
                           revoked : BOOLEAN, expired : BOOLEAN]]
Tables == DOMAIN Row

ASSUME SeedAssumption ==
    /\ DOMAIN Seed = Tables
    /\ \A t \in Tables : Seed[t] \subseteq Row[t] /\ IsFiniteSet(Seed[t])

(* What the foreign key of memberships.tenant_id guarantees                 *)
ASSUME MembershipAssumption ==
    \A t \in Tenants, u \in Users :
       Member[t][u] # NoRole => \E x \in Seed.tenants : x.id = t

(* Primary keys, the unique constraint on feedback, and what the requests   *)
(* below leave: with no earlier request there is nothing to assume.         *)
ASSUME ConsistencyAssumption ==
    /\ \A x, y \in Seed.interviews : x.id = y.id => x = y
    /\ \A x, y \in Seed.subscriptions : x.id = y.id => x = y
    /\ \A x, y \in Seed.feedback : x.interview = y.interview => x = y
    /\ \A c \in Seed.cases : \E q \in Seed.requisitions :
          q.id = c.requisition /\ q.tenant = c.tenant
    /\ \A i \in Seed.interviews : \E c \in Seed.cases :
          c.id = i.case /\ c.tenant = i.tenant
    /\ \A f \in Seed.feedback : \E i \in Seed.interviews :
          /\ i.id = f.interview
          /\ i.tenant = f.tenant /\ i.interviewer = f.interviewer
    /\ \A x \in Seed.interviews \cup Seed.subscriptions :
          Member[x.tenant][x.interviewer] = "interviewer"

Of(table, tenant) == {x \in db[table] : x.tenant = tenant}
IdsOf(rows) == {x.id : x \in rows}

(* memberships: those given, and the first admin of a tenant created since *)
RoleOf(tenant, user) ==
    IF \E x \in db.tenants \ Seed.tenants : x.id = tenant /\ x.admin = user
    THEN "tenant_admin" ELSE Member[tenant][user]

KnownUsers == {u \in Users : \E t \in Tenants : Member[t][u] # NoRole}
                \cup {x.admin : x \in db.tenants}

May(tenant, user, permission) == Permitted(RoleOf(tenant, user), permission)
Allowed(tenant, permission) == \E u \in Users : May(tenant, u, permission)

(* Mistake: no constraint on the feedback of an interview *)
KeysButFeedback(table, row) ==
    CASE table = "tenants" ->
           {<<"slug", row.id>>}
             \cup (IF row.insertsUser THEN {<<"user", row.admin>>} ELSE {})
      [] table = "cases" -> {<<row.tenant, row.email>>}
      [] OTHER -> {}

(* What must be unique: slugs and users, (tenant, email), interview_id *)
Keys(table, row) ==
    CASE table = "tenants" ->
           {<<"slug", row.id>>}
             \cup (IF row.insertsUser THEN {<<"user", row.admin>>} ELSE {})
      [] table = "cases" -> {<<row.tenant, row.email>>}
      [] table = "feedback" -> {row.interview}
      [] OTHER -> {}

Duplicate(table, row) ==
    \E x \in db[table] : Keys(table, x) \cap Keys(table, row) # {}

-----------------------------------------------------------------------------
Idle == [at |-> "idle"]
NoReader == [kind |-> "none"]

Init ==
    /\ db = Seed
    /\ req = [r \in Requests |-> Idle]
    /\ reader = NoReader

(* The session closes without a commit *)
Refuse(r, answer) == req' = [req EXCEPT ![r] = [at |-> "end", answer |-> answer]]

Prepare(r, table, row) ==
    req' = [req EXCEPT ![r] = [at |-> "commit", table |-> table, row |-> row]]

(* A new id: uuid4 and token_urlsafe repeat none that is in use *)
Unused(table) ==
    Ids \ (IdsOf(db[table]) \cup
           {req[r].row.id : r \in {q \in Requests : req[q].at = "commit"
                                                   /\ req[q].table = table}})
NewId(table) == {i \in Unused(table) : \A j \in Unused(table) : i <= j}

(* create_tenant asks for no membership *)
CreateTenant(r) ==
    \E t \in Tenants, u \in Users :
       \/ t \in IdsOf(db.tenants) /\ Refuse(r, 409)
       \/ /\ t \notin IdsOf(db.tenants)
          /\ Prepare(r, "tenants", [id |-> t, admin |-> u,
                                    insertsUser |-> u \notin KnownUsers])

CreateRequisition(r) ==
    \E t \in Tenants : \E i \in NewId("requisitions") :
       /\ Allowed(t, "requisition:create")
       /\ Prepare(r, "requisitions", [id |-> i, tenant |-> t])

(* Mistake: the requisition of any tenant will do *)
RequisitionExistsAnywhere(q, t) == q \in IdsOf(db.requisitions)

RequisitionExists(q, t) == q \in IdsOf(Of("requisitions", t))

EmailExists(e, t) == \E x \in Of("cases", t) : x.email = e

CreateCandidate(r) ==
    \E t \in Tenants, q \in Ids, e \in Emails :
       /\ Allowed(t, "candidate:create")
       /\ \/ ~RequisitionExists(q, t) /\ Refuse(r, 404)
          \/ RequisitionExists(q, t) /\ EmailExists(e, t) /\ Refuse(r, 409)
          \/ /\ RequisitionExists(q, t) /\ ~EmailExists(e, t)
             /\ \E i \in Unused("cases") :
                   Prepare(r, "cases",
                      [id |-> i, tenant |-> t, requisition |-> q, email |-> e,
                       stage |-> "applied"])

InterviewerExists(u, t) == RoleOf(t, u) = "interviewer"

ScheduleInterview(r) ==
    \E t \in Tenants, c \in Ids, u \in Users :
       /\ Allowed(t, "interview:manage")
       /\ LET found == c \in IdsOf(Of("cases", t)) /\ InterviewerExists(u, t)
          IN  \/ ~found /\ Refuse(r, 404)
              \/ /\ found
                 /\ \E i \in NewId("interviews") :
                       Prepare(r, "interviews", [id |-> i, tenant |-> t,
                                                 case |-> c, interviewer |-> u])

(* The row takes tenant and interviewer from the interview *)
SubmitFeedback(r) ==
    \E t \in Tenants, u \in Users, i \in Ids :
       /\ May(t, u, "feedback:submit")
       /\ \/ i \notin IdsOf(Of("interviews", t)) /\ Refuse(r, 404)
          \/ \E x \in Of("interviews", t) :
                LET exists == \E f \in db.feedback : f.interview = i
                IN  /\ x.id = i
                    /\ \/ x.interviewer # u /\ Refuse(r, 403)
                       \/ x.interviewer = u /\ exists /\ Refuse(r, 409)
                       \/ /\ x.interviewer = u /\ ~exists
                          /\ Prepare(r, "feedback",
                                [interview |-> i, tenant |-> x.tenant,
                                 interviewer |-> x.interviewer])

Subscribe(r) ==
    \E t \in Tenants, u \in Users :
       /\ Allowed(t, "calendar:manage")
       /\ \/ ~InterviewerExists(u, t) /\ Refuse(r, 404)
          \/ /\ InterviewerExists(u, t)
             /\ \E i \in NewId("subscriptions") :
                   Prepare(r, "subscriptions",
                      [id |-> i, tenant |-> t, interviewer |-> u,
                       revoked |-> FALSE, expired |-> FALSE])

(* CalendarSubscriptionService.revoke: get_owned *)
BeginRevoke(r) ==
    \E t \in Tenants, s \in Ids :
       /\ Allowed(t, "calendar:manage")
       /\ LET owned == {x \in Of("subscriptions", t) : x.id = s /\ ~x.revoked}
          IN  \/ owned = {} /\ Refuse(r, 404)
              \/ owned # {} /\ req' = [req EXCEPT ![r] =
                                         [at |-> "revoke", subscription |-> s]]

Begin(r) ==
    /\ req[r].at = "idle"
    /\ \/ CreateTenant(r) \/ CreateRequisition(r) \/ CreateCandidate(r)
       \/ ScheduleInterview(r) \/ SubmitFeedback(r)
       \/ Subscribe(r) \/ BeginRevoke(r)
       \/ Refuse(r, 403)
    /\ UNCHANGED <<db, reader>>

Finish(r, answer) ==
    req' = [req EXCEPT ![r] = [at |-> "end", answer |-> answer,
                               table |-> @.table, row |-> @.row]]

(* The insert and the commit.  No route maps the IntegrityError: 500. *)
Commit(r) ==
    /\ req[r].at = "commit"
    /\ LET table == req[r].table
           row == req[r].row
       IN  \/ Duplicate(table, row) /\ Finish(r, 500) /\ UNCHANGED db
           \/ /\ ~Duplicate(table, row)
              /\ db' = [db EXCEPT ![table] = @ \cup {row}]
              /\ Finish(r, 201)
    /\ UNCHANGED reader

(* The UPDATE names the subscription by its id, whoever revoked it since *)
Revoke(r) ==
    /\ req[r].at = "revoke"
    /\ db' = [db EXCEPT !.subscriptions =
                 {IF x.id = req[r].subscription THEN [x EXCEPT !.revoked = TRUE]
                  ELSE x : x \in @}]
    /\ Refuse(r, 204)
    /\ UNCHANGED reader

(* The process dies; the database rolls the transaction back *)
Crash(r) ==
    /\ req[r].at \in {"commit", "revoke"}
    /\ Refuse(r, 0)
    /\ UNCHANGED <<db, reader>>

(* Time: expires_at of a subscription is reached *)
Expire ==
    \E x \in db.subscriptions :
       /\ ~x.expired
       /\ db' = [db EXCEPT !.subscriptions =
                    (@ \ {x}) \cup {[x EXCEPT !.expired = TRUE]}]
       /\ UNCHANGED <<req, reader>>

-----------------------------------------------------------------------------
(* Lists.  `due' is history: the cases that match from the first page on.   *)
(* `listed' are the pages a client has been given; within one, rows are in  *)
(* the order of their ids.                                                  *)
Filters == {"any", "applied", "screening"}
Matches(x, filter) == filter = "any" \/ x.stage = filter
Listable(tenant, filter) ==
    IdsOf({x \in Of("cases", tenant) : Matches(x, filter)})

BeginList ==
    \E t \in Tenants, filter \in Filters :
       /\ Allowed(t, "tenant:read")
       /\ reader' = [kind |-> "list", tenant |-> t, filter |-> filter,
                     at |-> "page", cursor |-> 0, listed |-> <<>>, total |-> 0,
                     due |-> Listable(t, filter)]

Shown == UNION {reader.listed[p] : p \in DOMAIN reader.listed}

(* Mistake: the next page begins where that many rows have been skipped *)
AfterOffset(ids) ==
    {i \in ids : Cardinality({j \in ids : j < i}) >= Cardinality(Shown)}

(* id > cursor *)
AfterCursor(ids) == {i \in ids : i > reader.cursor}

(* ORDER BY id LIMIT limit + 1; the row beyond the page tells of a next one *)
NextPage ==
    LET rest == AfterCursor(Listable(reader.tenant, reader.filter))
        page == {i \in rest : Cardinality({j \in rest : j < i}) < PageSize}
    IN  /\ reader.at = "page"
        /\ \/ /\ Cardinality(rest) > PageSize
              /\ \E last \in page :
                    /\ \A i \in page : i <= last
                    /\ reader' = [reader EXCEPT !.listed = Append(@, page),
                                               !.cursor = last, !.at = "count"]
           \/ /\ Cardinality(rest) <= PageSize
              /\ reader' = [reader EXCEPT !.listed = Append(@, page),
                                         !.cursor = 0, !.at = "count"]

(* The second statement of a page; a client asks while there is a cursor *)
CountAll ==
    /\ reader.at = "count"
    /\ reader' = [reader EXCEPT
          !.total = Cardinality(Listable(reader.tenant, reader.filter)),
          !.at = IF reader.cursor = 0 THEN "shown" ELSE "page"]

(* Reports: the interviews of the tenant, then their feedback *)
BeginReport ==
    \E t \in Tenants :
       /\ Allowed(t, "report:read")
       /\ reader' = [kind |-> "report", tenant |-> t, at |-> "feedback",
                     interviews |-> IdsOf(Of("interviews", t)), feedback |-> {}]

(* Mistake: all feedback of the tenant is counted *)
FeedbackOf(ids, tenant) == Of("feedback", tenant)

FeedbackFor(ids, tenant) == {f \in Of("feedback", tenant) : f.interview \in ids}

CountFeedback ==
    /\ reader.at = "feedback"
    /\ reader' = [reader EXCEPT
          !.feedback = FeedbackFor(reader.interviews, reader.tenant),
          !.at = "shown"]

(* Feeds: the clock is read, the token looked up, the events read.  `dead'  *)
(* is history: the subscription had ended when the request came.            *)
BeginFeed ==
    \E x \in db.subscriptions :
       reader' = [kind |-> "feed", at |-> "lookup", subscription |-> x.id,
                  late |-> x.expired, dead |-> x.expired \/ x.revoked,
                  events |-> {}]

(* Mistake: an expired token is as good as any *)
ActiveUnlessRevoked(x) == x.id = reader.subscription /\ ~x.revoked

Active(x) == x.id = reader.subscription /\ ~x.revoked /\ ~reader.late

LookUp ==
    /\ reader.at = "lookup"
    /\ reader' = [reader EXCEPT !.at =
          IF \E x \in db.subscriptions : Active(x) THEN "events" ELSE "404"]

EventsOf(tenant, user) ==
    IdsOf({x \in Of("interviews", tenant) : x.interviewer = user})

ReadEvents ==
    /\ reader.at = "events"
    /\ \E x \in db.subscriptions :
          /\ x.id = reader.subscription
          /\ reader' = [reader EXCEPT !.events = EventsOf(x.tenant, x.interviewer),
                                      !.at = "shown"]

Read ==
    /\ \/ reader.kind = "none" /\ (BeginList \/ BeginReport \/ BeginFeed)
       \/ reader.kind = "list" /\ (NextPage \/ CountAll)
       \/ reader.kind = "report" /\ CountFeedback
       \/ reader.kind = "feed" /\ (LookUp \/ ReadEvents)
    /\ UNCHANGED <<db, req>>

(* The stage endpoint moves a case while lists are read *)
Move ==
    \E x \in db.cases :
       /\ x.stage = "applied"
       /\ db' = [db EXCEPT !.cases =
                    (@ \ {x}) \cup {[x EXCEPT !.stage = "screening"]}]
       /\ reader' = IF reader.kind = "list" /\ reader.filter = "applied"
                    THEN [reader EXCEPT !.due = @ \ {x.id}] ELSE reader
       /\ UNCHANGED req

Next ==
    \/ \E r \in Requests : Begin(r) \/ Commit(r) \/ Revoke(r) \/ Crash(r)
    \/ Expire \/ Move \/ Read

Spec == Init /\ [][Next]_vars

-----------------------------------------------------------------------------
(* Properties *)

(* However ids of one tenant are used by members of another, or by someone  *)
(* who is a member of both, no row refers to a row of another tenant, and   *)
(* feedback is by the interviewer of its interview.                         *)
TenantsAreIsolated ==
    /\ \A c \in db.cases :
          \E q \in db.requisitions : q.id = c.requisition /\ q.tenant = c.tenant
    /\ \A i \in db.interviews :
          /\ \E c \in db.cases : c.id = i.case /\ c.tenant = i.tenant
          /\ RoleOf(i.tenant, i.interviewer) = "interviewer"
    /\ \A f \in db.feedback : \E i \in db.interviews :
          /\ i.id = f.interview
          /\ i.tenant = f.tenant /\ i.interviewer = f.interviewer
    /\ \A s \in db.subscriptions : RoleOf(s.tenant, s.interviewer) = "interviewer"

(* Of requests that race for a slug, for the email of a candidate or for    *)
(* the feedback of an interview, at most one is told that it was created.   *)
OneWinnerPerKey ==
    \A r, q \in {s \in Requests : req[s].at = "end" /\ req[s].answer = 201} :
       r # q /\ req[r].table = req[q].table =>
          LET x == req[r].row
              y == req[q].row
          IN  CASE req[r].table = "tenants" -> x.id # y.id
                [] req[r].table = "cases" -> <<x.tenant, x.email>> # <<y.tenant, y.email>>
                [] req[r].table = "feedback" -> x.interview # y.interview
                [] OTHER -> x # y

(* A client that follows the cursors sees no case twice, and every case     *)
(* that matched from the first page to the last, whatever is created and    *)
(* moved between the pages; without a filter the last total counts them.    *)
ListIsComplete ==
    reader.kind = "list" /\ reader.at = "shown" =>
       /\ \A p, q \in DOMAIN reader.listed : p < q =>
             \A i \in reader.listed[p], j \in reader.listed[q] : i < j
       /\ reader.due \subseteq Shown
       /\ reader.filter = "any" => Cardinality(Shown) <= reader.total

(* A report never shows more feedback than interviews, although it reads    *)
(* the two one after the other.                                             *)
ReportAddsUp ==
    reader.kind = "report" =>
        Cardinality(reader.feedback) <= Cardinality(reader.interviews)

(* A token that was revoked or had expired when the request came shows      *)
(* nothing, and no token shows an interview of another tenant or person.    *)
FeedNeedsLiveToken ==
    reader.kind = "feed" /\ reader.at = "shown" =>
       /\ ~reader.dead
       /\ \A i \in db.interviews : i.id \in reader.events =>
             \E s \in db.subscriptions :
                /\ s.id = reader.subscription
                /\ s.tenant = i.tenant /\ s.interviewer = i.interviewer
=============================================================================
