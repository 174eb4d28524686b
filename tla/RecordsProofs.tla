---------------------------- MODULE RecordsProofs ----------------------------
(***************************************************************************)
(* What Records guarantees for any number of tenants, members, requests    *)
(* and rows, and pages of any size: the isolation of tenants, one winner   *)
(* per key, complete lists, reports that add up and feeds that show        *)
(* nothing behind a dead token.                                            *)
(*                                                                         *)
(* Each of them compares what a request or a reader found earlier with     *)
(* what is committed now.  Inv says what of it is still true: the rows a   *)
(* prepared row refers to are there, its id is free, a row like that of a  *)
(* winner is kept, and everything due in a list is shown or still ahead    *)
(* of the cursor.                                                          *)
(***************************************************************************)
EXTENDS Records, FiniteSetTheorems, TLAPS

-----------------------------------------------------------------------------
(* The inductive invariant *)

Numbered == {"requisitions", "cases", "interviews", "subscriptions"}

(* What a row says of rows of other tables *)
References(table, row) ==
    /\ table = "cases" =>
          \E q \in db.requisitions : q.id = row.requisition /\ q.tenant = row.tenant
    /\ table = "interviews" =>
          \E c \in db.cases : c.id = row.case /\ c.tenant = row.tenant
    /\ table = "feedback" =>
          \E i \in db.interviews :
             /\ i.id = row.interview
             /\ i.tenant = row.tenant /\ i.interviewer = row.interviewer
    /\ table \in {"interviews", "subscriptions"} =>
          Member[row.tenant][row.interviewer] = "interviewer"

RowsOK ==
    /\ DOMAIN db = Tables
    /\ \A t \in Tables : \A x \in db[t] : x \in Row[t] /\ References(t, x)

UniqueOK ==
    /\ \A x, y \in db.interviews : x.id = y.id => x = y
    /\ \A x, y \in db.subscriptions : x.id = y.id => x = y
    /\ \A x, y \in db.feedback : x.interview = y.interview => x = y

(* A tenant created since has none of the memberships given *)
TenantsOK ==
    /\ Seed.tenants \subseteq db.tenants
    /\ \A x \in db.tenants \ Seed.tenants : x.id \notin IdsOf(Seed.tenants)

FiniteOK == IsFiniteSet(IdsOf(db.cases)) /\ IsFiniteSet(IdsOf(db.interviews))

(* The id of a prepared row is free and nobody else's *)
Fresh(r) ==
    req[r].table \in Numbered =>
       /\ req[r].row.id \notin IdsOf(db[req[r].table])
       /\ \A q \in Requests \ {r} :
             req[q].at = "commit" /\ req[q].table = req[r].table =>
                req[q].row.id # req[r].row.id

PreparedOK(r) ==
    req[r].at = "commit" =>
       /\ req[r].table \in Tables
       /\ req[r].row \in Row[req[r].table]
       /\ References(req[r].table, req[r].row)
       /\ Fresh(r)

(* Rows that the constraints, or their ids, keep from being in one table *)
Same(table, x, y) ==
    /\ table = "tenants" => x.id = y.id
    /\ table = "cases" => x.tenant = y.tenant /\ x.email = y.email
    /\ table = "feedback" => x.interview = y.interview
    /\ table \in Numbered \ {"cases"} => x.id = y.id

Won(r) == req[r].at = "end" /\ req[r].answer = 201

WonOK(r) ==
    Won(r) =>
       /\ req[r].table \in Tables
       /\ \E x \in db[req[r].table] : Same(req[r].table, x, req[r].row)
       /\ \A q \in Requests \ {r} : Won(q) /\ req[q].table = req[r].table =>
             ~Same(req[r].table, req[r].row, req[q].row)

RequestsOK ==
    /\ DOMAIN req = Requests
    /\ \A r \in Requests : PreparedOK(r) /\ WonOK(r)

ListReader ==
    [kind : {"list"}, tenant : Tenants, filter : Filters,
     at : {"page", "count", "shown"}, cursor : Ids \cup {0},
     listed : Seq(SUBSET Ids), total : Nat, due : SUBSET Ids]

(* There is another page to ask for *)
Ahead == reader.at = "page" \/ (reader.at = "count" /\ reader.cursor # 0)

ListOK ==
    /\ reader \in ListReader
    /\ reader.due \subseteq Listable(reader.tenant, reader.filter)
    /\ \A p, q \in DOMAIN reader.listed : p < q =>
          \A i \in reader.listed[p], j \in reader.listed[q] : i < j
    /\ Ahead => \A i \in Shown : i <= reader.cursor
    /\ \A i \in reader.due : i \in Shown \/ (Ahead /\ i > reader.cursor)
    /\ reader.filter = "any" => Shown \subseteq Listable(reader.tenant, "any")
    /\ reader.filter = "any" /\ reader.at = "shown" =>
          Cardinality(Shown) <= reader.total

ReportReader ==
    [kind : {"report"}, tenant : Tenants, at : {"feedback", "shown"},
     interviews : SUBSET Ids, feedback : SUBSET Row.feedback]

ReportOK ==
    /\ reader \in ReportReader
    /\ IsFiniteSet(reader.interviews)
    /\ Cardinality(reader.feedback) <= Cardinality(reader.interviews)

FeedReader ==
    [kind : {"feed"}, at : {"lookup", "events", "404", "shown"},
     subscription : Ids, late : BOOLEAN, dead : BOOLEAN, events : SUBSET Ids]

(* A subscription that had been revoked still is, and an interview that was *)
(* found is still that of the subscription's interviewer                    *)
FeedOK ==
    /\ reader \in FeedReader
    /\ reader.subscription \in IdsOf(db.subscriptions)
    /\ reader.dead /\ ~reader.late =>
          \A s \in db.subscriptions : s.id = reader.subscription => s.revoked
    /\ reader.at \in {"events", "shown"} => ~reader.dead
    /\ reader.events \subseteq IdsOf(db.interviews)
    /\ reader.events # {} => reader.at = "shown"
    /\ \A i \in db.interviews : i.id \in reader.events =>
          \E s \in db.subscriptions :
             /\ s.id = reader.subscription
             /\ s.tenant = i.tenant /\ s.interviewer = i.interviewer

ReaderOK ==
    \/ reader = NoReader
    \/ ListOK \/ ReportOK \/ FeedOK

DatabaseOK == RowsOK /\ UniqueOK /\ TenantsOK /\ FiniteOK
Inv == DatabaseOK /\ RequestsOK /\ ReaderOK

-----------------------------------------------------------------------------
(* Tables and rows *)

LEMMA TablesAre ==
    Tables = {"tenants", "requisitions", "cases", "interviews", "feedback",
              "subscriptions"}
BY DEF Tables, Row

(* A field of a row of a table *)
LEMMA RowFields ==
    /\ \A x \in Row["tenants"] : x.id \in Tenants /\ x.admin \in Users
    /\ \A x \in Row["requisitions"] : x.id \in Ids /\ x.tenant \in Tenants
    /\ \A x \in Row["cases"] :
          /\ x.id \in Ids /\ x.tenant \in Tenants /\ x.requisition \in Ids
          /\ x.stage \in {"applied", "screening"}
    /\ \A x \in Row["interviews"] :
          x.id \in Ids /\ x.tenant \in Tenants /\ x.interviewer \in Users
    /\ \A x \in Row["feedback"] :
          x.interview \in Ids /\ x.tenant \in Tenants /\ x.interviewer \in Users
    /\ \A x \in Row["subscriptions"] :
          x.id \in Ids /\ x.tenant \in Tenants /\ x.interviewer \in Users
BY DEF Row

(* A role of an interviewer is one of the memberships given *)
LEMMA InterviewerRole ==
    ASSUME TenantsOK, NEW t \in Tenants, NEW u \in Users
    PROVE  RoleOf(t, u) = "interviewer" <=> Member[t][u] = "interviewer"
<1>1. CASE \E x \in db.tenants \ Seed.tenants : x.id = t /\ x.admin = u
    <2>1. t \notin IdsOf(Seed.tenants)
        BY <1>1 DEF TenantsOK
    <2>2. Member[t][u] = NoRole
        BY <2>1, MembershipAssumption DEF IdsOf
    <2>3. Member[t][u] # "interviewer"
        BY <2>2, MembersAssumption DEF Roles
    <2> QED
        BY <1>1, <2>3 DEF RoleOf
<1>2. CASE ~ \E x \in db.tenants \ Seed.tenants : x.id = t /\ x.admin = u
    BY <1>2 DEF RoleOf
<1> QED
    BY <1>1, <1>2

(* The ids of a finite table are finite *)
LEMMA FiniteIds ==
    ASSUME NEW rows, IsFiniteSet(rows)
    PROVE  IsFiniteSet(IdsOf(rows))
<1> DEFINE id == [x \in rows |-> x.id]
<1>1. id \in Surjection(rows, IdsOf(rows))
    BY DEF Surjection, IdsOf
<1> QED
    BY <1>1, FS_Surjection

LEMMA InitInv == Init => Inv
<1> SUFFICES ASSUME Init PROVE Inv
    OBVIOUS
<1>1. db = Seed
    BY DEF Init
<1>2. RowsOK
    <2>1. DOMAIN db = Tables
        BY <1>1, SeedAssumption
    <2>2. ASSUME NEW t \in Tables, NEW x \in db[t] PROVE x \in Row[t] /\ References(t, x)
        <3>1. x \in Row[t]
            BY <1>1, SeedAssumption
        <3>2. References(t, x)
            BY <1>1, ConsistencyAssumption DEF References
        <3> QED
            BY <3>1, <3>2
    <2> QED
        BY <2>1, <2>2 DEF RowsOK
<1>3. UniqueOK
    BY <1>1, ConsistencyAssumption DEF UniqueOK
<1>4. TenantsOK
    BY <1>1 DEF TenantsOK
<1>5. FiniteOK
    BY <1>1, SeedAssumption, TablesAre, FiniteIds DEF FiniteOK
<1>6. RequestsOK
    BY DEF Init, RequestsOK, PreparedOK, WonOK, Won, Idle
<1>7. ReaderOK
    BY DEF Init, ReaderOK
<1> QED
    BY <1>2, <1>3, <1>4, <1>5, <1>6, <1>7 DEF Inv, DatabaseOK

-----------------------------------------------------------------------------
(* What every change of the database does *)

(* y is x, perhaps in a later stage, revoked or expired *)
Later(t, x, y) ==
    CASE t = "cases" -> /\ y.id = x.id /\ y.tenant = x.tenant
                        /\ y.requisition = x.requisition /\ y.email = x.email
      [] t = "subscriptions" -> /\ y.id = x.id /\ y.tenant = x.tenant
                                /\ y.interviewer = x.interviewer
                                /\ x.revoked => y.revoked
      [] OTHER -> y = x

Grown ==
    /\ DOMAIN db' = Tables
    /\ \A t \in Tables : \A x \in db[t] : \E y \in db'[t] : Later(t, x, y)
    /\ \A t \in Tables : \A y \in db'[t] :
          /\ y \in Row[t]
          /\ \/ \E x \in db[t] : Later(t, x, y)
             \/ References(t, y) /\ (t # "feedback" => y.id \notin IdsOf(db[t]))

(* No row takes away what another refers to *)
LEMMA ReferencesStay ==
    ASSUME Grown, NEW t, NEW x, References(t, x)
    PROVE  References(t, x)'
<1>1. CASE t = "cases"
    <2>1. PICK q \in db.requisitions : q.id = x.requisition /\ q.tenant = x.tenant
        BY <1>1 DEF References
    <2>2. q \in db'.requisitions
        BY TablesAre DEF Grown, Later
    <2> QED
        BY <1>1, <2>1, <2>2 DEF References
<1>2. CASE t = "interviews"
    <2>1. PICK c \in db.cases : c.id = x.case /\ c.tenant = x.tenant
        BY <1>2 DEF References
    <2>2. \E d \in db'.cases : d.id = c.id /\ d.tenant = c.tenant
        BY TablesAre DEF Grown, Later
    <2> QED
        BY <1>2, <2>1, <2>2 DEF References
<1>3. CASE t = "feedback"
    <2>1. PICK i \in db.interviews :
             /\ i.id = x.interview
             /\ i.tenant = x.tenant /\ i.interviewer = x.interviewer
        BY <1>3 DEF References
    <2>2. i \in db'.interviews
        BY TablesAre DEF Grown, Later
    <2> QED
        BY <1>3, <2>1, <2>2 DEF References
<1>4. CASE t \notin {"cases", "interviews", "feedback"}
    BY <1>4 DEF References
<1> QED
    BY <1>1, <1>2, <1>3, <1>4

LEMMA GrownRows ==
    ASSUME RowsOK, Grown
    PROVE  RowsOK'
<1>1. ASSUME NEW t \in Tables, NEW y \in db'[t]
      PROVE  y \in Row[t] /\ References(t, y)'
    <2>1. y \in Row[t]
        BY DEF Grown
    <2>2. CASE References(t, y)
        BY <2>1, <2>2, ReferencesStay
    <2>3. CASE \E x \in db[t] : Later(t, x, y)
        <3>1. PICK x \in db[t] : Later(t, x, y)
            BY <2>3
        <3>2. References(t, x)'
            BY ReferencesStay DEF RowsOK
        <3>3. CASE t = "cases"
            BY <2>1, <3>1, <3>2, <3>3 DEF References, Later
        <3>4. CASE t = "subscriptions"
            BY <2>1, <3>1, <3>2, <3>4 DEF References, Later
        <3>5. CASE t \notin {"cases", "subscriptions"}
            BY <2>1, <3>1, <3>2, <3>5 DEF Later
        <3> QED
            BY <3>3, <3>4, <3>5
    <2> QED
        BY <2>1, <2>2, <2>3 DEF Grown
<1> QED
    BY <1>1 DEF RowsOK, Grown, Tables, Row

LEMMA GrownTenants ==
    ASSUME TenantsOK, Grown
    PROVE  TenantsOK'
<1>1. ASSUME NEW x \in Seed.tenants PROVE x \in db'.tenants
    BY TablesAre DEF TenantsOK, Grown, Later
<1>2. ASSUME NEW y \in db'.tenants, y \notin Seed.tenants
      PROVE  y.id \notin IdsOf(Seed.tenants)
    <2>1. \/ y \in db.tenants
          \/ y.id \notin IdsOf(db.tenants)
        BY TablesAre DEF Grown, Later
    <2>2. IdsOf(Seed.tenants) \subseteq IdsOf(db.tenants)
        BY DEF TenantsOK, IdsOf
    <2> QED
        BY <1>2, <2>1, <2>2 DEF TenantsOK
<1> QED
    BY <1>1, <1>2 DEF TenantsOK, IdsOf

(* A list, a report or a feed loses nothing by it, if the cases of the list *)
(* still match                                                              *)
LEMMA GrownList ==
    ASSUME ListOK, reader' = reader,
           Listable(reader.tenant, reader.filter) \subseteq
             Listable(reader.tenant, reader.filter)'
    PROVE  ListOK'
<1>1. reader.filter = "any" => Listable(reader.tenant, "any") \subseteq
                                 Listable(reader.tenant, "any")'
    OBVIOUS
<1> QED
    BY <1>1 DEF ListOK, ListReader, Ahead, Shown, Filters

LEMMA GrownReport ==
    ASSUME ReportOK, reader' = reader
    PROVE  ReportOK'
BY DEF ReportOK, ReportReader, Row

LEMMA GrownFeed ==
    ASSUME FeedOK, Grown, reader' = reader
    PROVE  FeedOK'
<1>1. reader.subscription \in IdsOf(db'.subscriptions)
    BY TablesAre DEF FeedOK, Grown, Later, IdsOf
<1>2. reader.events \subseteq IdsOf(db'.interviews)
    BY TablesAre DEF FeedOK, Grown, Later, IdsOf
<1>3. ASSUME NEW y \in db'.subscriptions, y.id = reader.subscription,
             reader.dead, ~reader.late
      PROVE  y.revoked
    <2>1. PICK x \in db.subscriptions : Later("subscriptions", x, y)
        BY <1>3, TablesAre DEF FeedOK, Grown
    <2>2. x.id = y.id /\ x.revoked
        BY <1>3, <2>1 DEF FeedOK, Later
    <2> QED
        BY <2>1, <2>2 DEF Later
<1>4. ASSUME NEW i \in db'.interviews, i.id \in reader.events
      PROVE  \E s \in db'.subscriptions :
                /\ s.id = reader.subscription
                /\ s.tenant = i.tenant /\ s.interviewer = i.interviewer
    <2>1. i \in db.interviews
        BY <1>4, TablesAre DEF FeedOK, Grown, Later
    <2>2. PICK s \in db.subscriptions :
                /\ s.id = reader.subscription
                /\ s.tenant = i.tenant /\ s.interviewer = i.interviewer
        BY <1>4, <2>1 DEF FeedOK
    <2>3. PICK y \in db'.subscriptions : Later("subscriptions", s, y)
        BY TablesAre DEF Grown
    <2> QED
        BY <2>2, <2>3 DEF Later
<1> QED
    BY <1>1, <1>2, <1>3, <1>4 DEF FeedOK, FeedReader, IdsOf

LEMMA GrownReader ==
    ASSUME ReaderOK, Grown, reader' = reader,
           ListOK => Listable(reader.tenant, reader.filter) \subseteq
                       Listable(reader.tenant, reader.filter)'
    PROVE  ReaderOK'
BY GrownList, GrownReport, GrownFeed DEF ReaderOK, NoReader

-----------------------------------------------------------------------------
(* Requests *)

LEMMA PreparedReferences ==
    ASSUME Grown, NEW r, req'[r] = req[r], References(req[r].table, req[r].row)
    PROVE  References(req[r].table, req[r].row)'
<1> SUFFICES ASSUME NEW t, NEW x, t = req[r].table, x = req[r].row
             PROVE  References(t, x)'
    BY DEF References
<1>1. References(t, x)
    OBVIOUS
<1> QED
    BY <1>1, ReferencesStay

(* What a request has prepared or won stays so while the database grows     *)
(* without taking an id and other requests end without winning              *)
LEMMA RequestStays ==
    ASSUME RequestsOK, Grown, NEW r \in Requests, req'[r] = req[r],
           \A t \in Numbered : IdsOf(db'[t]) \subseteq IdsOf(db[t]),
           \A q \in Requests :
              \/ req'[q] = req[q]
              \/ req'[q].at # "commit" /\ ~Won(q)'
    PROVE  PreparedOK(r)' /\ WonOK(r)'
<1>1. PreparedOK(r) /\ WonOK(r)
    BY DEF RequestsOK
<1>2. PreparedOK(r)'
    <2> SUFFICES ASSUME req[r].at = "commit" PROVE PreparedOK(r)'
        BY DEF PreparedOK
    <2>1. /\ req[r].table \in Tables /\ req[r].row \in Row[req[r].table]
          /\ References(req[r].table, req[r].row) /\ Fresh(r)
        BY <1>1 DEF PreparedOK
    <2>2. References(req[r].table, req[r].row)'
        BY <2>1, PreparedReferences
    <2>3. Fresh(r)'
        BY <2>1 DEF Fresh, IdsOf
    <2> QED
        BY <2>1, <2>2, <2>3 DEF PreparedOK, Tables, Row
<1>3. WonOK(r)'
    <2> SUFFICES ASSUME Won(r) PROVE WonOK(r)'
        BY DEF WonOK, Won
    <2> QED
        BY <1>1 DEF WonOK, Won, Grown, Later, Same
<1> QED
    BY <1>2, <1>3

LEMMA NotDuplicate ==
    ASSUME NEW table, NEW row, ~Duplicate(table, row), NEW x \in db[table],
           table \in {"tenants", "cases", "feedback"}
    PROVE  ~Same(table, x, row)
<1> SUFFICES ASSUME Same(table, x, row) PROVE FALSE
    OBVIOUS
<1>1. Keys(table, x) \cap Keys(table, row) # {}
    <2>1. CASE table = "tenants"
        BY <2>1 DEF Same, Keys
    <2>2. CASE table = "cases"
        BY <2>2 DEF Same, Keys
    <2>3. CASE table = "feedback"
        BY <2>3 DEF Same, Keys
    <2> QED
        BY <2>1, <2>2, <2>3
<1> QED
    BY <1>1 DEF Duplicate

LEMMA InsertGrows ==
    ASSUME DatabaseOK, NEW r \in Requests, req[r].at = "commit", PreparedOK(r),
           ~Duplicate(req[r].table, req[r].row),
           db' = [db EXCEPT ![req[r].table] = @ \cup {req[r].row}]
    PROVE  /\ Grown /\ DatabaseOK'
           /\ \A t \in Tables \ {req[r].table} : db'[t] = db[t]
           /\ db'[req[r].table] = db[req[r].table] \cup {req[r].row}
<1> DEFINE table == req[r].table
           row == req[r].row
<1>1. /\ table \in Tables /\ row \in Row[table] /\ References(table, row) /\ Fresh(r)
    BY DEF PreparedOK
<1>2. /\ DOMAIN db' = Tables
      /\ db'[table] = db[table] \cup {row}
      /\ \A t \in Tables \ {table} : db'[t] = db[t]
    BY <1>1 DEF DatabaseOK, RowsOK
<1>3. table \in Numbered => row.id \notin IdsOf(db[table])
    BY <1>1 DEF Fresh
<1>4. table = "tenants" => row.id \notin IdsOf(db[table])
    BY NotDuplicate DEF Same, IdsOf, Numbered
<1>5. table = "feedback" => \A x \in db[table] : x.interview # row.interview
    BY NotDuplicate DEF Same, Numbered
<1>6. Grown
    <2>1. ASSUME NEW t \in Tables, NEW x \in db[t]
          PROVE  \E y \in db'[t] : Later(t, x, y)
        <3>1. x \in db'[t]
            BY <1>2
        <3> QED
            BY <3>1 DEF Later
    <2>2. ASSUME NEW t \in Tables, NEW y \in db'[t]
          PROVE  /\ y \in Row[t]
                 /\ \/ \E x \in db[t] : Later(t, x, y)
                    \/ References(t, y) /\ (t # "feedback" => y.id \notin IdsOf(db[t]))
        <3>1. CASE y \in db[t]
            BY <3>1 DEF Later, DatabaseOK, RowsOK
        <3>2. CASE y \notin db[t]
            <4>1. t = table /\ y = row
                BY <1>2, <3>2
            <4>2. table # "feedback" => row.id \notin IdsOf(db[table])
                BY <1>1, <1>3, <1>4, TablesAre DEF Numbered
            <4> HIDE DEF table, row
            <4> QED
                BY <1>1, <4>1, <4>2
        <3> QED
            BY <3>1, <3>2
    <2> QED
        BY <1>2, <2>1, <2>2 DEF Grown
<1>7. UniqueOK'
    <2>1. ASSUME NEW t \in {"interviews", "subscriptions"},
                 NEW x \in db'[t], NEW y \in db'[t], x.id = y.id
          PROVE  x = y
        <3>1. t \in Tables /\ t \in Numbered
            BY TablesAre DEF Numbered
        <3>2. \/ db'[t] = db[t]
              \/ db'[t] = db[t] \cup {row} /\ row.id \notin IdsOf(db[t])
            BY <1>2, <1>3, <3>1
        <3>3. \A z, w \in db[t] : z.id = w.id => z = w
            BY DEF DatabaseOK, UniqueOK
        <3> HIDE DEF table, row
        <3>4. CASE x \in db[t] /\ y \in db[t]
            BY <2>1, <3>3, <3>4
        <3>5. CASE ~(x \in db[t] /\ y \in db[t])
            <4>1. row.id \notin IdsOf(db[t]) /\ (x = row \/ y = row)
                BY <3>2, <3>5
            <4> QED
                BY <2>1, <3>2, <4>1 DEF IdsOf
        <3> QED
            BY <3>4, <3>5
    <2>2. \A x, y \in db'["feedback"] : x.interview = y.interview => x = y
        BY <1>2, <1>5, TablesAre DEF DatabaseOK, UniqueOK
    <2> QED
        BY <2>1, <2>2 DEF UniqueOK
<1>8. ASSUME NEW t \in Tables, IsFiniteSet(IdsOf(db[t])) PROVE IsFiniteSet(IdsOf(db'[t]))
    <2>1. CASE t = table
        <3>1. IdsOf(db'[t]) = IdsOf(db[t]) \cup {row.id}
            BY <1>2, <2>1 DEF IdsOf
        <3>2. IsFiniteSet(IdsOf(db[t]) \cup {row.id})
            BY <1>8, FS_AddElement
        <3> QED
            BY <3>1, <3>2
    <2>2. CASE t # table
        BY <1>2, <1>8, <2>2
    <2> QED
        BY <2>1, <2>2
<1>9. FiniteOK'
    BY <1>8, TablesAre DEF DatabaseOK, FiniteOK, IdsOf
<1> QED
    BY <1>2, <1>6, <1>7, <1>9, GrownRows, GrownTenants DEF DatabaseOK

LEMMA CommitInv ==
    ASSUME Inv, NEW r \in Requests, Commit(r)
    PROVE  Inv'
<1> DEFINE table == req[r].table
           row == req[r].row
<1>1. req[r].at = "commit" /\ reader' = reader /\ DOMAIN req = Requests
    BY DEF Commit, Inv, RequestsOK
<1>2. /\ PreparedOK(r) /\ table \in Tables /\ row \in Row[table]
      /\ References(table, row) /\ Fresh(r)
    BY <1>1 DEF Inv, RequestsOK, PreparedOK
<1>3. CASE Duplicate(table, row) /\ Finish(r, 500) /\ UNCHANGED db
    <2>1. Grown
        BY <1>3 DEF Grown, Later, Inv, DatabaseOK, RowsOK
    <2>2. /\ DOMAIN req' = Requests /\ req'[r].at # "commit" /\ ~Won(r)'
          /\ \A q \in Requests \ {r} : req'[q] = req[q]
        BY <1>1, <1>3 DEF Finish, Won
    <2>3. PreparedOK(r)' /\ WonOK(r)'
        BY <2>2 DEF PreparedOK, WonOK
    <2>4. ASSUME NEW q \in Requests \ {r} PROVE PreparedOK(q)' /\ WonOK(q)'
        BY <1>3, <2>1, <2>2, RequestStays DEF Inv
    <2>5. RequestsOK'
        BY <2>2, <2>3, <2>4 DEF RequestsOK
    <2>6. DatabaseOK'
        BY <1>3, <2>1, GrownRows, GrownTenants
        DEF Inv, DatabaseOK, UniqueOK, FiniteOK, IdsOf
    <2>7. ReaderOK'
        BY <1>1, <1>3, <2>1, GrownReader DEF Inv, Listable, Of, IdsOf
    <2> QED
        BY <2>5, <2>6, <2>7 DEF Inv
<1>4. CASE ~Duplicate(table, row) /\ Finish(r, 201)
             /\ db' = [db EXCEPT ![table] = @ \cup {row}]
    <2>1. /\ Grown /\ DatabaseOK'
          /\ \A t \in Tables \ {table} : db'[t] = db[t]
          /\ db'[table] = db[table] \cup {row}
        BY <1>1, <1>2, <1>4, InsertGrows DEF Inv
    <2>2. /\ DOMAIN req' = Requests
          /\ req'[r].at = "end" /\ req'[r].table = table /\ req'[r].row = row
          /\ Won(r)'
          /\ \A q \in Requests \ {r} : req'[q] = req[q]
        BY <1>1, <1>4 DEF Finish, Won
    <2>3. ASSUME NEW q \in Requests \ {r}, Won(q), req[q].table = table
          PROVE  ~Same(table, row, req[q].row) /\ ~Same(table, req[q].row, row)
        <3>1. PICK x \in db[table] : Same(table, x, req[q].row)
            BY <2>3 DEF Inv, RequestsOK, WonOK
        <3>2. ~Same(table, x, row)
            <4>1. CASE table \in {"tenants", "cases", "feedback"}
                BY <1>4, <4>1, NotDuplicate
            <4>2. CASE table \in Numbered \ {"cases"}
                BY <1>2, <4>2 DEF Fresh, Same, IdsOf
            <4> QED
                BY <1>2, <4>1, <4>2, TablesAre DEF Numbered
        <3> QED
            BY <3>1, <3>2 DEF Same
    <2>4. WonOK(r)'
        <3>1. row \in db'[table] /\ Same(table, row, row)
            BY <2>1 DEF Same
        <3> QED
            BY <1>2, <2>2, <2>3, <3>1 DEF WonOK, Won, Tables, Row
    <2>5. ASSUME NEW q \in Requests \ {r} PROVE PreparedOK(q)' /\ WonOK(q)'
        <3>1. PreparedOK(q) /\ WonOK(q) /\ req'[q] = req[q]
            BY <2>2 DEF Inv, RequestsOK
        <3>2. PreparedOK(q)'
            <4> SUFFICES ASSUME req[q].at = "commit" PROVE PreparedOK(q)'
                BY <3>1 DEF PreparedOK
            <4>1. /\ req[q].table \in Tables /\ req[q].row \in Row[req[q].table]
                  /\ References(req[q].table, req[q].row) /\ Fresh(q)
                BY <3>1 DEF PreparedOK
            <4>2. References(req[q].table, req[q].row)'
                BY <2>1, <3>1, <4>1, PreparedReferences
            <4>3. ASSUME req[q].table \in Numbered
                  PROVE  req[q].row.id \notin IdsOf(db'[req[q].table])
                <5>1. req[q].row.id \notin IdsOf(db[req[q].table])
                    BY <4>1, <4>3 DEF Fresh
                <5>2. req[q].table = table => req[q].row.id # row.id
                    BY <1>1, <1>2, <4>3 DEF Fresh
                <5> QED
                    BY <2>1, <4>1, <5>1, <5>2 DEF IdsOf
            <4>4. Fresh(q)'
                BY <2>2, <3>1, <4>1, <4>3 DEF Fresh, IdsOf
            <4> QED
                BY <3>1, <4>1, <4>2, <4>4 DEF PreparedOK, Tables, Row
        <3>3. WonOK(q)'
            <4> SUFFICES ASSUME Won(q) PROVE WonOK(q)'
                BY <3>1 DEF WonOK, Won
            <4>1. /\ req[q].table \in Tables
                  /\ \E x \in db[req[q].table] : Same(req[q].table, x, req[q].row)
                  /\ \A p \in Requests \ {q} : Won(p) /\ req[p].table = req[q].table =>
                        ~Same(req[q].table, req[q].row, req[p].row)
                BY <3>1 DEF WonOK
            <4>2. db[req[q].table] \subseteq db'[req[q].table]
                BY <2>1, <4>1
            <4>3. ASSUME NEW p \in Requests \ {q}, Won(p)', req'[p].table = req[q].table
                  PROVE  ~Same(req[q].table, req[q].row, req'[p].row)
                <5>1. CASE p = r
                    BY <2>2, <2>3, <4>3, <5>1
                <5>2. CASE p # r
                    BY <2>2, <4>1, <4>3, <5>2 DEF Won
                <5> QED
                    BY <5>1, <5>2
            <4> QED
                BY <3>1, <4>1, <4>2, <4>3 DEF WonOK, Won, Same, Tables, Row
        <3> QED
            BY <3>2, <3>3
    <2>6. RequestsOK'
        BY <2>2, <2>4, <2>5 DEF RequestsOK, PreparedOK
    <2>7. ReaderOK'
        <3>1. ListOK => Listable(reader.tenant, reader.filter) \subseteq
                          Listable(reader.tenant, reader.filter)'
            BY <1>1, <2>1, TablesAre DEF Listable, Of, IdsOf
        <3> QED
            BY <1>1, <2>1, <3>1, GrownReader DEF Inv
    <2> QED
        BY <2>1, <2>6, <2>7 DEF Inv
<1> QED
    BY <1>3, <1>4 DEF Commit

-----------------------------------------------------------------------------
(* Steps that insert nothing *)

LEMMA UnchangedGrows == RowsOK /\ UNCHANGED db => Grown
BY DEF RowsOK, Grown, Later

LEMMA ChangeInv ==
    ASSUME Inv, Grown, UniqueOK', DOMAIN req' = Requests,
           \A t \in Numbered : IdsOf(db'[t]) = IdsOf(db[t]),
           \A q \in Requests :
              \/ req'[q] = req[q]
              \/ req'[q].at \notin {"idle", "commit"} /\ ~Won(q)'
    PROVE  DatabaseOK' /\ RequestsOK'
<1>1. RowsOK' /\ TenantsOK'
    BY GrownRows, GrownTenants DEF Inv, DatabaseOK
<1>2. FiniteOK'
    BY DEF Inv, DatabaseOK, FiniteOK, Numbered, IdsOf
<1>3. ASSUME NEW q \in Requests PROVE PreparedOK(q)' /\ WonOK(q)'
    <2>1. CASE req'[q] = req[q]
        BY <2>1, RequestStays DEF Inv
    <2>2. CASE req'[q].at # "commit" /\ ~Won(q)'
        BY <2>2 DEF PreparedOK, WonOK
    <2> QED
        BY <2>1, <2>2
<1> QED
    BY <1>1, <1>2, <1>3 DEF DatabaseOK, RequestsOK

(* A request that ends without winning *)
LEMMA RefuseEnds ==
    ASSUME DOMAIN req = Requests, NEW r \in Requests, NEW answer, answer # 201,
           Refuse(r, answer)
    PROVE  /\ DOMAIN req' = Requests
           /\ \A q \in Requests :
                 \/ req'[q] = req[q]
                 \/ req'[q].at \notin {"idle", "commit"} /\ ~Won(q)'
BY DEF Refuse, Won

LEMMA SameDatabase ==
    ASSUME Inv, UNCHANGED <<db, reader>>, DOMAIN req' = Requests,
           \A q \in Requests :
              \/ req'[q] = req[q]
              \/ req'[q].at \notin {"idle", "commit"} /\ ~Won(q)'
    PROVE  Inv'
<1>1. Grown
    BY UnchangedGrows DEF Inv, DatabaseOK
<1>2. UniqueOK'
    BY DEF Inv, DatabaseOK, UniqueOK
<1>3. DatabaseOK' /\ RequestsOK'
    BY <1>1, <1>2, ChangeInv DEF IdsOf
<1>4. ReaderOK'
    BY <1>1, GrownReader DEF Inv, Listable, Of, IdsOf
<1> QED
    BY <1>3, <1>4 DEF Inv

LEMMA RefuseInv ==
    ASSUME Inv, NEW r \in Requests, NEW answer, answer # 201,
           Refuse(r, answer), UNCHANGED <<db, reader>>
    PROVE  Inv'
BY RefuseEnds, SameDatabase DEF Inv, RequestsOK

LEMMA ExpireInv == Inv /\ Expire => Inv'
<1> SUFFICES ASSUME Inv, Expire PROVE Inv'
    OBVIOUS
<1> PICK x \in db.subscriptions :
       /\ db' = [db EXCEPT !.subscriptions =
                    (@ \ {x}) \cup {[x EXCEPT !.expired = TRUE]}]
       /\ UNCHANGED <<req, reader>>
    BY DEF Expire
<1> DEFINE y == [x EXCEPT !.expired = TRUE]
<1>1. DOMAIN db = Tables /\ x \in Row["subscriptions"]
    BY TablesAre DEF Inv, DatabaseOK, RowsOK
<1>2. /\ y \in Row["subscriptions"]
      /\ y.id = x.id /\ y.tenant = x.tenant /\ y.interviewer = x.interviewer
      /\ y.revoked = x.revoked
    BY <1>1 DEF Row
<1> HIDE DEF y
<1>3. /\ DOMAIN db' = Tables
      /\ \A t \in Tables \ {"subscriptions"} : db'[t] = db[t]
      /\ db'["subscriptions"] = (db["subscriptions"] \ {x}) \cup {y}
    BY <1>1, TablesAre DEF y
<1>4. Grown
    <2>1. \A z \in db["subscriptions"] : \E w \in db'["subscriptions"] :
             Later("subscriptions", z, w)
        BY <1>2, <1>3 DEF Later
    <2>2. \A w \in db'["subscriptions"] :
             w \in Row["subscriptions"] /\ \E z \in db["subscriptions"] :
                Later("subscriptions", z, w)
        BY <1>2, <1>3, TablesAre DEF Later, Inv, DatabaseOK, RowsOK
    <2>3. \A t \in Tables \ {"subscriptions"} : \A z \in db[t] :
             z \in db'[t] /\ z \in Row[t] /\ Later(t, z, z)
        BY <1>3 DEF Later, Inv, DatabaseOK, RowsOK
    <2> QED
        BY <1>3, <2>1, <2>2, <2>3 DEF Grown
<1>5. UniqueOK'
    BY <1>2, <1>3, TablesAre DEF Inv, DatabaseOK, UniqueOK
<1>6. \A t \in Numbered : IdsOf(db'[t]) = IdsOf(db[t])
    BY <1>2, <1>3, TablesAre DEF Numbered, IdsOf
<1>7. DatabaseOK' /\ RequestsOK'
    BY <1>4, <1>5, <1>6, ChangeInv DEF Inv, RequestsOK
<1>8. db'.cases = db.cases
    BY <1>3, TablesAre
<1>9. ReaderOK'
    BY <1>4, <1>8, GrownReader DEF Inv, Listable, Of, IdsOf
<1> QED
    BY <1>7, <1>9 DEF Inv

LEMMA RevokeInv ==
    ASSUME Inv, NEW r \in Requests, Revoke(r)
    PROVE  Inv'
<1> DEFINE s == req[r].subscription
           Now(x) == IF x.id = s THEN [x EXCEPT !.revoked = TRUE] ELSE x
<1>1. /\ DOMAIN db = Tables
      /\ db' = [db EXCEPT !.subscriptions = {Now(x) : x \in @}]
      /\ Refuse(r, 204) /\ reader' = reader
    BY DEF Revoke, Inv, DatabaseOK, RowsOK
<1>2. ASSUME NEW x \in db["subscriptions"]
      PROVE  /\ Now(x) \in Row["subscriptions"]
             /\ Now(x).id = x.id /\ Later("subscriptions", x, Now(x))
    <2>1. x \in Row["subscriptions"]
        BY TablesAre DEF Inv, DatabaseOK, RowsOK
    <2> QED
        BY <2>1 DEF Row, Later
<1>3. /\ DOMAIN db' = Tables
      /\ \A t \in Tables \ {"subscriptions"} : db'[t] = db[t]
      /\ db'["subscriptions"] = {Now(x) : x \in db["subscriptions"]}
    BY <1>1, TablesAre
<1> HIDE DEF Now
<1>4. Grown
    <2>1. \A z \in db["subscriptions"] : \E w \in db'["subscriptions"] :
             Later("subscriptions", z, w)
        BY <1>2, <1>3
    <2>2. \A w \in db'["subscriptions"] :
             w \in Row["subscriptions"] /\ \E z \in db["subscriptions"] :
                Later("subscriptions", z, w)
        BY <1>2, <1>3
    <2>3. \A t \in Tables \ {"subscriptions"} : \A z \in db[t] :
             z \in db'[t] /\ z \in Row[t] /\ Later(t, z, z)
        BY <1>3 DEF Later, Inv, DatabaseOK, RowsOK
    <2> QED
        BY <1>3, <2>1, <2>2, <2>3 DEF Grown
<1>5. UniqueOK'
    BY <1>2, <1>3, TablesAre DEF Inv, DatabaseOK, UniqueOK
<1>6. \A t \in Numbered : IdsOf(db'[t]) = IdsOf(db[t])
    BY <1>2, <1>3, TablesAre DEF Numbered, IdsOf
<1>7. DatabaseOK' /\ RequestsOK'
    BY <1>1, <1>4, <1>5, <1>6, RefuseEnds, ChangeInv DEF Inv, RequestsOK
<1>8. db'.cases = db.cases
    BY <1>3, TablesAre
<1>9. ReaderOK'
    BY <1>1, <1>4, <1>8, GrownReader DEF Inv, Listable, Of, IdsOf
<1> QED
    BY <1>7, <1>9 DEF Inv

(* A moved case leaves the lists of its old stage, and what is due in them *)
LEMMA MoveInv == Inv /\ Move => Inv'
<1> SUFFICES ASSUME Inv, Move PROVE Inv'
    OBVIOUS
<1> PICK x \in db.cases :
       /\ x.stage = "applied"
       /\ db' = [db EXCEPT !.cases =
                    (@ \ {x}) \cup {[x EXCEPT !.stage = "screening"]}]
       /\ reader' = IF reader.kind = "list" /\ reader.filter = "applied"
                    THEN [reader EXCEPT !.due = @ \ {x.id}] ELSE reader
       /\ UNCHANGED req
    BY DEF Move
<1> DEFINE y == [x EXCEPT !.stage = "screening"]
<1>1. DOMAIN db = Tables /\ x \in Row["cases"]
    BY TablesAre DEF Inv, DatabaseOK, RowsOK
<1>2. /\ y \in Row["cases"]
      /\ y.id = x.id /\ y.tenant = x.tenant /\ y.requisition = x.requisition
      /\ y.email = x.email /\ y.stage = "screening"
    BY <1>1 DEF Row
<1> HIDE DEF y
<1>3. /\ DOMAIN db' = Tables
      /\ \A t \in Tables \ {"cases"} : db'[t] = db[t]
      /\ db'["cases"] = (db["cases"] \ {x}) \cup {y}
    BY <1>1, TablesAre DEF y
<1>4. Grown
    <2>1. \A z \in db["cases"] : \E w \in db'["cases"] : Later("cases", z, w)
        BY <1>2, <1>3 DEF Later
    <2>2. \A w \in db'["cases"] :
             w \in Row["cases"] /\ \E z \in db["cases"] : Later("cases", z, w)
        BY <1>2, <1>3, TablesAre DEF Later, Inv, DatabaseOK, RowsOK
    <2>3. \A t \in Tables \ {"cases"} : \A z \in db[t] :
             z \in db'[t] /\ z \in Row[t] /\ Later(t, z, z)
        BY <1>3 DEF Later, Inv, DatabaseOK, RowsOK
    <2> QED
        BY <1>3, <2>1, <2>2, <2>3 DEF Grown
<1>5. UniqueOK'
    BY <1>2, <1>3, TablesAre DEF Inv, DatabaseOK, UniqueOK
<1>6. \A t \in Numbered : IdsOf(db'[t]) = IdsOf(db[t])
    BY <1>2, <1>3, TablesAre DEF Numbered, IdsOf
<1>7. DatabaseOK' /\ RequestsOK'
    BY <1>4, <1>5, <1>6, ChangeInv DEF Inv, RequestsOK
<1>8. ASSUME NEW t, NEW filter \in {"any", "screening"}
      PROVE  Listable(t, filter) \subseteq Listable(t, filter)'
    BY <1>2, <1>3, TablesAre DEF Listable, Of, IdsOf, Matches
<1>9. ASSUME NEW t
      PROVE  Listable(t, "applied") \ {x.id} \subseteq Listable(t, "applied")'
    BY <1>2, <1>3, TablesAre DEF Listable, Of, IdsOf, Matches
<1>10. CASE reader.kind = "list" /\ reader.filter = "applied"
    <2>1. reader' = [reader EXCEPT !.due = @ \ {x.id}]
        BY <1>10
    <2>2. ListOK
        BY <1>10 DEF Inv, ReaderOK, NoReader, ReportOK, ReportReader, FeedOK, FeedReader
    <2>3. /\ reader' \in ListReader
          /\ reader'.tenant = reader.tenant /\ reader'.filter = "applied"
          /\ reader'.at = reader.at /\ reader'.cursor = reader.cursor
          /\ reader'.listed = reader.listed /\ reader'.total = reader.total
          /\ reader'.due = reader.due \ {x.id}
        BY <1>10, <2>1, <2>2 DEF ListOK, ListReader
    <2>4. (reader.due \subseteq Listable(reader.tenant, reader.filter))'
        <3> SUFFICES ASSUME NEW t, t = reader.tenant
                     PROVE  (reader.due \subseteq Listable(reader.tenant, reader.filter))'
            OBVIOUS
        <3>1. reader.due \subseteq Listable(t, "applied")
            BY <1>10, <2>2 DEF ListOK
        <3>2. reader'.due \subseteq Listable(t, "applied")'
            BY <1>9, <2>3, <3>1
        <3> QED
            BY <2>3, <3>2 DEF Listable, Of, IdsOf, Matches
    <2>5. Shown' = Shown /\ Ahead' = Ahead
        BY <2>3 DEF Shown, Ahead
    <2>6. ListOK'
        <3>1. /\ \A p, q \in DOMAIN reader.listed : p < q =>
                    \A i \in reader.listed[p], j \in reader.listed[q] : i < j
              /\ Ahead => \A i \in Shown : i <= reader.cursor
              /\ \A i \in reader.due : i \in Shown \/ (Ahead /\ i > reader.cursor)
            BY <2>2 DEF ListOK
        <3>2. \A i \in reader'.due : i \in Shown' \/ (Ahead' /\ i > reader'.cursor)
            BY <2>3, <2>5, <3>1
        <3>3. Ahead' => \A i \in Shown' : i <= reader'.cursor
            BY <2>3, <2>5, <3>1
        <3>4. (reader \in ListReader)'
            BY <2>3 DEF ListReader, Filters
        <3>5. \A p, q \in DOMAIN reader'.listed : p < q =>
                 \A i \in reader'.listed[p], j \in reader'.listed[q] : i < j
            BY <2>3, <3>1
        <3> QED
            BY <2>3, <2>4, <3>2, <3>3, <3>4, <3>5 DEF ListOK
    <2> QED
        BY <1>7, <2>6 DEF Inv, ReaderOK
<1>11. CASE ~(reader.kind = "list" /\ reader.filter = "applied")
    <2>1. reader' = reader
        BY <1>11
    <2>2. ListOK => Listable(reader.tenant, reader.filter) \subseteq
                      Listable(reader.tenant, reader.filter)'
        <3> SUFFICES ASSUME ListOK
                     PROVE  Listable(reader.tenant, reader.filter) \subseteq
                              Listable(reader.tenant, reader.filter)'
            OBVIOUS
        <3>1. reader.filter \in {"any", "screening"}
            BY <1>11 DEF ListOK, ListReader, Filters
        <3> QED
            BY <1>8, <2>1, <3>1 DEF Listable, Of, IdsOf, Matches
    <2> QED
        BY <1>4, <1>7, <2>1, <2>2, GrownReader DEF Inv
<1> QED
    BY <1>10, <1>11

-----------------------------------------------------------------------------
(* Requests that begin *)

LEMMA PrepareInv ==
    ASSUME Inv, NEW r \in Requests, NEW table \in Tables, NEW row \in Row[table],
           Prepare(r, table, row), UNCHANGED <<db, reader>>, req[r].at = "idle",
           References(table, row), table \in Numbered => row.id \in Unused(table)
    PROVE  Inv'
<1>1. Grown
    BY UnchangedGrows DEF Inv, DatabaseOK
<1>2. /\ DOMAIN req' = Requests
      /\ req'[r].at = "commit" /\ req'[r].table = table /\ req'[r].row = row
      /\ \A q \in Requests \ {r} : req'[q] = req[q]
    BY DEF Inv, RequestsOK, Prepare
<1>3. ASSUME table \in Numbered
      PROVE  /\ row.id \notin IdsOf(db[table])
             /\ \A q \in Requests : req[q].at = "commit" /\ req[q].table = table =>
                   req[q].row.id # row.id
    BY <1>3 DEF Unused
<1>4. PreparedOK(r)'
    <2>1. Fresh(r)'
        BY <1>2, <1>3 DEF Fresh, IdsOf
    <2>2. References(table, row)'
        BY <1>1, ReferencesStay
    <2>3. References(req[r].table, req[r].row)'
        BY <1>2, <2>2 DEF References
    <2> QED
        BY <1>2, <2>1, <2>3 DEF PreparedOK, Tables, Row
<1>5. ASSUME NEW q \in Requests \ {r} PROVE PreparedOK(q)'
    <2> SUFFICES ASSUME req[q].at = "commit" PROVE PreparedOK(q)'
        BY <1>2 DEF PreparedOK
    <2>1. /\ req[q].table \in Tables /\ req[q].row \in Row[req[q].table]
          /\ References(req[q].table, req[q].row) /\ Fresh(q)
        BY DEF Inv, RequestsOK, PreparedOK
    <2>2. References(req[q].table, req[q].row)'
        BY <1>1, <1>2, <2>1, PreparedReferences
    <2>3. Fresh(q)'
        BY <1>2, <1>3, <2>1 DEF Fresh, IdsOf
    <2> QED
        BY <1>2, <2>1, <2>2, <2>3 DEF PreparedOK, Tables, Row
<1>6. ASSUME NEW q \in Requests PROVE WonOK(q)'
    <2>1. WonOK(q) /\ \A p \in Requests : Won(p)' => req'[p] = req[p] /\ Won(p)
        BY <1>2 DEF Inv, RequestsOK, Won
    <2> QED
        BY <2>1 DEF WonOK, Same, Tables, Row
<1>7. RequestsOK'
    BY <1>2, <1>4, <1>5, <1>6 DEF RequestsOK
<1>8. DatabaseOK'
    BY <1>1, GrownRows, GrownTenants DEF Inv, DatabaseOK, UniqueOK, FiniteOK, IdsOf
<1>9. ReaderOK'
    BY <1>1, GrownReader DEF Inv, Listable, Of, IdsOf
<1> QED
    BY <1>7, <1>8, <1>9 DEF Inv

LEMMA BeginInv ==
    ASSUME Inv, NEW r \in Requests, Begin(r)
    PROVE  Inv'
<1>1. req[r].at = "idle" /\ UNCHANGED <<db, reader>>
    BY DEF Begin
<1>2. /\ Refuse(r, 403) => Inv'
      /\ Refuse(r, 404) => Inv'
      /\ Refuse(r, 409) => Inv'
    BY <1>1, RefuseInv
<1>3. \A table : NewId(table) \subseteq Unused(table) /\ Unused(table) \subseteq Ids
    BY DEF NewId, Unused
<1>4. ASSUME CreateTenant(r) PROVE Inv'
    <2>1. PICK t \in Tenants, u \in Users :
             \/ Refuse(r, 409)
             \/ Prepare(r, "tenants", [id |-> t, admin |-> u,
                                       insertsUser |-> u \notin KnownUsers])
        BY <1>4 DEF CreateTenant
    <2> DEFINE row == [id |-> t, admin |-> u, insertsUser |-> u \notin KnownUsers]
    <2>2. row \in Row["tenants"] /\ "tenants" \in Tables
        BY TablesAre DEF Row
    <2>3. References("tenants", row) /\ "tenants" \notin Numbered
        BY DEF References, Numbered
    <2> HIDE DEF row
    <2>4. ASSUME Prepare(r, "tenants", row) PROVE Inv'
        BY <1>1, <2>2, <2>3, <2>4, PrepareInv
    <2> QED
        BY <1>2, <2>1, <2>4 DEF row
<1>5. ASSUME CreateRequisition(r) PROVE Inv'
    <2>1. PICK t \in Tenants, i \in NewId("requisitions") :
             Prepare(r, "requisitions", [id |-> i, tenant |-> t])
        BY <1>5 DEF CreateRequisition
    <2> DEFINE row == [id |-> i, tenant |-> t]
    <2>2. /\ row \in Row["requisitions"] /\ "requisitions" \in Tables
          /\ row.id \in Unused("requisitions")
        BY <1>3, TablesAre DEF Row
    <2>3. References("requisitions", row)
        BY DEF References
    <2>4. Prepare(r, "requisitions", row)
        BY <2>1
    <2> HIDE DEF row
    <2> QED
        BY <1>1, <2>2, <2>3, <2>4, PrepareInv
<1>6. ASSUME CreateCandidate(r) PROVE Inv'
    <2>1. PICK t \in Tenants, q \in Ids, e \in Emails :
             \/ Refuse(r, 404)
             \/ Refuse(r, 409)
             \/ /\ RequisitionExists(q, t)
                /\ \E i \in Unused("cases") :
                      Prepare(r, "cases",
                         [id |-> i, tenant |-> t, requisition |-> q, email |-> e,
                          stage |-> "applied"])
        BY <1>6 DEF CreateCandidate
    <2>2. ASSUME RequisitionExists(q, t), NEW i \in Unused("cases"),
                 Prepare(r, "cases",
                    [id |-> i, tenant |-> t, requisition |-> q, email |-> e,
                     stage |-> "applied"])
          PROVE  Inv'
        <3> DEFINE row == [id |-> i, tenant |-> t, requisition |-> q, email |-> e,
                           stage |-> "applied"]
        <3>1. /\ row \in Row["cases"] /\ "cases" \in Tables
              /\ row.id \in Unused("cases")
            BY <1>3, TablesAre DEF Row
        <3>2. References("cases", row)
            BY <2>2 DEF References, RequisitionExists, IdsOf, Of
        <3>3. Prepare(r, "cases", row)
            BY <2>2
        <3> HIDE DEF row
        <3> QED
            BY <1>1, <3>1, <3>2, <3>3, PrepareInv
    <2> QED
        BY <1>2, <2>1, <2>2
<1>7. ASSUME ScheduleInterview(r) PROVE Inv'
    <2>1. PICK t \in Tenants, c \in Ids, u \in Users :
             \/ Refuse(r, 404)
             \/ /\ c \in IdsOf(Of("cases", t)) /\ InterviewerExists(u, t)
                /\ \E i \in NewId("interviews") :
                      Prepare(r, "interviews", [id |-> i, tenant |-> t,
                                                case |-> c, interviewer |-> u])
        BY <1>7 DEF ScheduleInterview
    <2>2. ASSUME c \in IdsOf(Of("cases", t)), InterviewerExists(u, t),
                 NEW i \in NewId("interviews"),
                 Prepare(r, "interviews", [id |-> i, tenant |-> t,
                                           case |-> c, interviewer |-> u])
          PROVE  Inv'
        <3> DEFINE row == [id |-> i, tenant |-> t, case |-> c, interviewer |-> u]
        <3>1. /\ row \in Row["interviews"] /\ "interviews" \in Tables
              /\ row.id \in Unused("interviews")
            BY <1>3, TablesAre DEF Row
        <3>2. Member[t][u] = "interviewer"
            BY <2>2, InterviewerRole DEF InterviewerExists, Inv, DatabaseOK
        <3>3. References("interviews", row)
            BY <2>2, <3>2 DEF References, IdsOf, Of
        <3>4. Prepare(r, "interviews", row)
            BY <2>2
        <3> HIDE DEF row
        <3> QED
            BY <1>1, <3>1, <3>3, <3>4, PrepareInv
    <2> QED
        BY <1>2, <2>1, <2>2
<1>8. ASSUME SubmitFeedback(r) PROVE Inv'
    <2>1. PICK t \in Tenants, u \in Users, i \in Ids :
             \/ Refuse(r, 404)
             \/ \E x \in Of("interviews", t) :
                   /\ x.id = i
                   /\ \/ Refuse(r, 403)
                      \/ Refuse(r, 409)
                      \/ Prepare(r, "feedback",
                            [interview |-> i, tenant |-> x.tenant,
                             interviewer |-> x.interviewer])
        BY <1>8 DEF SubmitFeedback
    <2>2. ASSUME NEW x \in Of("interviews", t), x.id = i,
                 Prepare(r, "feedback", [interview |-> i, tenant |-> x.tenant,
                                         interviewer |-> x.interviewer])
          PROVE  Inv'
        <3> DEFINE row == [interview |-> i, tenant |-> x.tenant,
                           interviewer |-> x.interviewer]
        <3>1. x \in db["interviews"] /\ x \in Row["interviews"]
            BY TablesAre DEF Of, Inv, DatabaseOK, RowsOK
        <3>2. x.tenant \in Tenants /\ x.interviewer \in Users
            BY <3>1, RowFields
        <3>3. row \in Row["feedback"] /\ "feedback" \in Tables
            BY <3>2, TablesAre DEF Row
        <3>4. References("feedback", row) /\ "feedback" \notin Numbered
            BY <2>2, <3>1 DEF References, Numbered
        <3>5. Prepare(r, "feedback", row)
            BY <2>2
        <3> HIDE DEF row
        <3> QED
            BY <1>1, <3>3, <3>4, <3>5, PrepareInv
    <2> QED
        BY <1>2, <2>1, <2>2
<1>9. ASSUME Subscribe(r) PROVE Inv'
    <2>1. PICK t \in Tenants, u \in Users :
             \/ Refuse(r, 404)
             \/ /\ InterviewerExists(u, t)
                /\ \E i \in NewId("subscriptions") :
                      Prepare(r, "subscriptions",
                         [id |-> i, tenant |-> t, interviewer |-> u,
                          revoked |-> FALSE, expired |-> FALSE])
        BY <1>9 DEF Subscribe
    <2>2. ASSUME InterviewerExists(u, t), NEW i \in NewId("subscriptions"),
                 Prepare(r, "subscriptions",
                    [id |-> i, tenant |-> t, interviewer |-> u,
                     revoked |-> FALSE, expired |-> FALSE])
          PROVE  Inv'
        <3> DEFINE row == [id |-> i, tenant |-> t, interviewer |-> u,
                           revoked |-> FALSE, expired |-> FALSE]
        <3>1. /\ row \in Row["subscriptions"] /\ "subscriptions" \in Tables
              /\ row.id \in Unused("subscriptions")
            BY <1>3, TablesAre DEF Row
        <3>2. Member[t][u] = "interviewer"
            BY <2>2, InterviewerRole DEF InterviewerExists, Inv, DatabaseOK
        <3>3. References("subscriptions", row)
            BY <3>2 DEF References
        <3>4. Prepare(r, "subscriptions", row)
            BY <2>2
        <3> HIDE DEF row
        <3> QED
            BY <1>1, <3>1, <3>3, <3>4, PrepareInv
    <2> QED
        BY <1>2, <2>1, <2>2
<1>10. ASSUME BeginRevoke(r) PROVE Inv'
    <2>1. PICK s \in Ids :
             \/ Refuse(r, 404)
             \/ req' = [req EXCEPT ![r] = [at |-> "revoke", subscription |-> s]]
        BY <1>10 DEF BeginRevoke
    <2>2. ASSUME req' = [req EXCEPT ![r] = [at |-> "revoke", subscription |-> s]]
          PROVE  Inv'
        <3>1. /\ DOMAIN req' = Requests
              /\ \A q \in Requests :
                    \/ req'[q] = req[q]
                    \/ req'[q].at \notin {"idle", "commit"} /\ ~Won(q)'
            BY <2>2 DEF Inv, RequestsOK, Won
        <3> QED
            BY <1>1, <3>1, SameDatabase
    <2> QED
        BY <1>2, <2>1, <2>2
<1> QED
    BY <1>2, <1>4, <1>5, <1>6, <1>7, <1>8, <1>9, <1>10 DEF Begin

-----------------------------------------------------------------------------
(* Lists *)

(* A page is the beginning of what is left, and all of it when it fits *)
LEMMA PageIsFirst ==
    ASSUME NEW rest \in SUBSET Nat, IsFiniteSet(rest), NEW n \in Nat \ {0},
           NEW page,
           page = {i \in rest : Cardinality({j \in rest : j < i}) < n}
    PROVE  /\ Cardinality(rest) <= n => page = rest
           /\ \A i \in rest \ page, last \in page : last < i
<1> DEFINE Before(i) == {j \in rest : j < i}
<1>1. ASSUME NEW i \in rest
      PROVE  IsFiniteSet(Before(i)) /\ Cardinality(Before(i)) \in Nat
    BY FS_Subset, FS_CardinalityType
<1>2. ASSUME Cardinality(rest) <= n, NEW i \in rest PROVE i \in page
    <2>1. /\ IsFiniteSet(rest \ {i})
          /\ Cardinality(rest \ {i}) = Cardinality(rest) - 1
        BY FS_RemoveElement
    <2>2. Cardinality(Before(i)) <= Cardinality(rest \ {i})
        <3>1. Before(i) \in SUBSET (rest \ {i})
            OBVIOUS
        <3> QED
            BY <2>1, <3>1, FS_Subset
    <2>3. Cardinality(rest) \in Nat
        BY FS_CardinalityType
    <2>4. Cardinality(Before(i)) < n
        BY <1>1, <1>2, <2>1, <2>2, <2>3
    <2> QED
        BY <2>4
<1>3. ASSUME NEW i \in rest \ page, NEW last \in page, ~(last < i) PROVE FALSE
    <2>1. i \in rest /\ last \in rest /\ i \in Nat /\ last \in Nat /\ i <= last
        BY <1>3
    <2>2. \A j \in rest : j < i => j < last
        BY <2>1
    <2>3. Before(i) \in SUBSET Before(last)
        BY <2>2
    <2>4. Cardinality(Before(i)) <= Cardinality(Before(last))
        BY <1>1, <2>1, <2>3, FS_Subset
    <2>5. Cardinality(Before(last)) < n
        OBVIOUS
    <2>6. Cardinality(Before(i)) \in Nat /\ Cardinality(Before(last)) \in Nat
        BY <1>1, <2>1
    <2> HIDE DEF Before
    <2>7. Cardinality(Before(i)) < n
        BY <2>4, <2>5, <2>6
    <2> QED
        BY <1>3, <2>1, <2>7 DEF Before
<1> QED
    BY <1>2, <1>3

(* What a list asks for are ids of cases, finitely many *)
LEMMA ListableIds ==
    ASSUME DatabaseOK, NEW t, NEW filter
    PROVE  Listable(t, filter) \in SUBSET Ids /\ IsFiniteSet(Listable(t, filter))
<1>1. Listable(t, filter) \in SUBSET IdsOf(db.cases)
    BY DEF Listable, IdsOf, Of
<1>2. IdsOf(db.cases) \subseteq Ids
    BY TablesAre, RowFields DEF DatabaseOK, RowsOK, IdsOf
<1> QED
    BY <1>1, <1>2, FS_Subset DEF DatabaseOK, FiniteOK

LEMMA BeginListOK ==
    ASSUME DatabaseOK, BeginList, db' = db
    PROVE  ListOK'
<1>1. PICK t \in Tenants, filter \in Filters :
         reader' = [kind |-> "list", tenant |-> t, filter |-> filter,
                    at |-> "page", cursor |-> 0, listed |-> <<>>, total |-> 0,
                    due |-> Listable(t, filter)]
    BY DEF BeginList
<1>2. Listable(t, filter) \in SUBSET Ids
    BY ListableIds
<1>3. /\ reader'.tenant = t /\ reader'.filter = filter /\ reader'.at = "page"
      /\ reader'.cursor = 0 /\ reader'.listed = <<>>
      /\ reader'.due = Listable(t, filter)
    BY <1>1
<1>4. (reader \in ListReader)'
    BY <1>1, <1>2 DEF ListReader, Filters
<1>5. Shown' = {} /\ Ahead'
    BY <1>3 DEF Shown, Ahead
<1>6. (reader.due \subseteq Listable(reader.tenant, reader.filter))'
    BY <1>3 DEF Listable, IdsOf, Of, Matches
<1>7. \A i \in Ids : i > 0
    BY IdsAssumption
<1>8. Ahead' /\ \A i \in reader'.due : i > reader'.cursor
    BY <1>2, <1>3, <1>5, <1>7
<1> QED
    BY <1>3, <1>4, <1>5, <1>6, <1>8 DEF ListOK

LEMMA NextPageOK ==
    ASSUME DatabaseOK, ListOK, NextPage, db' = db
    PROVE  ListOK'
<1> DEFINE all == Listable(reader.tenant, reader.filter)
           rest == AfterCursor(all)
           page == {i \in rest : Cardinality({j \in rest : j < i}) < PageSize}
<1>1. /\ all \in SUBSET Ids /\ IsFiniteSet(all)
      /\ rest = {i \in all : i > reader.cursor}
    BY ListableIds DEF AfterCursor
<1>2. rest \in SUBSET Nat /\ IsFiniteSet(rest) /\ rest \subseteq all
    BY <1>1, FS_Subset, IdsAssumption
<1>3. /\ Cardinality(rest) <= PageSize => page = rest
      /\ \A i \in rest \ page, last \in page : last < i
    <2> HIDE DEF rest
    <2> QED
        BY <1>2, PageIsFirst, PageAssumption
<1>4. /\ reader \in ListReader /\ reader.at = "page" /\ Ahead
      /\ reader.cursor \in Nat /\ reader.listed \in Seq(SUBSET Ids)
      /\ reader.due \subseteq all
    <2>1. reader \in ListReader /\ reader.at = "page" /\ reader.due \subseteq all
        BY DEF ListOK, NextPage
    <2> HIDE DEF all, rest, page
    <2>2. reader.cursor \in Ids \cup {0} /\ reader.listed \in Seq(SUBSET Ids)
        BY <2>1 DEF ListReader
    <2>3. reader.cursor \in Nat
        <3>1. \A i \in Ids \cup {0} : i \in Nat
            BY IdsAssumption
        <3> QED
            BY <2>2, <3>1
    <2>4. Ahead
        BY <2>1 DEF Ahead
    <2> QED
        BY <2>1, <2>2, <2>3, <2>4
<1>5. PICK new \in Ids \cup {0} :
         /\ \/ Cardinality(rest) > PageSize /\ new \in page
               /\ \A i \in page : i <= new
            \/ Cardinality(rest) <= PageSize /\ new = 0
         /\ reader' = [reader EXCEPT !.listed = Append(@, page),
                                     !.cursor = new, !.at = "count"]
    <2>1. page \subseteq Ids
        BY <1>1, <1>2
    <2> QED
        BY <2>1 DEF NextPage
<1>6. page \in SUBSET Ids /\ page \subseteq rest
    BY <1>1, <1>2
<1> HIDE DEF page, rest, all
<1>7. /\ reader'.tenant = reader.tenant /\ reader'.filter = reader.filter
      /\ reader'.due = reader.due /\ reader'.at = "count" /\ reader'.cursor = new
      /\ reader'.listed = Append(reader.listed, page)
      /\ (reader \in ListReader)'
    <2>1. Append(reader.listed, page) \in Seq(SUBSET Ids)
        BY <1>4, <1>6
    <2> DEFINE listed == Append(reader.listed, page)
    <2> HIDE DEF listed
    <2>2. reader' = [reader EXCEPT !.listed = listed, !.cursor = new, !.at = "count"]
        BY <1>5 DEF listed
    <2> QED
        BY <1>4, <2>1, <2>2 DEF ListReader, Filters, listed
<1>8. Ahead' <=> new # 0
    BY <1>7 DEF Ahead
<1> DEFINE n == Len(reader.listed)
<1>9. /\ n \in Nat /\ DOMAIN reader.listed = 1 .. n
      /\ DOMAIN reader'.listed = 1 .. (n + 1)
      /\ \A p \in 1 .. n : reader'.listed[p] = reader.listed[p]
      /\ reader'.listed[n + 1] = page
    BY <1>4, <1>6, <1>7
<1> HIDE DEF n
<1>10. Shown' = Shown \cup page
    BY <1>9 DEF Shown
<1>11. \A p \in 1 .. n : reader.listed[p] \subseteq Shown
    BY <1>9 DEF Shown
<1>12. /\ \A i \in Shown : i <= reader.cursor
       /\ \A i \in reader.due : i \in Shown \/ i > reader.cursor
       /\ reader.filter = "any" => Shown \subseteq all
    BY <1>4 DEF ListOK, all
<1>13. Shown \in SUBSET Nat
    <2>1. \A p \in 1 .. n : reader.listed[p] \in SUBSET Ids
        BY <1>4, <1>9
    <2> QED
        BY <1>9, <2>1, IdsAssumption DEF Shown
<1>14. \A i \in Shown, j \in page : i < j
    BY <1>1, <1>2, <1>4, <1>6, <1>12, <1>13
<1>15. ASSUME NEW p \in DOMAIN reader'.listed, NEW q \in DOMAIN reader'.listed, p < q,
              NEW i \in reader'.listed[p], NEW j \in reader'.listed[q]
       PROVE  i < j
    <2>1. CASE q = n + 1
        <3>1. p \in 1 .. n /\ reader'.listed[q] = page
            BY <1>9, <1>15, <2>1
        <3> QED
            BY <1>9, <1>11, <1>14, <1>15, <3>1
    <2>2. CASE q # n + 1
        <3>1. p \in 1 .. n /\ q \in 1 .. n
            BY <1>9, <1>15, <2>2
        <3> QED
            BY <1>9, <1>15, <3>1 DEF ListOK
    <2> QED
        BY <2>1, <2>2
<1>16. new # 0 => \A i \in Shown' : i <= new
    <2> SUFFICES ASSUME new # 0, NEW i \in Shown' PROVE i <= new
        OBVIOUS
    <2>1. new \in page /\ new \in Nat /\ \A j \in page : j <= new
        BY <1>5, IdsAssumption
    <2>2. CASE i \in page
        BY <2>1, <2>2
    <2>3. CASE i \in Shown
        BY <1>13, <1>14, <2>1, <2>3
    <2> QED
        BY <1>10, <2>2, <2>3
<1>17. \A i \in reader.due : i \in Shown' \/ (new # 0 /\ i > new)
    <2> SUFFICES ASSUME NEW i \in reader.due, i \notin Shown'
                 PROVE  new # 0 /\ i > new
        OBVIOUS
    <2>1. i \in rest \ page
        BY <1>1, <1>4, <1>10, <1>12
    <2>2. Cardinality(rest) > PageSize /\ new \in page
        BY <1>3, <1>5, <2>1
    <2> QED
        BY <1>2, <1>3, <1>6, <2>1, <2>2, IdsAssumption
<1>18. reader.filter = "any" => Shown' \subseteq all
    BY <1>2, <1>6, <1>10, <1>12
<1>19. /\ Listable(reader.tenant, reader.filter)' = all
       /\ reader.filter = "any" => Listable(reader.tenant, "any")' = all
    BY <1>7 DEF all, Listable, IdsOf, Of, Matches
<1> QED
    BY <1>4, <1>7, <1>8, <1>15, <1>16, <1>17, <1>18, <1>19 DEF ListOK

LEMMA CountAllOK ==
    ASSUME DatabaseOK, ListOK, CountAll, db' = db
    PROVE  ListOK'
<1> DEFINE all == Listable(reader.tenant, reader.filter)
           at == IF reader.cursor = 0 THEN "shown" ELSE "page"
<1>1. IsFiniteSet(all) /\ Cardinality(all) \in Nat
    BY ListableIds, FS_CardinalityType
<1>2. /\ reader \in ListReader /\ reader.at = "count"
      /\ reader' = [reader EXCEPT !.total = Cardinality(all), !.at = at]
    BY DEF ListOK, CountAll
<1> HIDE DEF all
<1>3. /\ reader'.tenant = reader.tenant /\ reader'.filter = reader.filter
      /\ reader'.due = reader.due /\ reader'.cursor = reader.cursor
      /\ reader'.listed = reader.listed
      /\ reader'.at = at /\ reader'.total = Cardinality(all)
      /\ (reader \in ListReader)'
    BY <1>1, <1>2 DEF ListReader
<1>4. Shown' = Shown
    BY <1>3 DEF Shown
<1>5. /\ Ahead' <=> Ahead
      /\ Listable(reader.tenant, reader.filter)' = all
      /\ reader.filter = "any" => Listable(reader.tenant, "any")' = all
    BY <1>2, <1>3 DEF Ahead, all, Listable, IdsOf, Of, Matches
<1>6. ASSUME reader.filter = "any" PROVE Shown \subseteq all /\ Cardinality(Shown) <= Cardinality(all)
    <2>1. Shown \in SUBSET all
        BY <1>6 DEF ListOK, all
    <2> QED
        BY <1>1, <2>1, FS_Subset
<1> QED
    BY <1>3, <1>4, <1>5, <1>6 DEF ListOK, all

-----------------------------------------------------------------------------
(* Reports *)

LEMMA BeginReportOK ==
    ASSUME DatabaseOK, BeginReport, db' = db
    PROVE  ReportOK'
<1>1. PICK t \in Tenants :
         reader' = [kind |-> "report", tenant |-> t, at |-> "feedback",
                    interviews |-> IdsOf(Of("interviews", t)), feedback |-> {}]
    BY DEF BeginReport
<1> DEFINE ids == IdsOf(Of("interviews", t))
<1>2. ids \in SUBSET IdsOf(db.interviews)
    BY DEF IdsOf, Of
<1>3. ids \in SUBSET Ids
    BY <1>2, TablesAre, RowFields DEF DatabaseOK, RowsOK, IdsOf
<1>4. IsFiniteSet(ids) /\ Cardinality(ids) \in Nat
    BY <1>2, FS_Subset, FS_CardinalityType DEF DatabaseOK, FiniteOK
<1> HIDE DEF ids
<1>5. /\ reader'.interviews = ids /\ reader'.feedback = {}
      /\ (reader \in ReportReader)'
    BY <1>1, <1>3 DEF ReportReader, ids
<1> QED
    BY <1>4, <1>5, FS_EmptySet DEF ReportOK

(* An interview has one feedback: feedback counts no more than interviews *)
LEMMA CountFeedbackOK ==
    ASSUME DatabaseOK, ReportOK, CountFeedback
    PROVE  ReportOK'
<1> DEFINE found == FeedbackFor(reader.interviews, reader.tenant)
           interview == [f \in found |-> f.interview]
<1>1. interview \in Injection(found, reader.interviews)
    BY DEF Injection, IsInjective, FeedbackFor, Of, DatabaseOK, UniqueOK
<1>2. IsFiniteSet(reader.interviews)
    BY DEF ReportOK
<1>3. IsFiniteSet(found) /\ Cardinality(found) <= Cardinality(reader.interviews)
    BY <1>1, <1>2, FS_Injection
<1>4. found \in SUBSET Row.feedback
    BY TablesAre DEF FeedbackFor, Of, DatabaseOK, RowsOK
<1>5. /\ reader \in ReportReader
      /\ reader' = [reader EXCEPT !.feedback = found, !.at = "shown"]
    BY DEF ReportOK, CountFeedback
<1> HIDE DEF found
<1>6. /\ reader'.interviews = reader.interviews /\ reader'.feedback = found
      /\ (reader \in ReportReader)'
    BY <1>4, <1>5 DEF ReportReader
<1> QED
    BY <1>2, <1>3, <1>6 DEF ReportOK

-----------------------------------------------------------------------------
(* Feeds *)

LEMMA BeginFeedOK ==
    ASSUME DatabaseOK, BeginFeed, db' = db
    PROVE  FeedOK'
<1>1. PICK x \in db.subscriptions :
         reader' = [kind |-> "feed", at |-> "lookup", subscription |-> x.id,
                    late |-> x.expired, dead |-> x.expired \/ x.revoked,
                    events |-> {}]
    BY DEF BeginFeed
<1>2. x.id \in Ids /\ x.expired \in BOOLEAN /\ x.revoked \in BOOLEAN
    BY TablesAre DEF DatabaseOK, RowsOK, Row
<1>3. /\ reader'.subscription = x.id /\ reader'.at = "lookup"
      /\ reader'.late = x.expired /\ reader'.dead = (x.expired \/ x.revoked)
      /\ reader'.events = {}
    BY <1>1
<1>4. (reader \in FeedReader)'
    BY <1>1, <1>2 DEF FeedReader
<1>5. reader'.subscription \in IdsOf(db'.subscriptions)
    BY <1>3 DEF IdsOf
<1>6. ASSUME reader'.dead, ~reader'.late, NEW s \in db.subscriptions, s.id = x.id
      PROVE  s.revoked
    <2>1. s = x
        BY <1>6 DEF DatabaseOK, UniqueOK
    <2> QED
        BY <1>3, <1>6, <2>1
<1> QED
    BY <1>3, <1>4, <1>5, <1>6 DEF FeedOK

(* Of a subscription that was dead either the clock or the lookup tells *)
LEMMA LookUpOK ==
    ASSUME DatabaseOK, FeedOK, LookUp, db' = db
    PROVE  FeedOK'
<1> DEFINE active == \E x \in db.subscriptions : Active(x)
           at == IF active THEN "events" ELSE "404"
<1>1. /\ reader \in FeedReader /\ reader.at = "lookup"
      /\ reader' = [reader EXCEPT !.at = at]
    BY DEF FeedOK, LookUp
<1>2. active => ~reader.dead
    BY DEF FeedOK, Active
<1> HIDE DEF active
<1>3. /\ reader'.subscription = reader.subscription /\ reader'.late = reader.late
      /\ reader'.dead = reader.dead /\ reader'.events = reader.events
      /\ reader'.at = at /\ at \in {"events", "404"}
      /\ (reader \in FeedReader)'
    BY <1>1 DEF FeedReader
<1>4. at = "events" => ~reader.dead
    BY <1>2
<1>5. reader.events = {}
    BY <1>1 DEF FeedOK
<1> HIDE DEF at
<1> QED
    BY <1>3, <1>4, <1>5 DEF FeedOK, IdsOf

(* An id of an interview is that of one interview *)
LEMMA ReadEventsOK ==
    ASSUME DatabaseOK, FeedOK, ReadEvents, db' = db
    PROVE  FeedOK'
<1>1. PICK x \in db.subscriptions :
         /\ x.id = reader.subscription
         /\ reader' = [reader EXCEPT !.events = EventsOf(x.tenant, x.interviewer),
                                     !.at = "shown"]
    BY DEF ReadEvents
<1> DEFINE events == EventsOf(x.tenant, x.interviewer)
<1>2. events \subseteq IdsOf(db.interviews)
    BY DEF EventsOf, Of, IdsOf
<1>3. events \in SUBSET Ids
    BY <1>2, TablesAre, RowFields DEF DatabaseOK, RowsOK, IdsOf
<1>4. ASSUME NEW i \in db.interviews, i.id \in events
      PROVE  x.tenant = i.tenant /\ x.interviewer = i.interviewer
    <2>1. PICK j \in db.interviews :
             j.id = i.id /\ j.tenant = x.tenant /\ j.interviewer = x.interviewer
        BY <1>4 DEF EventsOf, Of, IdsOf
    <2>2. j = i
        BY <2>1 DEF DatabaseOK, UniqueOK
    <2> QED
        BY <2>1, <2>2
<1>5. reader \in FeedReader /\ reader.at = "events" /\ ~reader.dead
    BY DEF FeedOK, ReadEvents
<1> HIDE DEF events
<1>6. /\ reader'.subscription = reader.subscription /\ reader'.late = reader.late
      /\ reader'.dead = reader.dead /\ reader'.events = events
      /\ reader'.at = "shown" /\ (reader \in FeedReader)'
    BY <1>1, <1>3, <1>5 DEF FeedReader, events
<1> QED
    BY <1>1, <1>2, <1>4, <1>5, <1>6 DEF FeedOK, IdsOf

-----------------------------------------------------------------------------
(* Every step *)

LEMMA ReadInv == Inv /\ Read => Inv'
<1> SUFFICES ASSUME Inv, Read PROVE Inv'
    OBVIOUS
<1>1. DatabaseOK /\ RequestsOK /\ ReaderOK /\ UNCHANGED <<db, req>>
    BY DEF Inv, Read
<1>2. DatabaseOK'
    BY <1>1 DEF DatabaseOK, RowsOK, References, UniqueOK, TenantsOK, FiniteOK, IdsOf
<1>3. RequestsOK'
    BY <1>1 DEF RequestsOK, PreparedOK, References, Fresh, WonOK, Won, IdsOf
<1>4. ReaderOK'
    <2>1. CASE reader.kind = "none" /\ (BeginList \/ BeginReport \/ BeginFeed)
        BY <1>1, <2>1, BeginListOK, BeginReportOK, BeginFeedOK DEF ReaderOK
    <2>2. CASE reader.kind = "list" /\ (NextPage \/ CountAll)
        <3>1. ListOK
            BY <1>1, <2>2 DEF ReaderOK, NoReader, ReportOK, ReportReader, FeedOK, FeedReader
        <3> QED
            BY <1>1, <2>2, <3>1, NextPageOK, CountAllOK DEF ReaderOK
    <2>3. CASE reader.kind = "report" /\ CountFeedback
        <3>1. ReportOK
            BY <1>1, <2>3 DEF ReaderOK, NoReader, ListOK, ListReader, FeedOK, FeedReader
        <3> QED
            BY <1>1, <2>3, <3>1, CountFeedbackOK DEF ReaderOK
    <2>4. CASE reader.kind = "feed" /\ (LookUp \/ ReadEvents)
        <3>1. FeedOK
            BY <1>1, <2>4 DEF ReaderOK, NoReader, ListOK, ListReader, ReportOK, ReportReader
        <3> QED
            BY <1>1, <2>4, <3>1, LookUpOK, ReadEventsOK DEF ReaderOK
    <2> QED
        BY <2>1, <2>2, <2>3, <2>4 DEF Read
<1> QED
    BY <1>2, <1>3, <1>4 DEF Inv

LEMMA NextInv == Inv /\ [Next]_vars => Inv'
<1> SUFFICES ASSUME Inv, [Next]_vars PROVE Inv'
    OBVIOUS
<1>1. ASSUME NEW r \in Requests, Begin(r) PROVE Inv'
    BY <1>1, BeginInv
<1>2. ASSUME NEW r \in Requests, Commit(r) PROVE Inv'
    BY <1>2, CommitInv
<1>3. ASSUME NEW r \in Requests, Revoke(r) PROVE Inv'
    BY <1>3, RevokeInv
<1>4. ASSUME NEW r \in Requests, Crash(r) PROVE Inv'
    BY <1>4, RefuseInv DEF Crash
<1>5. CASE Expire
    BY <1>5, ExpireInv
<1>6. CASE Move
    BY <1>6, MoveInv
<1>7. CASE Read
    BY <1>7, ReadInv
<1>8. CASE UNCHANGED vars
    BY <1>8, SameDatabase DEF vars, Inv, RequestsOK
<1> QED
    BY <1>1, <1>2, <1>3, <1>4, <1>5, <1>6, <1>7, <1>8 DEF Next

(* The inductive invariant holds throughout, however many requests of       *)
(* however many tenants are in flight.                                      *)
THEOREM Invariance == Spec => []Inv
BY InitInv, NextInv, PTL DEF Spec

-----------------------------------------------------------------------------
(* The properties *)

(* The rows of a tenant refer to rows of that tenant only, and interviews   *)
(* and subscriptions are of members who interview there: the lookups by     *)
(* tenant of the services come long before the commits, but nothing they    *)
(* found goes away.                                                         *)
THEOREM TenantsStayApart == Spec => []TenantsAreIsolated
<1>1. Inv => TenantsAreIsolated
    <2> SUFFICES ASSUME Inv PROVE TenantsAreIsolated
        OBVIOUS
    <2>1. /\ \A t \in Tables : \A x \in db[t] : x \in Row[t] /\ References(t, x)
          /\ TenantsOK
        BY DEF Inv, DatabaseOK, RowsOK
    <2>2. \A c \in db.cases :
             \E q \in db.requisitions : q.id = c.requisition /\ q.tenant = c.tenant
        BY <2>1, TablesAre DEF References
    <2>3. \A i \in db.interviews : \E c \in db.cases : c.id = i.case /\ c.tenant = i.tenant
        BY <2>1, TablesAre DEF References
    <2>4. \A f \in db.feedback : \E i \in db.interviews :
             /\ i.id = f.interview
             /\ i.tenant = f.tenant /\ i.interviewer = f.interviewer
        BY <2>1, TablesAre DEF References
    <2>5. ASSUME NEW t \in {"interviews", "subscriptions"}, NEW x \in db[t]
          PROVE  RoleOf(x.tenant, x.interviewer) = "interviewer"
        <3>1. Member[x.tenant][x.interviewer] = "interviewer"
            BY <2>1, TablesAre DEF References
        <3>2. x.tenant \in Tenants /\ x.interviewer \in Users
            BY <2>1, TablesAre, RowFields
        <3> QED
            BY <2>1, <3>1, <3>2, InterviewerRole
    <2> QED
        BY <2>2, <2>3, <2>4, <2>5 DEF TenantsAreIsolated
<1> QED
    BY <1>1, Invariance, PTL

(* Of requests that found no tenant, candidate or feedback and insert it,   *)
(* one is told that it was created: a row like that of the first is in the  *)
(* table when the second commits.                                           *)
THEOREM OneIsCreated == Spec => []OneWinnerPerKey
<1>1. Inv => OneWinnerPerKey
    <2> SUFFICES ASSUME Inv,
                        NEW r \in Requests, Won(r), NEW q \in Requests, Won(q),
                        r # q, req[r].table = req[q].table
                 PROVE  LET x == req[r].row
                            y == req[q].row
                        IN  CASE req[r].table = "tenants" -> x.id # y.id
                              [] req[r].table = "cases" ->
                                    <<x.tenant, x.email>> # <<y.tenant, y.email>>
                              [] req[r].table = "feedback" -> x.interview # y.interview
                              [] OTHER -> x # y
        BY DEF OneWinnerPerKey, Won
    <2>1. req[r].table \in Tables /\ ~Same(req[r].table, req[r].row, req[q].row)
        BY DEF Inv, RequestsOK, WonOK
    <2> QED
        BY <2>1, TablesAre DEF Same, Numbered
<1> QED
    BY <1>1, Invariance, PTL

(* Pages of any size, read while cases are created and moved, show every    *)
(* case due once: rows behind the cursor cannot move past it.               *)
THEOREM ListsAreComplete == Spec => []ListIsComplete
<1>1. Inv => ListIsComplete
    <2> SUFFICES ASSUME Inv, reader.kind = "list", reader.at = "shown"
                 PROVE  /\ \A p, q \in DOMAIN reader.listed : p < q =>
                              \A i \in reader.listed[p], j \in reader.listed[q] : i < j
                        /\ reader.due \subseteq Shown
                        /\ reader.filter = "any" => Cardinality(Shown) <= reader.total
        BY DEF ListIsComplete
    <2>1. ListOK
        BY DEF Inv, ReaderOK, NoReader, ReportOK, ReportReader, FeedOK, FeedReader
    <2>2. ~Ahead
        BY DEF Ahead
    <2> QED
        BY <2>1, <2>2 DEF ListOK
<1> QED
    BY <1>1, Invariance, PTL

(* The feedback a report counts is of interviews it has counted, and each   *)
(* has at most one.                                                         *)
THEOREM ReportsAddUp == Spec => []ReportAddsUp
<1>1. Inv => ReportAddsUp
    BY DEF Inv, ReaderOK, ReportAddsUp, NoReader, ListOK, ListReader, ReportOK,
           FeedOK, FeedReader
<1> QED
    BY <1>1, Invariance, PTL

(* A subscription that had ended when the request came is refused by the    *)
(* clock or by the lookup, whatever happens between the statements.         *)
THEOREM FeedsNeedTokens == Spec => []FeedNeedsLiveToken
<1>1. Inv => FeedNeedsLiveToken
    <2> SUFFICES ASSUME Inv, reader.kind = "feed", reader.at = "shown"
                 PROVE  /\ ~reader.dead
                        /\ \A i \in db.interviews : i.id \in reader.events =>
                              \E s \in db.subscriptions :
                                 /\ s.id = reader.subscription
                                 /\ s.tenant = i.tenant /\ s.interviewer = i.interviewer
        BY DEF FeedNeedsLiveToken
    <2>1. FeedOK
        BY DEF Inv, ReaderOK, NoReader, ListOK, ListReader, ReportOK, ReportReader
    <2> QED
        BY <2>1 DEF FeedOK
<1> QED
    BY <1>1, Invariance, PTL
=============================================================================
