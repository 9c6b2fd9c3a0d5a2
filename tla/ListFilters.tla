----------------------------- MODULE ListFilters -----------------------------
(***************************************************************************)
(* How a listing turns the filters of a request into one condition:        *)
(* applyFilters of the services in src/src/modules.                        *)
(*                                                                         *)
(* Every method builds an object by a sequence of "if this filter is set,  *)
(* write that key".  A key is written over whatever it held, so that two   *)
(* filters which share a key, or a key AND that is set instead of          *)
(* extended, silently drop each other.  A service is a sequence of such    *)
(* writes here, and the condition remembers for each key which filters it  *)
(* still stands for.  What the key says of them (a value, contains, in,    *)
(* gte...) is left out.                                                    *)
(***************************************************************************)
EXTENDS FiniteSets, SequencesExt

VARIABLES
  listing,      \* the service asked
  asked,        \* the filters of the request; "own": the user may see but his own rows
  condition,    \* from the keys of the condition to the filters they stand for
  answered

vars == <<listing, asked, condition, answered>>

-----------------------------------------------------------------------------
(* Writes.  One is made when all its needs are asked and none of unless.   *)

Write(needs, unless, key, says) ==
  [needs |-> needs, unless |-> unless, key |-> key, says |-> says, push |-> FALSE]

Key(f, key) == Write({f}, {}, key, {f})

Field(f) == Key(f, f)

\* A condition added to those under AND.
Push(needs, unless, says) == [Write(needs, unless, "AND", says) EXCEPT !.push = TRUE]

\* The filters of a sequence, each with a key that no other filter writes.
Fields(fs) == [i \in DOMAIN fs |-> Field(fs[i])]

(* A period: both ends become the conditions under AND, a single end is    *)
(* written under the key of the date.                                      *)
Dates(key) ==
  <<Write({"fromDate", "toDate"}, {}, "AND", {"fromDate", "toDate"}),
    Write({"fromDate"}, {"toDate"}, key, {"fromDate"}),
    Write({"toDate"}, {"fromDate"}, key, {"toDate"})>>

\* The rows the user may see are no filter of his: the condition says none.
Own(key) == Write({"own"}, {}, key, {})
PushOwn == Push({"own"}, {}, {})

Period == {"fromDate", "toDate"}

-----------------------------------------------------------------------------
(* The services: what may be asked, and what applyFilters writes.          *)

ProjectFilters ==
  {"own", "title", "slug", "ids", "quoteNumber", "invoiceNumber", "referenceNumber",
   "projectStateId", "projectStateSlugs", "clientId", "isClosed", "delayed", "onHold",
   "userIds", "projectRole"} \cup Period

ProjectKeys ==
  <<Own("OR")>>
  \o Fields(<<"slug", "ids", "quoteNumber", "invoiceNumber", "referenceNumber">>)
  \o Dates("addedDate")
  \o Fields(<<"isClosed", "onHold", "clientId">>)

\* A project that is delayed is not closed; the listing sorts by the end date besides.
ProjectProgress ==
  <<Key("delayed", "isClosed"), Field("projectStateId"), Field("projectStateSlugs"),
    Push({"title"}, {}, {"title"})>>

\* The members asked for, with their role; a user who sees only his own must be one too.
ProjectMembers ==
  <<Push({"own", "userIds"}, {}, {"userIds"}),
    Push({"own", "userIds", "projectRole"}, {}, {"projectRole"}),
    Write({"userIds"}, {"own"}, "ProjectMembers", {"userIds"}),
    Write({"userIds", "projectRole"}, {"own"}, "ProjectMembers", {"userIds", "projectRole"})>>

ResourceFilters ==
  {"fileName", "projectId", "fileType", "projectDocumentsTypes", "sharedToClient"} \cup Period

ResourceWrites ==
  Dates("addedDate") \o <<Key("fileName", "AND")>>
  \o Fields(<<"fileType", "sharedToClient", "projectDocumentsTypes", "projectId">>)

NoteFilters == {"message", "projectId"}

NoteWrites == <<Write({}, {}, "AND", {})>> \o Fields(<<"message", "projectId">>)

QuotationFilters ==
  {"own", "limited", "leadId", "id", "quoteNumber", "projectId", "clientId", "projectTypeId",
   "__status", "assignedToId"} \cup Period

\* Three filters on the lead, each an object Lead of its own.
QuotationWrites ==
  Fields(<<"__status", "id", "quoteNumber", "projectId">>)
  \o <<Key("assignedToId", "Lead"), Key("clientId", "Lead"), Key("projectTypeId", "Lead")>>
  \o Dates("addedDate")

\* The quotations of the user and of his leads, or of the organizations he is limited to.
QuotationAccess == <<PushOwn, Push({"limited"}, {"own"}, {})>>

LeadFilters ==
  {"own", "limited", "__status", "clientId", "enquiryId", "assignedToId", "representativeId",
   "projectTypeId", "fetchCompleted", "hasConcerns", "projectTypeTitle"} \cup Period

LeadWrites ==
  Fields(<<"projectTypeTitle", "__status", "fetchCompleted", "clientId", "assignedToId",
           "enquiryId", "representativeId", "projectTypeId", "hasConcerns">>)
  \o Dates("addedDate")
  \o <<PushOwn, Write({"limited"}, {"own"}, "submissionById", {})>>

EnquiryFilters ==
  {"own", "email", "phone", "status", "name", "source", "userAgent", "userIP", "hasConcerns",
   "assignedToId"} \cup Period

\* With nothing asked not even the own rows are selected; no filter is lost by that.
EnquiryWrites ==
  Fields(<<"email", "phone", "source", "assignedToId", "status">>)
  \o Dates("addedDate") \o <<PushOwn>>
  \o Fields(<<"userAgent", "userIP", "hasConcerns", "name">>)

UserFilters ==
  {"email", "phone", "status", "isPublished", "name", "organizationId", "departmentId",
   "userType", "ids", "roleIds", "roleSlugs", "departmentSlug"} \cup Period

UserWrites ==
  Fields(<<"email", "isPublished", "phone", "status", "organizationId", "ids">>)
  \o <<Key("roleIds", "userRole"), Key("roleSlugs", "userRole"), Field("departmentSlug")>>
  \o Dates("addedDate") \o <<Key("name", "OR"), Field("departmentId")>>

OrganizationFilters ==
  {"email", "ids", "phone", "status", "isPublished", "name", "location", "type",
   "includeBranches", "fetchParentOnly"} \cup Period

OrganizationWrites ==
  Fields(<<"email", "isPublished", "phone", "status", "ids">>) \o Dates("addedDate")
  \o <<Field("name"), Field("fetchParentOnly"),
       Write({"type", "includeBranches"}, {}, "OR", {"type", "includeBranches"}),
       Write({"type"}, {"includeBranches"}, "type", {"type"})>>

InvoiceFilters ==
  {"projectId", "clientId", "id", "invoiceNumber", "projectTypeId", "__status",
   "hasConcerns"} \cup Period

InvoiceWrites ==
  Fields(<<"__status", "clientId", "hasConcerns", "id", "invoiceNumber", "projectTypeId",
           "projectId">>)
  \o Dates("addedDate")

PermitFilters ==
  {"financeStatus", "clientStatus", "projectId", "clientId", "authorityId", "onlyActive",
   "onlyExpired"} \cup Period

PermitWrites ==
  Fields(<<"financeStatus", "clientStatus", "projectId", "clientId", "authorityId">>)
  \o <<Key("onlyActive", "expiryDate"), Key("onlyActive", "approvedDate"),
       Key("onlyExpired", "expiryDate")>>
  \o Dates("expiryDate")

TransactionFilters ==
  {"__status", "projectId", "clientId", "authorityId", "transactionReference",
   "onlyGovernmentFees", "onlyInvoicePayments"} \cup Period

TransactionWrites ==
  <<Field("__status"), Key("onlyGovernmentFees", "recordType"),
    Key("onlyInvoicePayments", "recordType")>>
  \o Fields(<<"transactionReference", "projectId", "clientId", "authorityId">>)
  \o Dates("transactionDate")

\* own: the user has no part in the decisions; noPermissions: the listing of one's own requests.
RequestFilters == {"own", "noPermissions", "userId", "fetchOpenRequest", "status"} \cup Period

\* The controllers put the user in the place of the userId asked.
UserId(unless) == <<Write({"userId"}, unless, "userId", {"userId"})>>

Open(key) == Write({"fetchOpenRequest"}, {"noPermissions"}, key, {"fetchOpenRequest"})

LeaveWrites ==
  UserId({"noPermissions"}) \o <<Field("status")>> \o Dates("leaveFrom")
  \o <<Open("AND"), Write({"own"}, {"fetchOpenRequest"}, "AND", {}),
       Write({"noPermissions"}, {}, "AND", {})>>

CashAdvanceWrites ==
  UserId({"own", "noPermissions"}) \o <<Field("status")>> \o Dates("addedDate")
  \o <<Open("status")>>

ReimbursementWrites ==
  UserId({"own", "noPermissions"}) \o <<Field("status")>> \o Dates("addedDate")
  \o <<Open("status")>>

CarReservationWrites ==
  UserId({"own", "noPermissions"}) \o <<Field("status")>> \o Dates("fromDate")
  \o <<Open("status")>>

BiometricsFilters == {"mode", "type", "userId", "organizationId"} \cup Period

BiometricsWrites ==
  Fields(<<"type", "userId", "organizationId", "mode">>) \o Dates("checkIn")

BiometricsJobFilters == {"status"} \cup Period

BiometricsJobWrites == <<Field("status")>> \o Dates("addedDate")

\* assignedTask and myTask: the two values of type.
TaskFilters == {"own", "projectId", "status", "userIds", "assignedTask", "myTask", "taskType"}

TaskWrites ==
  <<Own("OR"), Field("status"), Field("taskType"), Key("assignedTask", "addedById"),
    Write({"assignedTask", "userIds"}, {}, "TaskMembers", {"userIds"}),
    Key("myTask", "TaskMembers")>>

PayrollFilters == {"payrollCycleId", "userId"} \cup Period

PayrollWrites == Fields(<<"userId", "payrollCycleId">>) \o Dates("monthYear")

MailLogFilters == {"subject", "email", "template"} \cup Period

MailLogWrites == <<Field("email")>> \o Dates("addedDate") \o Fields(<<"subject", "template">>)

SmsLogFilters == {"message", "userId", "gateway", "number", "status"} \cup Period

SmsLogWrites ==
  <<Field("status")>> \o Dates("sentDate")
  \o Fields(<<"userId", "message", "gateway", "number">>)

SystemLogFilters ==
  {"table", "tableColumnKey", "tableColumnValue", "organizationId", "addedById"} \cup Period

SystemLogWrites ==
  Dates("addedDate") \o Fields(<<"table", "tableColumnKey", "tableColumnValue", "addedById">>)

FaqFilters == {"title", "faqsCategoryId", "faqsCategorySlug", "forAdminpanel"}

FaqWrites ==
  Fields(<<"faqsCategoryId", "faqsCategorySlug", "forAdminpanel">>) \o <<Key("title", "AND")>>

ClientFilters == {"ids", "name", "type", "email", "phone"}

ClientWrites == Fields(<<"ids", "name", "email", "phone", "type">>)

AssetFilters == {"code", "assetName", "type"}

AssetWrites == Fields(<<"code", "assetName", "type">>)

HolidayWrites == Dates("date")

SavedSearchFilters == {"userIds", "organizationId", "isPublished", "category", "type"}

\* The controller selects the searches of the user, whoever was asked for.
SavedSearchWrites ==
  <<Field("isPublished"), Key("userIds", "userId"), Field("organizationId"),
    Push({"category"}, {}, {"category"}), Push({"type"}, {}, {"type"}),
    Write({}, {}, "userId", {})>>

AdminSearchFilters == {"userIds", "organizationId", "isPublished", "title"}

\* The controller sets AND to the searches that are the user's or global.
AdminSearchWrites ==
  Fields(<<"isPublished", "userIds", "organizationId">>)
  \o <<Push({"title"}, {}, {"title"}), Write({}, {}, "AND", {})>>

\* A month (of a year) or a period; january is the month that the query string calls 0.
Times == {"month", "january"} \cup Period

\* Of the attendance of a user, the listing shows the records, ...
AttendanceWrites ==
  Fields(<<"type", "userId">>) \o Dates("checkIn") \o <<Key("month", "AND"), Key("january", "AND")>>

\* ... the public holidays ...
AttendanceHolidays == <<Key("month", "AND")>> \o Dates("date")

\* ... and the approved leaves.
AttendanceLeaves ==
  <<Write({"month", "userId"}, {}, "requestById", {"userId"}), Key("month", "AND")>>
  \o Dates("leaveFrom")

-----------------------------------------------------------------------------
Service(filters, writes) == [filters |-> filters, writes |-> writes]

Listings ==
  {"project", "resources", "notes", "quotation", "leads", "enquiry", "user",
   "organization", "invoice", "permits", "transactions", "leave", "cashAdvance",
   "reimbursement", "carReservation", "biometrics", "biometricsJob", "task", "payroll",
   "mailLogs", "smsLogs", "systemLogs", "faqs", "client", "companyAsset", "publicHoliday",
   "savedSearches", "adminSearches", "attendance", "attendanceHolidays", "attendanceLeaves"}

ServiceOf(l) ==
  CASE l = "project" -> Service(ProjectFilters, ProjectKeys \o ProjectProgress \o ProjectMembers)
    [] l = "resources" -> Service(ResourceFilters, ResourceWrites)
    [] l = "notes" -> Service(NoteFilters, NoteWrites)
    [] l = "quotation" -> Service(QuotationFilters, QuotationWrites \o QuotationAccess)
    [] l = "leads" -> Service(LeadFilters, LeadWrites)
    [] l = "enquiry" -> Service(EnquiryFilters, EnquiryWrites)
    [] l = "user" -> Service(UserFilters, UserWrites)
    [] l = "organization" -> Service(OrganizationFilters, OrganizationWrites)
    [] l = "invoice" -> Service(InvoiceFilters, InvoiceWrites)
    [] l = "permits" -> Service(PermitFilters, PermitWrites)
    [] l = "transactions" -> Service(TransactionFilters, TransactionWrites)
    [] l = "leave" -> Service(RequestFilters, LeaveWrites)
    [] l = "cashAdvance" -> Service(RequestFilters, CashAdvanceWrites)
    [] l = "reimbursement" -> Service(RequestFilters, ReimbursementWrites)
    [] l = "carReservation" -> Service(RequestFilters, CarReservationWrites)
    [] l = "biometrics" -> Service(BiometricsFilters, BiometricsWrites)
    [] l = "biometricsJob" -> Service(BiometricsJobFilters, BiometricsJobWrites)
    [] l = "task" -> Service(TaskFilters, TaskWrites)
    [] l = "payroll" -> Service(PayrollFilters, PayrollWrites)
    [] l = "mailLogs" -> Service(MailLogFilters, MailLogWrites)
    [] l = "smsLogs" -> Service(SmsLogFilters, SmsLogWrites)
    [] l = "systemLogs" -> Service(SystemLogFilters, SystemLogWrites)
    [] l = "faqs" -> Service(FaqFilters, FaqWrites)
    [] l = "client" -> Service(ClientFilters, ClientWrites)
    [] l = "companyAsset" -> Service(AssetFilters, AssetWrites)
    [] l = "publicHoliday" -> Service(Period, HolidayWrites)
    [] l = "savedSearches" -> Service(SavedSearchFilters, SavedSearchWrites)
    [] l = "adminSearches" -> Service(AdminSearchFilters, AdminSearchWrites)
    [] l = "attendance" -> Service({"type", "userId"} \cup Times, AttendanceWrites)
    [] l = "attendanceHolidays" -> Service(Times, AttendanceHolidays)
    [] l = "attendanceLeaves" -> Service({"userId"} \cup Times, AttendanceLeaves)

Made(w, a) == w.needs \subseteq a /\ w.unless \cap a = {}

\* A mutated form of Written: AND is always set.
WrittenOver(c, w) == [k \in DOMAIN c \cup {w.key} |-> IF k = w.key THEN w.says ELSE c[k]]

\* A key is written over what it held, unless the write extends the conditions under AND.
Written(c, w) ==
  LET says == w.says \cup IF w.push /\ w.key \in DOMAIN c THEN c[w.key] ELSE {}
  IN [k \in DOMAIN c \cup {w.key} |-> IF k = w.key THEN says ELSE c[k]]

Build(a, writes) ==
  FoldLeft(LAMBDA c, w : IF Made(w, a) THEN Written(c, w) ELSE c, << >>, writes)

TypeOK ==
  /\ listing \in Listings
  /\ asked \subseteq ServiceOf(listing).filters
  /\ \A k \in DOMAIN condition : condition[k] \subseteq asked
  /\ answered \in BOOLEAN

Init ==
  /\ listing \in Listings
  /\ asked = {} /\ condition = << >> /\ answered = FALSE

\* The values of one filter, or the filters of different requests, do not come together.
Compatible(a) ==
  Cardinality(a \cap {"assignedTask", "myTask"}) <= 1
  /\ ~({"month", "january"} \subseteq a)
  /\ (a \cap {"month", "january"} = {} \/ a \cap Period = {})

(* The query string of a request names the filters.                        *)
Ask ==
  /\ ~answered /\ asked = {}
  /\ \E a \in SUBSET ServiceOf(listing).filters : Compatible(a) /\ asked' = a
  /\ UNCHANGED <<listing, condition, answered>>

\* The attendance of a user is asked for with the user and a month or a period.
Answer ==
  /\ ~answered
  /\ listing = "attendanceLeaves" => "userId" \in asked /\ asked \cap Times # {}
  /\ condition' = Build(asked, ServiceOf(listing).writes)
  /\ answered' = TRUE
  /\ UNCHANGED <<listing, asked>>

Next == Ask \/ Answer

Spec == Init /\ [][Next]_vars

-----------------------------------------------------------------------------
(* Properties.                                                             *)

\* What tells who asks from what is asked.
Who == {"own", "limited", "noPermissions"}

\* A filter counts when it was written, and every key it was written to still stands for it.
Counts(f) ==
  LET keys == {w.key : w \in {v \in Range(ServiceOf(listing).writes) :
                                Made(v, asked) /\ f \in v.says}}
  IN keys # {} /\ \A k \in keys : f \in condition[k]

\* f is lost when all of with and none of without are asked as well.
Loss(f, with, without) == [filter |-> f, with |-> with, without |-> without]

Always(fs) == {Loss(f, {}, {}) : f \in fs}

\* Both ends of a period are lost together.
PeriodLost(with) == {Loss("fromDate", {"toDate"} \cup with, {}),
                     Loss("toDate", {"fromDate"} \cup with, {})}

RequestLosses ==
  {Loss("userId", {"own"}, {}), Loss("userId", {"noPermissions"}, {}),
   Loss("fetchOpenRequest", {"noPermissions"}, {}),
   Loss("status", {"fetchOpenRequest"}, {"noPermissions"})}

(* The filters that are lost, by listing; the others lose none.            *)
Losses(l) ==
  CASE l = "project" ->
         {Loss("isClosed", {"delayed"}, {}), Loss("projectRole", {}, {"userIds"})}
    [] l = "resources" -> PeriodLost({"fileName"})
    [] l = "quotation" ->
         Always({"leadId"}) \cup
         {Loss("assignedToId", {"clientId"}, {}), Loss("assignedToId", {"projectTypeId"}, {}),
          Loss("clientId", {"projectTypeId"}, {})}
    [] l = "user" -> Always({"userType"}) \cup {Loss("roleIds", {"roleSlugs"}, {})}
    [] l = "organization" -> Always({"location"}) \cup {Loss("includeBranches", {}, {"type"})}
    [] l = "permits" ->
         {Loss("onlyActive", {"onlyExpired"}, {})} \cup
         {Loss(f, {"fromDate"}, {"toDate"}) : f \in {"onlyActive", "onlyExpired"}} \cup
         {Loss(f, {"toDate"}, {"fromDate"}) : f \in {"onlyActive", "onlyExpired"}}
    [] l = "transactions" -> {Loss("onlyGovernmentFees", {"onlyInvoicePayments"}, {})}
    [] l = "leave" ->
         PeriodLost({"fetchOpenRequest"}) \cup PeriodLost({"own"}) \cup
         PeriodLost({"noPermissions"}) \cup
         {Loss("userId", {"noPermissions"}, {}), Loss("fetchOpenRequest", {"noPermissions"}, {})}
    [] l \in {"cashAdvance", "reimbursement", "carReservation"} -> RequestLosses
    [] l = "task" -> Always({"projectId"}) \cup {Loss("userIds", {}, {"assignedTask"})}
    [] l = "systemLogs" -> Always({"organizationId"})
    [] l = "savedSearches" -> Always({"userIds"})
    [] l = "adminSearches" -> Always({"title"})
    [] l = "attendanceHolidays" -> Always({"january"})
    [] l = "attendanceLeaves" -> Always({"january"}) \cup {Loss("userId", {}, {"month"})}
    [] OTHER -> {}

(* Every filter of a request restricts its answer, whichever others come   *)
(* with it, but for the losses named; and those are lost indeed.           *)
EveryFilterCounts ==
  answered =>
    LET lost == {x.filter : x \in {y \in Losses(listing) :
                                     y.with \subseteq asked /\ y.without \cap asked = {}}}
    IN \A f \in asked \ Who : Counts(f) <=> f \notin lost
=============================================================================
