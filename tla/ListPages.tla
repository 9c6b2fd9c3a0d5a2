------------------------------ MODULE ListPages ------------------------------
(***************************************************************************)
(* A listing read page by page: findAll and its kin in the services under  *)
(* src/src/modules, with the handlers that count the rows for the number   *)
(* of pages.                                                               *)
(*                                                                         *)
(* A page is skip and take of a query of its own, and pageCount comes from *)
(* yet another query, so rows that come and go while somebody turns the    *)
(* pages shift the rest.  What differs among the listings is what the      *)
(* queries are sorted by, and whether the handler waits for the rows       *)
(* before it has them counted.                                             *)
(***************************************************************************)
EXTENDS Integers, FiniteSets

CONSTANTS
  Ids,          \* rows, numbered; found by the filters or not
  Key,          \* of every row: the value of the field a listing is sorted by
  PerPage,
  MaxComings    \* bound on the rows that come and go

VARIABLES
  listing,      \* the handler that is asked, page after page
  found,        \* the rows its filters find now
  page,         \* the page being read
  read,         \* the query of the page has answered
  count,        \* what the count answered, or NotYet
  listed, again, \* the rows read so far, and those read twice
  stayed,       \* the rows that have been found since before the first page
  came, left, overtaken, \* a row came; one left; one came between a count and its rows
  comings

vars ==
  <<listing, found, page, read, count, listed, again, stayed, came, left, overtaken, comings>>

NotYet == -1

-----------------------------------------------------------------------------
(* Queries: sorted by what; joined, one line for each member of a row;     *)
(* or whole, without regard to the page.                                   *)

Query(by) == [by |-> by, joined |-> FALSE, whole |-> FALSE]

ById == Query("id")

\* By a date, or by a field of the client's choice: several rows may have the same.
ByKey == Query("key")

Unordered == Query("nothing")

Joined == [ByKey EXCEPT !.joined = TRUE]

Whole == [Unordered EXCEPT !.whole = TRUE]

MailLogs == ByKey
AttendanceRecords == ByKey
Authorities == ById
PublishedAuthorities == ById
BiometricsJobs == ById
Checks == ById
BlogsCategories == ByKey
PublishedBlogsCategories == ByKey
BlogsOfCategory == Unordered
Blogs == ByKey
PublishedBlogs == ByKey
CarRequests == ById
CashAdvances == ById
ClientList == ById
PublishedClients == ById
Assets == ById
PublishedAssets == ById
DepartmentList == ById
PublishedDepartments == ById
DiaryEntries == ByKey
DiaryReport == ByKey
DiaryOfUser == Whole
Enquiries == ByKey
FaqsCategories == ById
Faqs == ById
PublishedFaqs == ById
Feedbacks == ByKey
InvoiceList == ByKey
LeadList == ByKey
LeaveRequests == ById
Notifications == Whole
Announcements == Whole
Organizations == ByKey
PublishedOrganizations == ByKey
PayrollCycleList == ByKey
Payrolls == ById
Permits == ById
ProjectComponents == ById
PublishedProjectComponents == ById
ProjectStates == ById
PublishedProjectStates == ById
ProjectTypes == ById
PublishedProjectTypes == ById
ProjectList == ByKey
Conversations == Joined
ProjectNames == ById
ProjectResources == ById
ProjectNotes == ByKey
PublicHolidays == ById
QuotationList == ByKey
Reimbursements == ById
SavedSearches == ByKey
SmsLogs == ByKey
StaticPages == ByKey
SystemLogs == ByKey
TaskList == ByKey
TransactionList == ByKey
UserList == ByKey
BasicUsers == ByKey
Logins == ByKey

-----------------------------------------------------------------------------
(* Handlers: the count after the rows, or beside them; of the rows found,  *)
(* or of more.                                                             *)

After(query) == [query |-> query, beside |-> FALSE, counts |-> "found"]

Beside(query) == [query |-> query, beside |-> TRUE, counts |-> "found"]

CountingMore(handler) == [handler EXCEPT !.counts = "more"]

ReadMailSentLogs == Beside(MailLogs)
FindAttendance == After(AttendanceRecords)
FindPublishedAuthorities == After(PublishedAuthorities)
FindAuthorities == After(Authorities)
FindBiometricsJobs == After(BiometricsJobs)
FindBiometrics == After(Checks)
FindBlogsCategories == Beside(BlogsCategories)
FindPublishedBlogsCategories == After(PublishedBlogsCategories)
FindBlogsCategory == CountingMore(Beside(BlogsOfCategory))
FindBlogs == Beside(Blogs)
FindPublishedBlogs == After(PublishedBlogs)
FindCarRequests == After(CarRequests)
ReadOwnCarRequests == After(CarRequests)
FindCashAdvances == After(CashAdvances)
ReadOwnCashAdvances == After(CashAdvances)
FindPublishedClients == After(PublishedClients)
FindClients == After(ClientList)
FindPublishedAssets == After(PublishedAssets)
FindAssets == After(Assets)
FindPublishedDepartments == After(PublishedDepartments)
FindDepartments == After(DepartmentList)
FindDiary == After(DiaryEntries)
FindDiaryReport == CountingMore(After(DiaryReport))
FindDiaryReportOfUser == CountingMore(After(DiaryOfUser))
FindEnquiries == Beside(Enquiries)
FindLogs == After(Enquiries)
FindFaqsCategories == After(FaqsCategories)
FindPublishedFaqs == After(PublishedFaqs)
FindFaqs == After(Faqs)
FindFeedbacks == After(Feedbacks)
FindInvoices == Beside(InvoiceList)
FindLeads == Beside(LeadList)
FindLeaveRequests == After(LeaveRequests)
ReadOwnLeaveRequests == After(LeaveRequests)
FindNotifications == After(Notifications)
FindAnnouncements == After(Announcements)
FindOrganizations == Beside(Organizations)
FindPublishedOrganizations == Beside(PublishedOrganizations)
FindPayrollCycles == Beside(PayrollCycleList)
FindPayrolls == Beside(Payrolls)
FindPermits == Beside(Permits)
FindPublishedComponents == After(PublishedProjectComponents)
FindComponents == After(ProjectComponents)
FindPublishedStates == After(PublishedProjectStates)
FindStates == After(ProjectStates)
FindPublishedTypes == After(PublishedProjectTypes)
FindTypes == After(ProjectTypes)
FindProjects == After(ProjectList)
FindConversations == After(Conversations)
FindProjectNames == After(ProjectNames)
FindProjectFiles == After(ProjectResources)
FindProjectNotes == After(ProjectNotes)
FindPublicHolidays == After(PublicHolidays)
FindQuotations == Beside(QuotationList)
FindReimbursements == After(Reimbursements)
ReadOwnReimbursements == After(Reimbursements)
FindAdminSearches == Beside(SavedSearches)
FindSearches == Beside(SavedSearches)
ReadSmsSentLogs == Beside(SmsLogs)
FindStaticPages == CountingMore(Beside(StaticPages))
FindPublishedStaticPages == Beside(StaticPages)
ReadSystemLogs == Beside(SystemLogs)
FindTasks == After(TaskList)
FindTechSupport == After(TaskList)
FindTransactions == Beside(TransactionList)
FindUsers == Beside(UserList)
FindBasicUsers == Beside(BasicUsers)
FindUserLoginHistory == Beside(Logins)

Handlers ==
  {ReadMailSentLogs, FindAttendance, FindPublishedAuthorities, FindAuthorities,
   FindBiometricsJobs, FindBiometrics, FindBlogsCategories, FindPublishedBlogsCategories,
   FindBlogsCategory, FindBlogs, FindPublishedBlogs, FindCarRequests, ReadOwnCarRequests,
   FindCashAdvances, ReadOwnCashAdvances, FindPublishedClients, FindClients,
   FindPublishedAssets, FindAssets, FindPublishedDepartments, FindDepartments, FindDiary,
   FindDiaryReport, FindDiaryReportOfUser, FindEnquiries, FindLogs, FindFaqsCategories,
   FindPublishedFaqs, FindFaqs, FindFeedbacks, FindInvoices, FindLeads, FindLeaveRequests,
   ReadOwnLeaveRequests, FindNotifications, FindAnnouncements, FindOrganizations,
   FindPublishedOrganizations, FindPayrollCycles, FindPayrolls, FindPermits,
   FindPublishedComponents, FindComponents, FindPublishedStates, FindStates,
   FindPublishedTypes, FindTypes, FindProjects, FindConversations, FindProjectNames,
   FindProjectFiles, FindProjectNotes, FindPublicHolidays, FindQuotations, FindReimbursements,
   ReadOwnReimbursements, FindAdminSearches, FindSearches, ReadSmsSentLogs, FindStaticPages,
   FindPublishedStaticPages, ReadSystemLogs, FindTasks, FindTechSupport, FindTransactions,
   FindUsers, FindBasicUsers, FindUserLoginHistory}

-----------------------------------------------------------------------------
(* skip and take.                                                          *)

\* A project with its members makes as many lines as it has members; one in three has two.
Lines(q, s) ==
  IF q.joined THEN {l \in s \X {1, 2} : l[2] = 1 \/ l[1] % 3 = 0} ELSE {<<i, 1>> : i \in s}

Rank(q, i) == CASE q.by = "id" -> i [] q.by = "key" -> Key[i] [] OTHER -> 0

Sorted(q, first, rest) == \A l \in first, m \in rest : Rank(q, l[1]) <= Rank(q, m[1])

Smaller(m, n) == IF m < n THEN m ELSE n

\* What a query may answer: some order of the lines that keeps to the sorting, cut at skip
\* and take.  Lines of the same key come in any order, and in another one the next time.
Slices(q, s, skip, take) ==
  LET all == Lines(q, s)
      Prefixes(n) ==
        {p \in SUBSET all :
          /\ Cardinality(p) = Smaller(n, Cardinality(all))
          /\ Sorted(q, p, all \ p)}
  IN IF q.whole THEN {s}
     ELSE {{l[1] : l \in bp[2] \ bp[1]} :
            bp \in {c \in Prefixes(skip) \X Prefixes(skip + take) : c[1] \subseteq c[2]}}

\* Skips as if the pages were counted from zero.
SkipFromZero(n) == PerPage * n

Skip(n) == PerPage * (n - 1)

PageCount(total) == total \div PerPage + (IF total % PerPage = 0 THEN 0 ELSE 1)

-----------------------------------------------------------------------------
Init ==
  /\ listing \in Handlers
  /\ found \in SUBSET Ids
  /\ page = 1 /\ read = FALSE /\ count = NotYet
  /\ listed = {} /\ again = {} /\ stayed = found
  /\ came = FALSE /\ left = FALSE /\ overtaken = FALSE
  /\ comings = 0

(* The rows of a page, and the count.                                      *)
Read ==
  /\ page > 0 /\ ~read
  /\ read' = TRUE
  /\ \E rows \in Slices(listing.query, found, Skip(page), PerPage) :
       again' = again \cup (listed \cap rows) /\ listed' = listed \cup rows
  /\ UNCHANGED <<listing, found, page, count, stayed, came, left, overtaken, comings>>

Count ==
  /\ page > 0 /\ count = NotYet
  /\ read \/ listing.beside
  /\ IF listing.counts = "found" THEN count' = Cardinality(found)
     ELSE count' \in {Cardinality(found), Cardinality(found) + 1}
  /\ UNCHANGED <<listing, found, page, read, listed, again, stayed, came, left, overtaken,
                 comings>>

(* The next page, if there is one; page 0 when there is none.              *)
Turn ==
  /\ read /\ count # NotYet
  /\ page' = IF page < PageCount(count) THEN page + 1 ELSE 0
  /\ read' = FALSE /\ count' = NotYet
  /\ UNCHANGED <<listing, found, listed, again, stayed, came, left, overtaken, comings>>

(* Other requests: a row is added, or edited so that the filters find it;  *)
(* one is removed, or found no more.                                       *)
Come(i) ==
  /\ page > 0 /\ comings < MaxComings
  /\ i \notin found
  /\ found' = found \cup {i}
  /\ came' = TRUE /\ overtaken' = (overtaken \/ (count # NotYet /\ ~read))
  /\ comings' = comings + 1
  /\ UNCHANGED <<listing, page, read, count, listed, again, stayed, left>>

Leave(i) ==
  /\ page > 0 /\ comings < MaxComings
  /\ i \in found
  /\ found' = found \ {i} /\ stayed' = stayed \ {i}
  /\ left' = TRUE
  /\ comings' = comings + 1
  /\ UNCHANGED <<listing, page, read, count, listed, again, came, overtaken>>

Next == Read \/ Count \/ Turn \/ \E i \in Ids : Come(i) \/ Leave(i)

Spec == Init /\ [][Next]_vars

-----------------------------------------------------------------------------
(* Rows whose place is not decided by the sorting.                         *)
Tied(i) == \E j \in Ids \ {i} : Rank(listing.query, i) = Rank(listing.query, j)

(* Who turns the pages to the last has seen every row that was there all   *)
(* the time, and a row twice only when another one came.  The code makes   *)
(* sure of neither once a row has left (the others move up to a page that  *)
(* was read), for rows tied in the sorting, and for lists whose lines are  *)
(* not rows; and a count beside the rows may miss a row that came between  *)
(* the two, and stop one page too early.                                   *)
EveryRowIsListed ==
  page = 0 /\ ~listing.query.joined =>
    \A i \in stayed :
      /\ left \/ overtaken \/ Tied(i) \/ i \in listed
      /\ left \/ came \/ Tied(i) \/ i \notin again
=============================================================================
