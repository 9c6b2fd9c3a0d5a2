------------------------------- MODULE Uploads -------------------------------
(***************************************************************************)
(* A file that comes with a request: on the disk, in a row, and in S3      *)
(* (helpers/file-upload.utils.ts, helpers/file-management.ts, and the      *)
(* handlers of the controllers under src/src/modules that take files).     *)
(*                                                                         *)
(* The file is written to the disk before the handler runs.  The handler   *)
(* stores its path in a row and has it sent to S3, which goes on by itself *)
(* after the answer, and removes it from the disk once it is there.  A     *)
(* handler that fails removes the file from the disk, if it was written    *)
(* to.  Handlers differ in the order of these steps.                       *)
(***************************************************************************)
EXTENDS FiniteSets, Integers, Sequences

CONSTANTS
  Files,
  Paths,        \* the name it came with, and the millisecond
  None,
  MaxFailures   \* bound on the queries and sendings that fail

VARIABLES
  endpoint,     \* the handler all the requests are for
  path, at,     \* of every file: its path; the next step of its request, 0 before it comes
  disk, store,  \* what is at a path on the disk, in S3
  sending,      \* the files that are on their way to S3
  stream,       \* what has been opened to be sent, or None
  named,        \* the files in rows
  late, broken, twins, \* history: requests that failed after the row was written; those a
                \* restart cut off, and sendings that failed; did two files get one path?
  failures, restarted

vars ==
  <<endpoint, path, at, disk, store, sending, stream, named, late, broken, twins, failures,
    restarted>>

-----------------------------------------------------------------------------
(* The steps of the services, from when the file is on the disk: a query   *)
(* (or several that come together), or the one that stores the path. PDFs  *)
(* and avatars are files that the services write themselves.               *)

Query == <<"query">>
Row == <<"name">>
Send == <<"send">>

getSectionData == Query
checkIfSectionHasContentForCountry == Query
SectionContentRow == Row
SectionContentChange == Row
PermissionRow == Row
PermissionChange == Row
InvoiceRow == Query \o Row \o Query
InvoiceChange == Query \o Row \o Query
generateInvoicePdf == Send \o Row \o Query
QuotationRow == Query \o Row \o Query
QuotationChange == Query \o Row \o Query
generateQuotationPdf == Send \o Row \o Query
checkImagesThreshold == Query
handleBlogImages == Query \o Row \o Query
BlogRow == Row
BlogChange == Row
handleUserDocuments == Query \o Row
UserRow == Row
UserChange == Query \o Row
createUserAvatar == Send \o Row
BiometricsJobRow == Row
TransactionRow == Query \o Row
TransactionChange == Row
LeaveRow == Query \o Query
LeaveFiles == Row
LeaveFound == Query
CashAdvanceRow == Query
CashAdvanceFiles == Row
CashAdvanceFound == Query
CarReservationRow == Query
CarReservationFiles == Row
CarReservationFound == Query
FeedbackRow == Query
FeedbackFiles == Row
FeedbackFound == Query
handleTaskFiles == Query \o Row \o Query
BlogsCategoryRow == Row
BlogsCategoryChange == Row
NotificationRow == Row \o Query
EnquiryDocuments == Query \o Row
LeadDocuments == Query \o Row
handlePropertyFiles == Query \o Row \o Query
handleConversationFiles == Query \o Query \o Row \o Query
PermitRow == Query
PermitChange == Query
PermitDocuments == Row
PermitFound == Query
ReimbursementRow == Query
ReimbursementReceiptRows == Row
ReimbursementFound == Query
ModuleRow == Row
ModuleChange == Row
StaticPageRow == Row
StaticPageChange == Row
OrganizationRow == Query \o Row
OrganizationChange == Row
handleFaqImages == Query \o Row \o Query
validateCheckInCheckOut == Query \o Query
checkInCheckOut == Row

-----------------------------------------------------------------------------
(* The handlers: their steps, and whether they remove the file on failing. *)
(* None of them waits for S3: the promise it awaits is of the beginning.   *)

Careful(steps) == [steps |-> steps, removes |-> TRUE]

Careless(steps) == [steps |-> steps, removes |-> FALSE]

CreateContent ==
  Careless(getSectionData \o checkIfSectionHasContentForCountry \o SectionContentRow \o Send)
UpdateContent == Careless(SectionContentChange \o Send)
CreatePermission == Careless(PermissionRow \o Send)
UpdatePermission == Careless(PermissionChange \o Send)
CreateInvoice == Careful(InvoiceRow \o Send)
UpdateInvoice == Careful(InvoiceChange \o Send)
InvoicePdf == Careless(generateInvoicePdf)
CreateQuotation == Careful(QuotationRow \o Send)
UpdateQuotation == Careful(QuotationChange \o Send)
QuotationPdf == Careless(generateQuotationPdf)
uploadBlogImages == Careful(checkImagesThreshold \o handleBlogImages \o Send)
CreateBlog == Careful(BlogRow \o Send)
UpdateBlog == Careful(BlogChange \o Send)
uploadUserDocuments == Careful(Query \o handleUserDocuments \o Send)
CreateUser == Careful(UserRow \o Send)
updateMe == Careful(UserChange \o Send)
UpdateUser == Careful(Query \o UserChange \o Send)
UserAvatar == Careless(createUserAvatar)
CreateBiometricsJob == Careful(BiometricsJobRow \o Send)
CreateTransaction == Careful(TransactionRow \o Send)
UpdateTransaction == Careful(TransactionChange \o Send)
CreateLeave == Careful(LeaveRow \o LeaveFiles \o Send \o LeaveFound)
CreateCashAdvance == Careful(CashAdvanceRow \o CashAdvanceFiles \o Send \o CashAdvanceFound)
CreateCarReservation ==
  Careful(CarReservationRow \o CarReservationFiles \o Send \o CarReservationFound)
CreateFeedback == Careful(FeedbackRow \o FeedbackFiles \o Send \o FeedbackFound)
uploadTaskFiles == Careful(Query \o handleTaskFiles \o Send)
CreateBlogsCategory == Careful(BlogsCategoryRow \o Send)
UpdateBlogsCategory == Careful(BlogsCategoryChange \o Send)
CreateNotification == Careless(NotificationRow \o Send)
uploadEnquiryDocuments == Careful(EnquiryDocuments \o Send)
uploadLeadDocuments == Careful(LeadDocuments \o Send)
uploadPropertyFiles == Careful(Query \o handlePropertyFiles \o Send)
uploadConversationFiles == Careful(Query \o handleConversationFiles \o Send)
CreatePermit == Careful(PermitRow \o PermitDocuments \o Send \o PermitFound)
UpdatePermit == Careful(PermitChange \o PermitDocuments \o Send \o PermitFound)
CreateReimbursement ==
  Careful(ReimbursementRow \o ReimbursementReceiptRows \o Send \o ReimbursementFound)
CreateModule == Careless(ModuleRow)
UpdateModule == Careless(ModuleChange \o Send)
CreateStaticPage == Careful(StaticPageRow \o Send)
UpdateStaticPage == Careless(StaticPageChange \o Send)
CreateOrganization == Careful(Send \o OrganizationRow)
UpdateOrganization == Careful(Send \o OrganizationChange)
uploadFaqImages == Careful(handleFaqImages \o Send)
CheckInCheckOut == Careful(validateCheckInCheckOut \o checkInCheckOut \o Send)

Endpoints ==
  {CreateContent, UpdateContent, CreatePermission, UpdatePermission, CreateInvoice,
   UpdateInvoice, InvoicePdf, CreateQuotation, UpdateQuotation, QuotationPdf, uploadBlogImages,
   CreateBlog, UpdateBlog, uploadUserDocuments, CreateUser, updateMe, UpdateUser, UserAvatar,
   CreateBiometricsJob, CreateTransaction, UpdateTransaction, CreateLeave, CreateCashAdvance,
   CreateCarReservation, CreateFeedback, uploadTaskFiles, CreateBlogsCategory,
   UpdateBlogsCategory, CreateNotification, uploadEnquiryDocuments, uploadLeadDocuments,
   uploadPropertyFiles, uploadConversationFiles, CreatePermit, UpdatePermit,
   CreateReimbursement, CreateModule, UpdateModule, CreateStaticPage, UpdateStaticPage,
   CreateOrganization, UpdateOrganization, uploadFaqImages, CheckInCheckOut}

-----------------------------------------------------------------------------
Init ==
  /\ endpoint \in Endpoints
  /\ path = [f \in Files |-> None] /\ at = [f \in Files |-> 0]
  /\ disk = [p \in Paths |-> None] /\ store = [p \in Paths |-> None]
  /\ sending = {} /\ stream = [f \in Files |-> None]
  /\ named = {} /\ late = {} /\ broken = {} /\ twins = FALSE
  /\ failures = 0 /\ restarted = FALSE

Over == Len(endpoint.steps) + 1

Underway(f) == at[f] \in 1..Len(endpoint.steps)

NextStep(f, s) == Underway(f) /\ endpoint.steps[at[f]] = s /\ at' = [at EXCEPT ![f] = @ + 1]

Fails == failures < MaxFailures /\ failures' = failures + 1

(* The file is written to the disk.  Two files of one name that come in    *)
(* the same millisecond get the same path.                                 *)
Receive(f, p) ==
  /\ at[f] = 0 /\ \A g \in Files : path[g] = p => at[g] = 1
  /\ path' = [path EXCEPT ![f] = p] /\ at' = [at EXCEPT ![f] = 1]
  /\ disk' = [disk EXCEPT ![p] = f]
  /\ twins' = (twins \/ \E g \in Files : path[g] = p)
  /\ UNCHANGED <<endpoint, store, sending, stream, named, late, broken, failures, restarted>>

MakeQuery(f) ==
  /\ NextStep(f, "query")
  /\ UNCHANGED <<endpoint, path, disk, store, sending, stream, named, late, broken, twins,
                 failures, restarted>>

StorePath(f) ==
  /\ NextStep(f, "name")
  /\ named' = named \cup {f}
  /\ UNCHANGED <<endpoint, path, disk, store, sending, stream, late, broken, twins, failures,
                 restarted>>

\* The handler goes on while the file is read and sent.
uploadFile(f) ==
  /\ NextStep(f, "send")
  /\ sending' = sending \cup {f}
  /\ UNCHANGED <<endpoint, path, disk, store, stream, named, late, broken, twins, failures,
                 restarted>>

\* The handler's catch leaves the file.
removeNothing(f) == disk

removeUploadedFiles(f) == [disk EXCEPT ![path[f]] = None]

(* A query rejects, and so does the handler.                               *)
HandlerFails(f) ==
  /\ Fails
  /\ Underway(f) /\ endpoint.steps[at[f]] # "send"
  /\ at' = [at EXCEPT ![f] = Over]
  /\ disk' = IF endpoint.removes THEN removeUploadedFiles(f) ELSE disk
  /\ late' = IF f \in named THEN late \cup {f} ELSE late
  /\ UNCHANGED <<endpoint, path, store, sending, stream, named, broken, twins, restarted>>

-----------------------------------------------------------------------------
(* S3.                                                                     *)
OpenStream(f) ==
  /\ f \in sending /\ stream[f] = None /\ disk[path[f]] # None
  /\ stream' = [stream EXCEPT ![f] = disk[path[f]]]
  /\ UNCHANGED <<endpoint, path, at, disk, store, sending, named, late, broken, twins, failures,
                 restarted>>

Sent(f) ==
  /\ stream[f] # None
  /\ store' = [store EXCEPT ![path[f]] = stream[f]]
  /\ disk' = [disk EXCEPT ![path[f]] = None]
  /\ sending' = sending \ {f} /\ stream' = [stream EXCEPT ![f] = None]
  /\ UNCHANGED <<endpoint, path, at, named, late, broken, twins, failures, restarted>>

\* What becomes of the file on the disk when S3 did not take it.
GoneFromDisk(f) == [disk EXCEPT ![path[f]] = None]

KeptOnDisk(f) == disk

(* S3 does not answer, or there is no file at the path: that is logged.    *)
NotSent(f) ==
  /\ f \in sending
  /\ \/ Fails
     \/ stream[f] = None /\ disk[path[f]] = None /\ UNCHANGED failures
  /\ disk' = KeptOnDisk(f)
  /\ sending' = sending \ {f} /\ stream' = [stream EXCEPT ![f] = None]
  /\ broken' = broken \cup {f}
  /\ UNCHANGED <<endpoint, path, at, store, named, late, twins, restarted>>

(* The program restarts: the requests and what was being sent are lost.    *)
Restart ==
  /\ ~restarted /\ restarted' = TRUE
  /\ broken' = broken \cup sending \cup {f \in Files : Underway(f)}
  /\ at' = [f \in Files |-> IF Underway(f) THEN Over ELSE at[f]]
  /\ sending' = {} /\ stream' = [f \in Files |-> None]
  /\ UNCHANGED <<endpoint, path, disk, store, named, late, twins, failures>>

Next ==
  \/ Restart
  \/ \E f \in Files :
       \/ \E p \in Paths : Receive(f, p)
       \/ MakeQuery(f) \/ StorePath(f) \/ uploadFile(f) \/ HandlerFails(f)
       \/ OpenStream(f) \/ Sent(f) \/ NotSent(f)

Spec == Init /\ [][Next]_vars

-----------------------------------------------------------------------------
Steps == {"query", "name", "send"}

TypeOK ==
  /\ endpoint \in Endpoints /\ endpoint.steps \in Seq(Steps)
  /\ path \in [Files -> Paths \cup {None}] /\ at \in [Files -> 0..Over]
  /\ {disk, store} \subseteq [Paths -> Files \cup {None}]
  /\ stream \in [Files -> Files \cup {None}]
  /\ sending \cup named \cup late \cup broken \subseteq Files
  /\ twins \in BOOLEAN /\ restarted \in BOOLEAN /\ failures \in 0..MaxFailures

Received == {f \in Files : path[f] # None}

Kept(f) == disk[path[f]] = f \/ store[path[f]] = f

SendsFirst ==
  \E i, j \in DOMAIN endpoint.steps :
    i < j /\ endpoint.steps[i] = "send" /\ endpoint.steps[j] = "name"

(* A file whose path is in a row is on the disk or in S3, whatever fails   *)
(* and whenever the program restarts: unless a query failed after the row  *)
(* was written, since the handler then removes the file and leaves the     *)
(* row.                                                                    *)
NamedIsKept == ~twins => \A f \in named \ late : Kept(f)

(* Once its request is over and nothing is being sent, it is in S3, unless *)
(* a failure or a restart came between: nobody sends it again then.  The   *)
(* icon of a new module is never sent.                                     *)
NamedArrives ==
  ~twins /\ endpoint # CreateModule =>
    \A f \in named \ (late \cup broken \cup sending) :
      at[f] = Over => store[path[f]] = f

(* A request that failed before the row was written leaves no file, unless *)
(* its handler removes none or sends the file first, or it was cut off.    *)
NothingIsLeft ==
  ~twins /\ endpoint.removes /\ ~SendsFirst =>
    \A f \in Received \ (named \cup broken) : at[f] = Over => ~Kept(f)
=============================================================================
