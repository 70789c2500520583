---------------------------- MODULE HttpExchange ----------------------------
(***************************************************************************)
(* One HTTP exchange on its way through AppModule: body parser, router,    *)
(* ThrottlerGuard, UserResponseInterceptor, FileInterceptor, the pipes,    *)
(* the controller method and the service call behind it, and back through  *)
(* the interceptor, whatever fails on the way.  The service call is what   *)
(* UserContract says of it: it takes effect or not, then a result or an    *)
(* error comes back.                                                       *)
(***************************************************************************)
EXTENDS Integers, Sequences

VARIABLES
    request,   \* the request being served
    phase,     \* what happens next to it
    entered,   \* the controller method has been called
    affected,  \* rows the statement of the service call has matched
    applied,   \* rows the service call has changed, committed
    error,     \* what was thrown
    faulty,    \* Redis or Postgres has failed this request
    answer     \* what the client gets

vars == <<request, phase, entered, affected, applied, error, faulty, answer>>

(***************************************************************************)
(* Data.                                                                   *)
(***************************************************************************)

\* The codes of enum SYSTEM_CODE this program can answer, and what stands for a
\* message that is no code.
SYSTEM_CODE == {"SUCCESS", "SORRY_SOMETHING_WENT_WRONG", "PLEASE_THROW_SYSTEM_CODE",
                "BAD_REQUEST", "UNAUTHORIZED", "FORBIDDEN", "FETCH_REQUEST_FAILED"}
Text == "text"

\* The DTOs of these routes can be broken by the client; the others take only an
\* :id, which is a non-empty string in every URL that is routed there.
HasDto(route) == route \in {"users", "updateProfile"}

\* input: whether query and body pass their DTO.  file: what the field "file" of
\* a multipart body holds; unreadable: multer rejects the body.
Request ==
    {q \in [route : {"hello", "users", "profile", "updateProfile", "removeUser", "unknown"},
            input : {"valid", "invalid"},
            file  : {"none", "accepted", "refused", "unreadable"}] :
        /\ q.input = "invalid" => HasDto(q.route)
        /\ q.file # "none" => q.route = "updateProfile"}

Writes == {"updateProfile", "removeUser"}

\* A thrown error: an HttpException or another Error, the status and message of
\* the former.
HttpException(status, message) == [http |-> TRUE, status |-> status, message |-> message]
OtherError == [http |-> FALSE, status |-> 500, message |-> Text]

\* wrapped: the body is a ResponseDTO with that systemCode and data; otherwise it
\* is what Nest answers by itself.  Of data only a number of rows matters.
Other == -1
Answer(status, wrapped, code, data) ==
    [status |-> status, wrapped |-> wrapped, systemCode |-> code, data |-> data]
NoAnswer == Answer(0, FALSE, Text, Other)

(***************************************************************************)
(* BaseResponseInterceptor.                                                *)
(***************************************************************************)

\* Variant: any message passes for a system code.
translateResponseUnchecked(message, status, data) ==
    Answer(status, TRUE, message, data)

translateResponse(message, status, data) ==
    Answer(status, TRUE,
           IF message \in SYSTEM_CODE THEN message ELSE "PLEASE_THROW_SYSTEM_CODE",
           data)

\* Variant: any other status than those in the table is left as it is.
catchErrorKeepingStatus(e, statusCode) ==
    IF e.http
    THEN translateResponse(e.message, e.status, Other)
    ELSE translateResponse("SORRY_SOMETHING_WENT_WRONG", statusCode, Other)

\* statusCode: of the response so far.
catchError(e, statusCode) ==
    IF e.http
    THEN translateResponse(e.message, e.status, Other)
    ELSE CASE statusCode = 400 -> translateResponse("BAD_REQUEST", 400, Other)
           [] statusCode = 401 -> translateResponse("UNAUTHORIZED", 401, Other)
           [] statusCode = 403 -> translateResponse("FORBIDDEN", 403, Other)
           [] statusCode < 300 -> translateResponse("SORRY_SOMETHING_WENT_WRONG", 500, Other)
           [] OTHER -> translateResponse("SORRY_SOMETHING_WENT_WRONG", statusCode, Other)

Errors == [http : BOOLEAN, status : {400, 413, 500}, message : {Text}]

Answers == {a \in [status : {0, 200, 400, 404, 413, 415, 429, 500}, wrapped : BOOLEAN,
                   systemCode : SYSTEM_CODE \cup {Text}, data : {Other, 0, 1}] :
               a.wrapped => a.systemCode \in SYSTEM_CODE}

TypeOK ==
    /\ request \in Request
    /\ phase \in {"idle", "routed", "admitted", "pipes", "method", "statement",
                  "commit", "reply", "returned", "thrown", "answered"}
    /\ entered \in BOOLEAN
    /\ affected \in {0, 1}
    /\ applied \in {0, 1}
    /\ error \in Errors
    /\ faulty \in BOOLEAN
    /\ answer \in Answers

Init ==
    /\ request \in Request
    /\ phase = "idle"
    /\ entered = FALSE
    /\ affected = 0
    /\ applied = 0
    /\ error = OtherError
    /\ faulty = FALSE
    /\ answer = NoAnswer

Throw(e) == phase' = "thrown" /\ error' = e

Answered(a) == phase' = "answered" /\ answer' = a

(***************************************************************************)
(* On the way in.                                                          *)
(***************************************************************************)

Arrive(q) ==
    /\ phase \in {"idle", "answered"}
    /\ request' = q
    /\ phase' = "routed"
    /\ entered' = FALSE
    /\ affected' = 0
    /\ applied' = 0
    /\ error' = OtherError
    /\ faulty' = FALSE
    /\ answer' = NoAnswer

\* The body parser rejects the body, or the router cannot decode :id: Nest answers by
\* itself, whatever the route.
Unreadable ==
    /\ phase = "routed"
    /\ \/ Answered(Answer(400, FALSE, Text, Other))
       \/ Answered(Answer(413, FALSE, Text, Other))
       \/ Answered(Answer(415, FALSE, Text, Other))
    /\ UNCHANGED <<request, entered, affected, applied, error, faulty>>

\* The router knows no such URL and throws before any interceptor runs.
NotFound ==
    /\ phase = "routed"
    /\ request.route = "unknown"
    /\ Answered(Answer(404, FALSE, Text, Other))
    /\ UNCHANGED <<request, entered, affected, applied, error, faulty>>

\* ThrottlerGuard: guards run before the interceptors, so a ThrottlerException
\* and a Redis error are answered by Nest itself.
Guard ==
    /\ phase = "routed"
    /\ request.route # "unknown"
    /\ \/ phase' = "admitted" /\ UNCHANGED <<answer, faulty>>
       \/ Answered(Answer(429, FALSE, Text, Other)) /\ UNCHANGED faulty
       \/ Answered(Answer(500, FALSE, Text, Other)) /\ faulty' = TRUE
    /\ UNCHANGED <<request, entered, affected, applied, error>>

\* FileInterceptor of updateProfile: multer reads the body, or rejects it with
\* BadRequestException or PayloadTooLargeException.
ReadBody ==
    /\ phase = "admitted"
    /\ IF request.file = "unreadable"
       THEN \E status \in {400, 413} : Throw(HttpException(status, Text))
       ELSE phase' = "pipes" /\ UNCHANGED error
    /\ UNCHANGED <<request, entered, affected, applied, faulty, answer>>

\* Variant: the controller method is called before the pipes have decided.
PipesAfterCall ==
    /\ phase = "pipes"
    /\ entered' = TRUE
    /\ IF request.input = "invalid" \/ request.file = "refused"
       THEN Throw(HttpException(400, Text))
       ELSE phase' = "method" /\ UNCHANGED error
    /\ UNCHANGED <<request, affected, applied, faulty, answer>>

\* ValidationPipe and ParseFilePipe; a missing file is not validated.  Their
\* messages are no system codes.
Pipes ==
    /\ phase = "pipes"
    /\ IF request.input = "invalid" \/ request.file = "refused"
       THEN Throw(HttpException(400, Text)) /\ UNCHANGED entered
       ELSE phase' = "method" /\ entered' = TRUE /\ UNCHANGED error
    /\ UNCHANGED <<request, affected, applied, faulty, answer>>

(***************************************************************************)
(* The controller method and its service call.                             *)
(***************************************************************************)

Hello ==
    /\ phase = "method"
    /\ request.route = "hello"
    /\ phase' = "returned"
    /\ UNCHANGED <<request, entered, affected, applied, error, faulty, answer>>

\* getUserList and getProfile; orderBy may name no column, :id may be no uuid.
Read ==
    /\ phase = "method"
    /\ request.route \in {"users", "profile"}
    /\ \/ phase' = "returned" /\ UNCHANGED <<error, faulty>>
       \/ Throw(OtherError) /\ UNCHANGED faulty
       \/ Throw(OtherError) /\ faulty' = TRUE
    /\ UNCHANGED <<request, entered, affected, applied, answer>>

\* updateProfile reads file.originalname first: a TypeError without a file.
BeginWrite ==
    /\ phase = "method"
    /\ request.route \in Writes
    /\ IF request.route = "updateProfile" /\ request.file = "none"
       THEN Throw(OtherError)
       ELSE phase' = "statement" /\ UNCHANGED error
    /\ UNCHANGED <<request, entered, affected, applied, faulty, answer>>

\* The statement matches one row or none, or fails (:id may be no uuid).
Statement ==
    /\ phase = "statement"
    /\ \/ phase' = "commit" /\ affected' \in {0, 1} /\ UNCHANGED <<error, faulty>>
       \/ Throw(OtherError) /\ faulty' = TRUE /\ UNCHANGED affected
       \/ Throw(OtherError) /\ UNCHANGED <<affected, faulty>>
    /\ UNCHANGED <<request, entered, applied, answer>>

\* Variant: the error of a failed transaction is swallowed.
CommitSwallowingError ==
    /\ phase = "commit"
    /\ phase' = "reply"
    /\ applied' \in {0, affected}
    /\ UNCHANGED <<request, entered, affected, error, faulty, answer>>

\* The transaction commits, or fails as a whole.
Commit ==
    /\ phase = "commit"
    /\ \/ phase' = "reply" /\ applied' = affected /\ UNCHANGED <<error, faulty>>
       \/ Throw(OtherError) /\ faulty' = TRUE /\ UNCHANGED applied
    /\ UNCHANGED <<request, entered, affected, answer>>

\* Variant: a write whose reply is lost is tried again.
CommittedRetrying ==
    /\ phase = "reply"
    /\ phase' \in {"returned", "statement"}
    /\ UNCHANGED <<request, entered, affected, applied, error, faulty, answer>>

\* The reply to COMMIT comes back, or the connection breaks first.
Committed ==
    /\ phase = "reply"
    /\ \/ phase' = "returned" /\ UNCHANGED <<error, faulty>>
       \/ Throw(OtherError) /\ faulty' = TRUE
    /\ UNCHANGED <<request, entered, affected, applied, answer>>

(***************************************************************************)
(* On the way out.                                                         *)
(***************************************************************************)

\* The map: the number of affected rows is the data of a write.
Respond ==
    /\ phase = "returned"
    /\ Answered(translateResponse("SUCCESS", 200,
                    IF request.route \in Writes THEN affected ELSE Other))
    /\ UNCHANGED <<request, entered, affected, applied, error, faulty>>

RespondError ==
    /\ phase = "thrown"
    /\ Answered(catchError(error, 200))
    /\ UNCHANGED <<request, entered, affected, applied, error, faulty>>

Serve ==
    \/ Unreadable \/ NotFound \/ Guard \/ ReadBody \/ Pipes
    \/ Hello \/ Read \/ BeginWrite \/ Statement \/ Commit \/ Committed
    \/ Respond \/ RespondError

Next == Serve \/ \E q \in Request : Arrive(q)

Spec == Init /\ [][Next]_vars

(***************************************************************************)
(* Properties.                                                             *)
(***************************************************************************)

Malformed(q) == q.input = "invalid" \/ q.file \in {"refused", "unreadable"}

\* A malformed request is never served, and one answered 4xx has not reached the
\* controller: nothing of it can have been written (main.ts, ValidationPipe; the
\* ParseFilePipe of updateProfile).
RefusedUntouched ==
    phase = "answered" =>
        /\ Malformed(request) => answer.status # 200
        /\ answer.status \in 400..499 => ~entered /\ applied = 0

\* The HTTP status and the systemCode never contradict each other, wherever on the
\* way the request failed: SUCCESS is 200 and nothing else is, and what the
\* interceptor did not wrap was stopped before it.
StatusTellsOutcome ==
    phase = "answered" =>
        /\ answer.status = 200 <=> answer.systemCode = "SUCCESS"
        /\ ~answer.wrapped => ~entered

\* A write answered with SUCCESS is committed, and its data is the number of rows
\* that changed.  (An error leaves open whether it was committed.)
WriteAnswerTrue ==
    phase = "answered" /\ request.route \in Writes /\ answer.systemCode = "SUCCESS"
        => answer.data = applied

\* The exchange as its client could know it, for a row of its own: a method that writes
\* nothing counts as a read, of whichever version.
Stage ==
    IF phase = "idle" THEN "idle"
    ELSE IF phase # "answered" THEN IF applied = 1 THEN "applied" ELSE "pending"
    ELSE IF answer.status = 200 THEN "answered" ELSE "failed"

Contract == INSTANCE UserContract WITH
    Ids <- {"row"}, Requests <- {"call"},
    history <- [row \in {"row"} |->
                   IF applied = 1 THEN Append(<<FALSE>>, request.route = "removeUser")
                   ELSE <<FALSE>>],
    op <- [call \in {"call"} |->
                   IF request.route \in Writes THEN request.route ELSE "getProfile"],
    target <- [call \in {"call"} |-> "row"],
    stage <- [call \in {"call"} |-> Stage],
    answer <- [call \in {"call"} |->
                   IF Stage = "answered" /\ request.route \in Writes THEN answer.data ELSE 0],
    late <- [row \in {"row"} |-> {}]

\* What router, guard, pipes and interceptor add on the way there and back keeps what
\* UserContract promises of a call: a write changes its row once at most and before the
\* answer, a 200 tells whether it did and no other status does, and nothing else
\* changes a row.
KeepsContract ==
    [][[Contract!Next]_(Contract!contractVars) \/ \E q \in Request : Arrive(q)]_vars

\* test/app.e2e-spec.ts:19-22: GET / is answered with the text itself.
HelloAnsweredVerbatim ==
    phase = "answered" /\ request.route = "hello" /\ answer.status = 200
        => ~answer.wrapped

\* user.controller.ts:47, fileIsRequired: false: a valid update without a file,
\* admitted and with every service up, does not fail for want of the file.
FileNotRequired ==
    phase = "answered" /\ entered /\ ~faulty
        /\ request = [route |-> "updateProfile", input |-> "valid", file |-> "none"]
        => answer.status = 200
=============================================================================
