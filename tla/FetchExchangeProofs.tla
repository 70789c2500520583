------------------------- MODULE FetchExchangeProofs -------------------------
(***************************************************************************)
(* Proofs about HttpExchange, whoever asks, and about FetchExchange, for    *)
(* any pages, page sizes and emails callers ask for.                        *)
(***************************************************************************)
EXTENDS FetchExchange, TLAPS

(***************************************************************************)
(* The exchange: its invariant.                                            *)
(***************************************************************************)

\* Nothing has happened before the pipes have let a request through, and an answer
\* is there only at the end.
OnTheWayIn ==
    /\ phase \in {"idle", "routed", "admitted", "pipes"} => ~entered /\ affected = 0 /\ applied = 0
    /\ phase # "answered" => answer = NoAnswer

\* A controller method works on a well-formed request of a known route.
Inside ==
    /\ phase \in {"admitted", "pipes"} => request.route # "unknown"
    /\ phase = "pipes" => request.file # "unreadable"
    /\ phase \in {"method", "statement", "commit", "reply", "returned"} => entered
    /\ entered => ~Malformed(request) /\ request.route # "unknown"

\* What a service call has changed: nothing before its commit, then what it matched;
\* and only one that writes has changed anything.
Changed ==
    /\ phase \in {"method", "statement"} => affected = 0
    /\ phase \in {"method", "statement", "commit"} => applied = 0
    /\ phase \in {"reply", "returned"} => applied = affected
    /\ phase \in {"statement", "commit", "reply"} \/ applied # 0 => request.route \in Writes

\* A client's error is thrown before the controller is called, every other one is a 500.
Thrown ==
    phase = "thrown" =>
        /\ error.http => error.status \in {400, 413} /\ ~entered /\ applied = 0
        /\ ~error.http => error.status = 500 /\ entered

\* The only answers, and what is known of the request each was given to.
FromParser ==
    /\ \/ answer = Answer(400, FALSE, Text, Other)
       \/ answer = Answer(413, FALSE, Text, Other)
       \/ answer = Answer(415, FALSE, Text, Other)
    /\ ~entered /\ applied = 0

FromRouter ==
    answer = Answer(404, FALSE, Text, Other) /\ request.route = "unknown" /\ ~entered /\ applied = 0

FromGuard ==
    /\ \/ answer = Answer(429, FALSE, Text, Other)
       \/ answer = Answer(500, FALSE, Text, Other)
    /\ ~entered /\ applied = 0

FromMethod ==
    /\ answer = Answer(200, TRUE, "SUCCESS", IF request.route \in Writes THEN affected ELSE Other)
    /\ entered /\ applied = affected

FromClientError ==
    /\ \/ answer = Answer(400, TRUE, "PLEASE_THROW_SYSTEM_CODE", Other)
       \/ answer = Answer(413, TRUE, "PLEASE_THROW_SYSTEM_CODE", Other)
    /\ ~entered /\ applied = 0

FromServerError == answer = Answer(500, TRUE, "SORRY_SOMETHING_WENT_WRONG", Other)

AnsweredBy ==
    phase = "answered" =>
        \/ FromParser \/ FromRouter \/ FromGuard
        \/ FromMethod \/ FromClientError \/ FromServerError

IInv == TypeOK /\ OnTheWayIn /\ Inside /\ Changed /\ Thrown /\ AnsweredBy

(***************************************************************************)
(* The exchange: what the interceptor makes of an outcome.                 *)
(***************************************************************************)

LEMMA Succeeded ==
    ASSUME NEW data
    PROVE  translateResponse("SUCCESS", 200, data) = Answer(200, TRUE, "SUCCESS", data)
BY DEF translateResponse, SYSTEM_CODE

LEMMA ClientError ==
    ASSUME NEW e, e.http, e.message = Text
    PROVE  catchError(e, 200) = Answer(e.status, TRUE, "PLEASE_THROW_SYSTEM_CODE", Other)
BY DEF catchError, translateResponse, SYSTEM_CODE, Text

LEMMA ServerError ==
    ASSUME NEW e, ~e.http
    PROVE  catchError(e, 200) = Answer(500, TRUE, "SORRY_SOMETHING_WENT_WRONG", Other)
<1>1. 200 # 400 /\ 200 # 401 /\ 200 # 403 /\ 200 < 300
    OBVIOUS
<1>2. translateResponse("SORRY_SOMETHING_WENT_WRONG", 500, Other)
        = Answer(500, TRUE, "SORRY_SOMETHING_WENT_WRONG", Other)
    BY DEF translateResponse, SYSTEM_CODE
<1>3. \A code : code # 400 /\ code # 401 /\ code # 403 /\ code < 300 =>
          catchError(e, code) = translateResponse("SORRY_SOMETHING_WENT_WRONG", 500, Other)
    BY Zenon DEF catchError
<1>4. catchError(e, 200) = translateResponse("SORRY_SOMETHING_WENT_WRONG", 500, Other)
    BY <1>1, <1>3
<1> QED
    BY <1>2, <1>4

\* Answers and errors have their types.
LEMMA NoAnswerTyped == NoAnswer \in Answers
BY DEF NoAnswer, Answer, Answers, Other, Text, SYSTEM_CODE

LEMMA UnwrappedTyped ==
    /\ Answer(400, FALSE, Text, Other) \in Answers
    /\ Answer(413, FALSE, Text, Other) \in Answers
    /\ Answer(415, FALSE, Text, Other) \in Answers
    /\ Answer(404, FALSE, Text, Other) \in Answers
    /\ Answer(429, FALSE, Text, Other) \in Answers
    /\ Answer(500, FALSE, Text, Other) \in Answers
BY DEF Answer, Answers, Other, Text, SYSTEM_CODE

LEMMA SucceededTyped ==
    ASSUME NEW data \in {Other, 0, 1}
    PROVE  Answer(200, TRUE, "SUCCESS", data) \in Answers
BY DEF Answer, Answers, Other, Text, SYSTEM_CODE

LEMMA WrappedTyped ==
    /\ Answer(400, TRUE, "PLEASE_THROW_SYSTEM_CODE", Other) \in Answers
    /\ Answer(413, TRUE, "PLEASE_THROW_SYSTEM_CODE", Other) \in Answers
    /\ Answer(500, TRUE, "SORRY_SOMETHING_WENT_WRONG", Other) \in Answers
BY DEF Answer, Answers, Other, Text, SYSTEM_CODE

LEMMA ErrorTyped ==
    /\ OtherError \in Errors /\ ~OtherError.http /\ OtherError.status = 500
    /\ \A status \in {400, 413} :
          LET e == HttpException(status, Text)
          IN  e \in Errors /\ e.http /\ e.status = status
BY DEF OtherError, HttpException, Errors, Text

(***************************************************************************)
(* The exchange: its steps.                                                *)
(***************************************************************************)

LEMMA Initially == Init => IInv
<1> SUFFICES ASSUME Init PROVE IInv
    OBVIOUS
<1>1. TypeOK
    BY NoAnswerTyped, ErrorTyped DEF Init, TypeOK
<1> QED
    BY <1>1 DEF Init, IInv, OnTheWayIn, Inside, Changed, Thrown, AnsweredBy

LEMMA ArriveKeeps ==
    ASSUME NEW q \in Request, Arrive(q)
    PROVE  IInv'
<1>1. TypeOK'
    BY NoAnswerTyped, ErrorTyped DEF Arrive, TypeOK
<1> QED
    BY <1>1 DEF Arrive, IInv, OnTheWayIn, Inside, Changed, Thrown, AnsweredBy

LEMMA UnreadableKeeps == IInv /\ Unreadable => IInv'
<1> SUFFICES ASSUME IInv, Unreadable PROVE IInv'
    OBVIOUS
<1>1. ASSUME NEW a, Answered(a),
             \/ a = Answer(400, FALSE, Text, Other) \/ a = Answer(413, FALSE, Text, Other)
             \/ a = Answer(415, FALSE, Text, Other)
      PROVE  IInv'
    <2>1. a \in Answers
        <3>1. CASE a = Answer(400, FALSE, Text, Other)
            BY <3>1, UnwrappedTyped
        <3>2. CASE a = Answer(413, FALSE, Text, Other)
            BY <3>2, UnwrappedTyped
        <3>3. CASE a = Answer(415, FALSE, Text, Other)
            BY <3>3, UnwrappedTyped
        <3> QED
            BY <1>1, <3>1, <3>2, <3>3
    <2>2. TypeOK'
        BY <1>1, <2>1 DEF IInv, TypeOK, Unreadable, Answered
    <2>3. OnTheWayIn' /\ Inside' /\ Changed' /\ Thrown'
        BY <1>1 DEF IInv, OnTheWayIn, Inside, Changed, Thrown, Unreadable, Answered
    <2>4. ~entered' /\ applied' = 0 /\ answer' = a
        BY <1>1 DEF IInv, OnTheWayIn, Unreadable, Answered
    <2>5. FromParser'
        BY <1>1, <2>4, Zenon DEF FromParser
    <2> QED
        BY <2>2, <2>3, <2>5 DEF IInv, AnsweredBy
<1> QED
    BY <1>1 DEF Unreadable

LEMMA NotFoundKeeps == IInv /\ NotFound => IInv'
<1> SUFFICES ASSUME IInv, NotFound PROVE IInv'
    OBVIOUS
<1>1. TypeOK'
    BY UnwrappedTyped DEF IInv, TypeOK, NotFound, Answered
<1>2. OnTheWayIn' /\ Inside' /\ Changed' /\ Thrown'
    BY DEF IInv, OnTheWayIn, Inside, Changed, Thrown, NotFound, Answered
<1>3. AnsweredBy'
    BY DEF IInv, OnTheWayIn, AnsweredBy, FromRouter, NotFound, Answered
<1> QED
    BY <1>1, <1>2, <1>3 DEF IInv

LEMMA GuardKeeps == IInv /\ Guard => IInv'
<1> SUFFICES ASSUME IInv, Guard PROVE IInv'
    OBVIOUS
<1>1. CASE phase' = "admitted" /\ UNCHANGED <<answer, faulty>>
    BY <1>1 DEF IInv, TypeOK, OnTheWayIn, Inside, Changed, Thrown, AnsweredBy, Guard
<1>2. ASSUME NEW a, a = Answer(429, FALSE, Text, Other) \/ a = Answer(500, FALSE, Text, Other),
             Answered(a), faulty' \in BOOLEAN
      PROVE  IInv'
    <2>1. a \in Answers
        <3>1. CASE a = Answer(429, FALSE, Text, Other)
            BY <3>1, UnwrappedTyped
        <3>2. CASE a = Answer(500, FALSE, Text, Other)
            BY <3>2, UnwrappedTyped
        <3> QED
            BY <1>2, <3>1, <3>2
    <2>2. TypeOK'
        BY <1>2, <2>1 DEF IInv, TypeOK, Guard, Answered
    <2>3. OnTheWayIn' /\ Inside' /\ Changed' /\ Thrown'
        BY <1>2 DEF IInv, OnTheWayIn, Inside, Changed, Thrown, Guard, Answered
    <2>4. AnsweredBy'
        BY <1>2 DEF IInv, OnTheWayIn, AnsweredBy, FromGuard, Guard, Answered
    <2> QED
        BY <2>2, <2>3, <2>4 DEF IInv
<1>3. faulty \in BOOLEAN
    BY DEF IInv, TypeOK
<1> QED
    BY <1>1, <1>2, <1>3 DEF Guard

LEMMA ReadBodyKeeps == IInv /\ ReadBody => IInv'
<1> SUFFICES ASSUME IInv, ReadBody PROVE IInv'
    OBVIOUS
<1>1. CASE request.file = "unreadable"
    <2>1. PICK status \in {400, 413} : Throw(HttpException(status, Text))
        BY <1>1 DEF ReadBody
    <2>2. TypeOK'
        BY <2>1, ErrorTyped DEF IInv, TypeOK, ReadBody, Throw
    <2>3. OnTheWayIn' /\ Inside' /\ Changed' /\ AnsweredBy'
        BY <2>1 DEF IInv, OnTheWayIn, Inside, Changed, AnsweredBy, ReadBody, Throw
    <2>4. Thrown'
        BY <2>1, ErrorTyped DEF IInv, OnTheWayIn, Thrown, ReadBody, Throw
    <2> QED
        BY <2>2, <2>3, <2>4 DEF IInv
<1>2. CASE request.file # "unreadable"
    BY <1>2 DEF IInv, TypeOK, OnTheWayIn, Inside, Changed, Thrown, AnsweredBy, ReadBody
<1> QED
    BY <1>1, <1>2

\* An error that is not the client's, wherever the controller is.
LEMMA FailureKeeps ==
    ASSUME IInv, phase \in {"method", "statement", "commit", "reply"}, Throw(OtherError),
           UNCHANGED <<request, entered, affected, applied, answer>>, faulty' \in BOOLEAN
    PROVE  IInv'
<1>1. TypeOK'
    BY ErrorTyped DEF IInv, TypeOK, Throw
<1>2. OnTheWayIn' /\ Inside' /\ Changed' /\ AnsweredBy'
    BY DEF IInv, OnTheWayIn, Inside, Changed, AnsweredBy, Throw
<1>3. Thrown'
    BY ErrorTyped DEF IInv, Inside, Thrown, Throw
<1> QED
    BY <1>1, <1>2, <1>3 DEF IInv

LEMMA PipesKeeps == IInv /\ Pipes => IInv'
<1> SUFFICES ASSUME IInv, Pipes PROVE IInv'
    OBVIOUS
<1>1. CASE request.input = "invalid" \/ request.file = "refused"
    <2>1. Throw(HttpException(400, Text)) /\ UNCHANGED entered
        BY <1>1 DEF Pipes
    <2>2. TypeOK'
        BY <2>1, ErrorTyped DEF IInv, TypeOK, Pipes, Throw
    <2>3. OnTheWayIn' /\ Inside' /\ Changed' /\ AnsweredBy'
        BY <2>1 DEF IInv, OnTheWayIn, Inside, Changed, AnsweredBy, Pipes, Throw
    <2>4. Thrown'
        BY <2>1, ErrorTyped DEF IInv, OnTheWayIn, Thrown, Pipes, Throw
    <2> QED
        BY <2>2, <2>3, <2>4 DEF IInv
<1>2. CASE ~(request.input = "invalid" \/ request.file = "refused")
    <2>1. ~Malformed(request)
        BY <1>2 DEF IInv, Inside, Pipes, Malformed
    <2>2. request.route # "unknown"
        BY DEF IInv, Inside, Pipes
    <2>3. TypeOK'
        BY <1>2 DEF IInv, TypeOK, Pipes
    <2>4. Inside'
        BY <1>2, <2>1, <2>2 DEF IInv, Inside, Pipes
    <2>5. OnTheWayIn' /\ Changed' /\ Thrown' /\ AnsweredBy'
        BY <1>2 DEF IInv, OnTheWayIn, Changed, Thrown, AnsweredBy, Pipes
    <2> QED
        BY <2>3, <2>4, <2>5 DEF IInv
<1> QED
    BY <1>1, <1>2

\* The controller goes on without an error.
LEMMA GoesOn ==
    ASSUME IInv, phase \in {"method", "statement", "commit", "reply"},
           phase' \in {"statement", "commit", "reply", "returned"},
           UNCHANGED <<request, entered, error, faulty, answer>>,
           affected' \in {0, 1}, applied' \in {0, 1},
           phase' \in {"statement", "commit"} => applied' = 0,
           phase' = "statement" => affected' = 0,
           phase' \in {"reply", "returned"} => applied' = affected',
           phase' \in {"statement", "commit", "reply"} \/ applied' # 0 => request.route \in Writes
    PROVE  IInv'
<1>1. TypeOK'
    BY DEF IInv, TypeOK
<1>2. OnTheWayIn' /\ Inside' /\ Changed' /\ Thrown' /\ AnsweredBy'
    BY DEF IInv, OnTheWayIn, Inside, Changed, Thrown, AnsweredBy
<1> QED
    BY <1>1, <1>2 DEF IInv

LEMMA MethodKeeps == IInv /\ (Hello \/ Read \/ BeginWrite) => IInv'
<1> SUFFICES ASSUME IInv, Hello \/ Read \/ BeginWrite PROVE IInv'
    OBVIOUS
<1>1. /\ phase = "method" /\ affected = 0 /\ applied = 0
      /\ UNCHANGED <<request, entered, affected, applied, answer>>
    BY DEF IInv, Changed, Hello, Read, BeginWrite
<1>2. faulty' \in BOOLEAN
    BY DEF IInv, TypeOK, Hello, Read, BeginWrite
<1>3. CASE Throw(OtherError)
    BY <1>1, <1>2, <1>3, FailureKeeps
<1>4. CASE /\ phase' \in {"statement", "returned"} /\ UNCHANGED <<error, faulty>>
           /\ phase' = "statement" => request.route \in Writes
    BY <1>1, <1>4, GoesOn
<1> QED
    BY <1>3, <1>4 DEF Hello, Read, BeginWrite

LEMMA WriteKeeps == IInv /\ (Statement \/ Commit \/ Committed) => IInv'
<1> SUFFICES ASSUME IInv, Statement \/ Commit \/ Committed PROVE IInv'
    OBVIOUS
<1>1. affected \in {0, 1} /\ applied \in {0, 1} /\ faulty \in BOOLEAN
    BY DEF IInv, TypeOK
<1>0. phase \in {"statement", "commit", "reply"} => request.route \in Writes
    BY DEF IInv, Changed
<1>2. CASE Statement /\ phase' = "commit" /\ affected' \in {0, 1} /\ UNCHANGED <<error, faulty>>
    BY <1>0, <1>1, <1>2, GoesOn DEF Statement, IInv, Changed
<1>3. CASE Statement /\ Throw(OtherError) /\ faulty' \in BOOLEAN /\ UNCHANGED affected
    BY <1>3, FailureKeeps DEF Statement
<1>4. CASE Commit /\ phase' = "reply" /\ applied' = affected /\ UNCHANGED <<error, faulty>>
    BY <1>0, <1>1, <1>4, GoesOn DEF Commit
<1>5. CASE Commit /\ Throw(OtherError) /\ faulty' \in BOOLEAN /\ UNCHANGED applied
    BY <1>5, FailureKeeps DEF Commit
<1>6. CASE Committed /\ phase' = "returned" /\ UNCHANGED <<error, faulty>>
    BY <1>0, <1>1, <1>6, GoesOn DEF Committed, IInv, Changed
<1>7. CASE Committed /\ Throw(OtherError) /\ faulty' \in BOOLEAN
    BY <1>7, FailureKeeps DEF Committed
<1> QED
    BY <1>1, <1>2, <1>3, <1>4, <1>5, <1>6, <1>7 DEF Statement, Commit, Committed

\* What map and catchError answer.
LEMMA Responded ==
    ASSUME Respond
    PROVE  answer' = Answer(200, TRUE, "SUCCESS",
                            IF request.route \in Writes THEN affected ELSE Other)
<1> DEFINE data == IF request.route \in Writes THEN affected ELSE Other
<1>1. answer' = translateResponse("SUCCESS", 200, data)
    BY DEF Respond, Answered
<1> HIDE DEF data
<1>2. answer' = Answer(200, TRUE, "SUCCESS", data)
    BY <1>1, Succeeded, Zenon
<1> QED
    BY <1>2 DEF data

LEMMA ErrorResponded ==
    ASSUME IInv, RespondError
    PROVE  FromClientError' \/ FromServerError'
<1>1. /\ error \in Errors /\ answer' = catchError(error, 200) /\ phase = "thrown"
      /\ UNCHANGED <<entered, applied>>
    BY DEF IInv, TypeOK, RespondError, Answered
<1>2. error.http \in BOOLEAN /\ error.message = Text
    BY <1>1 DEF Errors
<1>3. CASE error.http
    <2>1. (error.status = 400 \/ error.status = 413) /\ ~entered /\ applied = 0
        BY <1>1, <1>3 DEF IInv, Thrown
    <2>2. answer' = Answer(error.status, TRUE, "PLEASE_THROW_SYSTEM_CODE", Other)
        BY <1>1, <1>2, <1>3, ClientError, Zenon
    <2> QED
        BY <1>1, <2>1, <2>2, Zenon DEF FromClientError
<1>4. CASE ~error.http
    BY <1>1, <1>4, ServerError DEF FromServerError
<1> QED
    BY <1>2, <1>3, <1>4

LEMMA RespondKeeps == IInv /\ (Respond \/ RespondError) => IInv'
<1> SUFFICES ASSUME IInv, Respond \/ RespondError PROVE IInv'
    OBVIOUS
<1>1. CASE Respond
    <2> DEFINE data == IF request.route \in Writes THEN affected ELSE Other
    <2>1. data \in {Other, 0, 1}
        BY DEF IInv, TypeOK
    <2>2. answer' = Answer(200, TRUE, "SUCCESS", data)
        BY <1>1, Responded
    <2>3. answer' \in Answers
        <3> HIDE DEF data
        <3> QED
            BY <2>1, <2>2, SucceededTyped, Zenon
    <2>4. TypeOK'
        BY <1>1, <2>3 DEF IInv, TypeOK, Respond, Answered
    <2>5. OnTheWayIn' /\ Inside' /\ Changed' /\ Thrown'
        BY <1>1 DEF IInv, OnTheWayIn, Inside, Changed, Thrown, Respond, Answered
    <2>6. entered /\ applied = affected /\ UNCHANGED <<request, entered, affected, applied>>
        BY <1>1 DEF IInv, Inside, Changed, Respond
    <2>7. AnsweredBy'
        BY <2>2, <2>6 DEF AnsweredBy, FromMethod
    <2> QED
        BY <2>4, <2>5, <2>7 DEF IInv
<1>2. CASE RespondError
    <2>1. /\ phase = "thrown" /\ phase' = "answered"
          /\ UNCHANGED <<request, entered, affected, applied, error, faulty>>
        BY <1>2 DEF RespondError, Answered
    <2>2. answer' \in Answers
        <3>1. CASE answer' = Answer(400, TRUE, "PLEASE_THROW_SYSTEM_CODE", Other)
            BY <3>1, WrappedTyped
        <3>2. CASE answer' = Answer(413, TRUE, "PLEASE_THROW_SYSTEM_CODE", Other)
            BY <3>2, WrappedTyped
        <3>3. CASE answer' = Answer(500, TRUE, "SORRY_SOMETHING_WENT_WRONG", Other)
            BY <3>3, WrappedTyped
        <3> QED
            BY <1>2, <3>1, <3>2, <3>3, ErrorResponded DEF FromClientError, FromServerError
    <2>3. TypeOK'
        BY <2>1, <2>2 DEF IInv, TypeOK
    <2>4. OnTheWayIn' /\ Inside' /\ Changed' /\ Thrown'
        BY <2>1 DEF IInv, OnTheWayIn, Inside, Changed, Thrown
    <2>5. AnsweredBy'
        BY <1>2, <2>1, ErrorResponded DEF AnsweredBy
    <2> QED
        BY <2>3, <2>4, <2>5 DEF IInv
<1> QED
    BY <1>1, <1>2

\* The exchange is served only until it is answered.
LEMMA ServeOpen == Serve => phase # "answered" /\ UNCHANGED request
BY DEF Serve, Unreadable, NotFound, Guard, ReadBody, Pipes, Hello, Read, BeginWrite, Statement, Commit,
       Committed, Respond, RespondError

LEMMA ServeKeeps == IInv /\ Serve => IInv'
BY UnreadableKeeps, NotFoundKeeps, GuardKeeps, ReadBodyKeeps, PipesKeeps, MethodKeeps,
   WriteKeeps, RespondKeeps
   DEF Serve

LEMMA StepKeeps == IInv /\ [Next]_vars => IInv'
<1> SUFFICES ASSUME IInv, [Next]_vars PROVE IInv'
    OBVIOUS
<1>1. CASE UNCHANGED vars
    <2>1. TypeOK' /\ OnTheWayIn' /\ Inside'
        BY <1>1 DEF vars, IInv, TypeOK, OnTheWayIn, Inside
    <2>2. Changed' /\ Thrown'
        BY <1>1 DEF vars, IInv, Changed, Thrown
    <2>3. AnsweredBy'
        <3>1. UNCHANGED <<request, phase, entered, affected, applied, answer>> /\ AnsweredBy
            BY <1>1 DEF vars, IInv
        <3> QED
            BY <3>1 DEF AnsweredBy, FromParser, FromRouter, FromGuard, FromMethod, FromClientError,
                        FromServerError, Answer, Text
    <2> QED
        BY <2>1, <2>2, <2>3 DEF IInv
<1>2. CASE Serve
    BY <1>2, ServeKeeps
<1>3. CASE \E q \in Request : Arrive(q)
    BY <1>3, ArriveKeeps
<1> QED
    BY <1>1, <1>2, <1>3 DEF Next

LEMMA Invariance == Spec => []IInv
BY Initially, StepKeeps, PTL DEF Spec

\* The status of each kind of answer.
LEMMA Statuses ==
    /\ FromParser => answer.status = 400 \/ answer.status = 413 \/ answer.status = 415
    /\ FromRouter => answer.status = 404
    /\ FromGuard => answer.status = 429 \/ answer.status = 500
    /\ FromMethod => answer.status = 200
    /\ FromClientError => answer.status = 400 \/ answer.status = 413
    /\ FromServerError => answer.status = 500
<1>1. ASSUME FromParser PROVE answer.status = 400 \/ answer.status = 413 \/ answer.status = 415
    <2>1. CASE answer = Answer(400, FALSE, Text, Other)
        BY <2>1 DEF Answer
    <2>2. CASE answer = Answer(413, FALSE, Text, Other)
        BY <2>2 DEF Answer
    <2>3. CASE answer = Answer(415, FALSE, Text, Other)
        BY <2>3 DEF Answer
    <2> QED
        BY <1>1, <2>1, <2>2, <2>3 DEF FromParser
<1>2. FromRouter => answer.status = 404
    BY DEF FromRouter, Answer
<1>3. ASSUME FromGuard PROVE answer.status = 429 \/ answer.status = 500
    <2>1. CASE answer = Answer(429, FALSE, Text, Other)
        BY <2>1 DEF Answer
    <2>2. CASE answer = Answer(500, FALSE, Text, Other)
        BY <2>2 DEF Answer
    <2> QED
        BY <1>3, <2>1, <2>2 DEF FromGuard
<1>4. FromMethod => answer.status = 200
    BY DEF FromMethod, Answer
<1>5. ASSUME FromClientError PROVE answer.status = 400 \/ answer.status = 413
    <2>1. CASE answer = Answer(400, TRUE, "PLEASE_THROW_SYSTEM_CODE", Other)
        BY <2>1 DEF Answer
    <2>2. CASE answer = Answer(413, TRUE, "PLEASE_THROW_SYSTEM_CODE", Other)
        BY <2>2 DEF Answer
    <2> QED
        BY <1>5, <2>1, <2>2 DEF FromClientError
<1>6. FromServerError => answer.status = 500
    BY DEF FromServerError, Answer
<1> QED
    BY <1>1, <1>2, <1>3, <1>4, <1>5, <1>6

\* Only a request of an unknown route is answered 404.
LEMMA NotFoundOnly == IInv /\ answer.status = 404 => request.route = "unknown"
<1> SUFFICES ASSUME IInv, answer.status = 404 PROVE request.route = "unknown"
    OBVIOUS
<1>1. phase = "answered"
    <2>1. answer # NoAnswer
        BY DEF NoAnswer, Answer
    <2> QED
        BY <2>1 DEF IInv, OnTheWayIn
<1>2. FromRouter
    BY <1>1, Statuses DEF IInv, AnsweredBy
<1> QED
    BY <1>2 DEF FromRouter

LEMMA AnsweredSafely == IInv => RefusedUntouched /\ StatusTellsOutcome /\ WriteAnswerTrue
<1> SUFFICES ASSUME IInv, phase = "answered"
             PROVE  /\ Malformed(request) => answer.status # 200
                    /\ answer.status \in 400..499 => ~entered /\ applied = 0
                    /\ answer.status = 200 <=> answer.systemCode = "SUCCESS"
                    /\ ~answer.wrapped => ~entered
                    /\ request.route \in Writes /\ answer.systemCode = "SUCCESS"
                          => answer.data = applied
    BY DEF RefusedUntouched, StatusTellsOutcome, WriteAnswerTrue
<1>1. CASE FromRouter
    BY <1>1 DEF FromRouter, Answer, Text
<1>2. CASE FromGuard
    <2>1. CASE answer = Answer(429, FALSE, Text, Other)
        BY <1>2, <2>1 DEF FromGuard, Answer, Text
    <2>2. CASE answer = Answer(500, FALSE, Text, Other)
        BY <1>2, <2>2 DEF FromGuard, Answer, Text
    <2> QED
        BY <1>2, <2>1, <2>2 DEF FromGuard
<1>3. CASE FromMethod
    <2>1. ~Malformed(request)
        BY <1>3 DEF IInv, Inside, FromMethod
    <2> QED
        BY <1>3, <2>1 DEF FromMethod, Answer
<1>4. CASE FromClientError
    <2>1. CASE answer = Answer(400, TRUE, "PLEASE_THROW_SYSTEM_CODE", Other)
        BY <1>4, <2>1 DEF FromClientError, Answer
    <2>2. CASE answer = Answer(413, TRUE, "PLEASE_THROW_SYSTEM_CODE", Other)
        BY <1>4, <2>2 DEF FromClientError, Answer
    <2> QED
        BY <1>4, <2>1, <2>2 DEF FromClientError
<1>5. CASE FromServerError
    BY <1>5 DEF FromServerError, Answer
<1>6. CASE FromParser
    <2>1. CASE answer = Answer(400, FALSE, Text, Other)
        BY <1>6, <2>1 DEF FromParser, Answer, Text
    <2>2. CASE answer = Answer(413, FALSE, Text, Other)
        BY <1>6, <2>2 DEF FromParser, Answer, Text
    <2>3. CASE answer = Answer(415, FALSE, Text, Other)
        BY <1>6, <2>3 DEF FromParser, Answer, Text
    <2> QED
        BY <1>6, <2>1, <2>2, <2>3 DEF FromParser
<1>7. AnsweredBy
    BY DEF IInv
<1> QED
    BY <1>1, <1>2, <1>3, <1>4, <1>5, <1>6, <1>7 DEF AnsweredBy

(***************************************************************************)
(* The exchange: a call of the contract.                                   *)
(***************************************************************************)

\* The variables of the contract, under names of their own.
Row(a, old, new) == [row \in {"row"} |-> IF a = 1 THEN Append(old, new) ELSE old]
Of(value)        == [call \in {"call"} |-> value]
Method           == IF request.route \in Writes THEN request.route ELSE "getProfile"
Told             == IF Stage = "answered" /\ request.route \in Writes THEN answer.data ELSE 0

LEMMA OfOne ==
    ASSUME NEW x, NEW y
    PROVE  Of(x)["call"] = x /\ [Of(x) EXCEPT !["call"] = y] = Of(y)
BY DEF Of

\* Between its arrival and its answer an exchange shows what it has changed, no more.
LEMMA Hidden ==
    ASSUME UNCHANGED <<request, applied>>,
           phase \notin {"idle", "answered"}, phase' \notin {"idle", "answered"}
    PROVE  UNCHANGED Contract!contractVars
<1>1. /\ Stage' = Stage /\ Told' = Told /\ Method' = Method
      /\ request' = request /\ applied' = applied
    BY DEF Stage, Told, Method
<1>2. Of(Stage)' = Of(Stage) /\ Of(Told)' = Of(Told) /\ Of(Method)' = Of(Method)
    BY <1>1, Zenon DEF Of
<1> DEFINE row == Row(applied, <<FALSE>>, request.route = "removeUser")
<1>3. row' = row
    BY <1>1, Zenon DEF Row
<1> QED
    BY <1>1, <1>2, <1>3, Zenon DEF Contract!contractVars, Row, Of, Method, Told

LEMMA FailureShown ==
    ASSUME UNCHANGED <<request, applied>>,
           phase \notin {"idle", "answered"}, phase' = "answered", answer'.status # 200
    PROVE  Contract!AnswerError("call")
<1>1. Stage \in {"pending", "applied"} /\ Stage' = "failed"
    BY DEF Stage
<1>2. Contract!Leaves({"call"})
    BY DEF Contract!Leaves
<1> QED
    BY <1>1, <1>2 DEF Contract!AnswerError

LEMMA RowGrows ==
    ASSUME NEW old, NEW new
    PROVE  /\ Row(0, old, new)["row"] = old
           /\ Row(1, old, new) = [Row(0, old, new) EXCEPT !["row"] = Append(old, new)]
BY DEF Row

LEMMA EffectShown ==
    ASSUME UNCHANGED request, phase \notin {"idle", "answered"}, phase' \notin {"idle", "answered"},
           applied = 0, applied' = 1, request.route \in Writes
    PROVE  Contract!Apply("call")
<1>1. /\ Stage = "pending" /\ Stage' = "applied" /\ Told = 0 /\ Told' = 0
      /\ Method = request.route /\ Method' = Method
    BY DEF Stage, Told, Method
<1> DEFINE new == request.route = "removeUser"
<1>2. Contract!Exists("row") /\ Contract!Removed("row") = FALSE
    BY DEF Contract!Exists, Contract!Removed
<1>3. Row(1, <<FALSE>>, new) = [Row(0, <<FALSE>>, new) EXCEPT !["row"] = Append(<<FALSE>>, new)]
    BY RowGrows, Zenon
<1>4. (FALSE \/ Method = "removeUser") = new
    BY <1>1
<1>5. Method \in Contract!Writes
    BY <1>1 DEF Contract!Writes, Writes
<1> QED
    BY <1>1, <1>2, <1>3, <1>4, <1>5, OfOne DEF Contract!Apply, Contract!Written

LEMMA SuccessShown ==
    ASSUME UNCHANGED <<request, applied>>, applied \in {0, 1},
           phase \notin {"idle", "answered"}, phase' = "answered", answer'.status = 200,
           IF request.route \in Writes THEN answer'.data = applied ELSE applied = 0
    PROVE  Contract!Next
<1>1. /\ Stage = IF applied = 1 THEN "applied" ELSE "pending"
      /\ Stage' = "answered" /\ Told = 0
    BY DEF Stage, Told
<1>2. CASE request.route \in Writes
    <2>1. Method \in Contract!Writes /\ Told' = IF Stage = "applied" THEN 1 ELSE 0
        BY <1>1, <1>2 DEF Method, Told, Contract!Writes, Writes
    <2>2. Contract!AnswerWrite("call")
        BY <1>1, <2>1, OfOne DEF Contract!AnswerWrite, Of, Told, Method
    <2> QED
        BY <2>2 DEF Contract!Next
<1>3. CASE request.route \notin Writes
    <2>1. Method \in Contract!Reads /\ Told' = 0 /\ Stage = "pending"
        BY <1>1, <1>3 DEF Method, Told, Contract!Reads
    <2>2. Contract!AnswerRead("call", 0)
        BY <1>1, <2>1, OfOne DEF Contract!AnswerRead, Of, Told, Method
    <2> QED
        BY <2>2 DEF Contract!Next
<1> QED
    BY <1>2, <1>3

\* The steps of Serve as the client sees them.
LEMMA ServeShows ==
    ASSUME IInv, Serve
    PROVE  [Contract!Next]_(Contract!contractVars)
<1>1. UNCHANGED request /\ applied \in {0, 1}
    BY ServeOpen DEF IInv, TypeOK
<1>2. CASE Unreadable \/ NotFound \/ (Guard /\ phase' = "answered")
    <2>1. /\ phase = "routed" /\ phase' = "answered" /\ UNCHANGED applied
          /\ \/ answer' = Answer(400, FALSE, Text, Other)
             \/ answer' = Answer(413, FALSE, Text, Other)
             \/ answer' = Answer(415, FALSE, Text, Other)
             \/ answer' = Answer(404, FALSE, Text, Other)
             \/ answer' = Answer(429, FALSE, Text, Other)
             \/ answer' = Answer(500, FALSE, Text, Other)
        <3>1. CASE Unreadable
            BY <3>1 DEF Unreadable, Answered
        <3>2. CASE NotFound
            BY <3>2 DEF NotFound, Answered
        <3>3. CASE Guard /\ phase' = "answered"
            BY <3>3 DEF Guard, Answered
        <3> QED
            BY <1>2, <3>1, <3>2, <3>3
    <2>2. answer'.status # 200
        <3>1. CASE answer' = Answer(404, FALSE, Text, Other)
            BY <3>1 DEF Answer
        <3>2. CASE answer' = Answer(429, FALSE, Text, Other)
            BY <3>2 DEF Answer
        <3>3. CASE answer' = Answer(500, FALSE, Text, Other)
            BY <3>3 DEF Answer
        <3>4. CASE answer' = Answer(400, FALSE, Text, Other)
            BY <3>4 DEF Answer
        <3>5. CASE answer' = Answer(413, FALSE, Text, Other)
            BY <3>5 DEF Answer
        <3>6. CASE answer' = Answer(415, FALSE, Text, Other)
            BY <3>6 DEF Answer
        <3> QED
            BY <2>1, <3>1, <3>2, <3>3, <3>4, <3>5, <3>6
    <2>3. Contract!AnswerError("call")
        BY <1>1, <2>1, <2>2, FailureShown
    <2> QED
        BY <2>3 DEF Contract!Next
<1>3. CASE \/ Guard /\ phase' # "answered"
           \/ ReadBody \/ Pipes \/ Hello \/ Read \/ BeginWrite \/ Statement \/ Committed
           \/ Commit /\ applied' = applied
    <2>1. UNCHANGED applied /\ phase \notin {"idle", "answered"}
        BY <1>3 DEF Guard, ReadBody, Pipes, Hello, Read, BeginWrite, Statement, Committed, Commit
    <2>2. phase' \notin {"idle", "answered"}
        BY <1>3 DEF Guard, ReadBody, Pipes, Hello, Read, BeginWrite, Statement, Committed, Commit,
                    Throw, Answered
    <2> QED
        BY <1>1, <2>1, <2>2, Hidden
<1>4. CASE Commit /\ applied' # applied
    <2>1. /\ phase = "commit" /\ phase' = "reply" /\ applied' = affected
          /\ applied = 0 /\ affected \in {0, 1} /\ request.route \in Writes
        BY <1>4 DEF IInv, TypeOK, Changed, Commit
    <2>2. Contract!Apply("call")
        BY <1>1, <1>4, <2>1, EffectShown
    <2> QED
        BY <2>2 DEF Contract!Next
<1>5. CASE Respond
    <2>1. /\ phase = "returned" /\ phase' = "answered" /\ UNCHANGED applied
          /\ applied = affected /\ (applied # 0 => request.route \in Writes)
        BY <1>5 DEF IInv, Changed, Respond, Answered
    <2>2. answer' = Answer(200, TRUE, "SUCCESS", IF request.route \in Writes THEN affected ELSE Other)
        BY <1>5, Responded
    <2>3. answer'.status = 200 /\ (request.route \in Writes => answer'.data = applied)
        BY <2>1, <2>2 DEF Answer
    <2> QED
        BY <1>1, <2>1, <2>3, SuccessShown
<1>6. CASE RespondError
    <2>1. phase = "thrown" /\ phase' = "answered" /\ UNCHANGED applied
        BY <1>6 DEF RespondError, Answered
    <2>2. answer'.status # 200
        <3>1. CASE answer' = Answer(400, TRUE, "PLEASE_THROW_SYSTEM_CODE", Other)
            BY <3>1 DEF Answer
        <3>2. CASE answer' = Answer(413, TRUE, "PLEASE_THROW_SYSTEM_CODE", Other)
            BY <3>2 DEF Answer
        <3>3. CASE answer' = Answer(500, TRUE, "SORRY_SOMETHING_WENT_WRONG", Other)
            BY <3>3 DEF Answer
        <3> QED
            BY <1>6, <3>1, <3>2, <3>3, ErrorResponded DEF FromClientError, FromServerError
    <2>3. Contract!AnswerError("call")
        BY <1>1, <2>1, <2>2, FailureShown
    <2> QED
        BY <2>3 DEF Contract!Next
<1> QED
    BY <1>2, <1>3, <1>4, <1>5, <1>6 DEF Serve

(***************************************************************************)
(* The client: its steps are steps of the exchange.                        *)
(***************************************************************************)

LEMMA ClientInit == FetchInit => Init
BY DEF FetchInit

LEMMA ClientStep == [FetchNext]_<<vars, client>> => [Next]_vars
<1> SUFFICES ASSUME [FetchNext]_<<vars, client>> PROVE [Next]_vars
    OBVIOUS
<1>1. CASE UNCHANGED <<vars, client>>
    BY <1>1
<1>2. CASE \E q \in Request : OtherClient(q)
    BY <1>2 DEF OtherClient, Next
<1>3. CASE \E o \in {"call", "callRaw", "upload"}, d \in DTO : Call(o, d)
    BY <1>3 DEF Call, RequestsOf, Next
<1>4. CASE Serve
    BY <1>4 DEF Next
<1>5. CASE Break \/ Return
    BY <1>5 DEF Break, Return
<1> QED
    BY <1>1, <1>2, <1>3, <1>4, <1>5 DEF FetchNext

\* FetchService, its DTOs and the routes together are clients of HttpExchange: they
\* send what it expects, and do nothing to it but send.
THEOREM IsClient == FetchSpec => Spec
BY ClientInit, ClientStep, PTL DEF FetchSpec, Spec

(***************************************************************************)
(* The client: its invariant.                                              *)
(***************************************************************************)

\* The request served is one this call can have sent.
SentBy ==
    /\ op \in {"none", "call", "callRaw", "upload"}
    /\ dto \in DTO
    /\ op = "upload" => dto.route = "updateProfile"
    /\ op # "none" => request \in RequestsOf(op, dto)

\* Only an answer gives a result, and it stays until the next request; call and upload
\* hand it on only if it was ok.
ResultOfAnswer ==
    /\ result \notin {"none", "exception"} => phase = "answered"
    /\ op \in {"call", "upload"} /\ result \in {"empty", "ResponseDTO"} => ok

FInv == IInv /\ SentBy /\ ResultOfAnswer

LEMMA ClientInitially == FetchInit => FInv
<1> SUFFICES ASSUME FetchInit PROVE FInv
    OBVIOUS
<1>1. IInv
    BY ClientInit, Initially
<1>2. dto \in DTO
    BY DEF FetchInit, NoDTO, DTO, Writes, NoQuery, Query
<1> QED
    BY <1>1, <1>2 DEF FetchInit, FInv, SentBy, ResultOfAnswer

LEMMA OtherClientKeeps ==
    ASSUME FInv, NEW q \in Request, OtherClient(q)
    PROVE  FInv'
<1>1. IInv'
    BY ArriveKeeps DEF OtherClient
<1>2. dto' \in DTO
    BY DEF OtherClient, NoDTO, DTO, Writes, NoQuery, Query
<1> QED
    BY <1>1, <1>2 DEF FInv, SentBy, ResultOfAnswer, OtherClient

LEMMA CallKeeps ==
    ASSUME FInv, NEW o \in {"call", "callRaw", "upload"}, NEW d \in DTO, Call(o, d)
    PROVE  FInv'
<1>1. PICK q \in RequestsOf(o, d) : Arrive(q)
    BY DEF Call
<1>2. q \in Request
    BY DEF RequestsOf
<1>3. IInv'
    BY <1>1, <1>2, ArriveKeeps
<1>4. request' \in RequestsOf(op', dto')
    BY <1>1 DEF Arrive, Call
<1>5. SentBy'
    BY <1>4 DEF SentBy, Call
<1> QED
    BY <1>3, <1>5 DEF FInv, ResultOfAnswer, Call

LEMMA ServedKeeps == FInv /\ Serve /\ UNCHANGED client => FInv'
<1> SUFFICES ASSUME FInv, Serve, UNCHANGED client PROVE FInv'
    OBVIOUS
<1>1. IInv'
    BY ServeKeeps DEF FInv
<1>2. UNCHANGED <<op, dto, result, request>> /\ phase # "answered"
    BY ServeOpen DEF client
<1>3. SentBy'
    BY <1>2 DEF FInv, SentBy
<1>4. result \in {"none", "exception"}
    BY <1>2 DEF FInv, ResultOfAnswer
<1> QED
    BY <1>1, <1>2, <1>3, <1>4 DEF FInv, ResultOfAnswer

\* The result of an answer, by the method that was called.
LEMMA Returned ==
    ASSUME Return
    PROVE  /\ op = "call" => result' = Checked("empty")
           /\ op = "upload" => result' = Checked("ResponseDTO")
BY Zenon DEF Return

LEMMA ReturnKeeps == FInv /\ (Break \/ Return) => FInv'
<1> SUFFICES ASSUME FInv, Break \/ Return PROVE FInv'
    OBVIOUS
<1>1. UNCHANGED <<vars, op, dto>>
    BY DEF Break, Return
<1>2. [Next]_vars
    BY <1>1
<1>3. IInv'
    BY <1>2, StepKeeps DEF FInv
<1>4. SentBy'
    BY <1>1 DEF FInv, SentBy, vars
<1>5. CASE Break
    BY <1>3, <1>4, <1>5 DEF FInv, ResultOfAnswer, Break
<1>6. CASE Return
    <2>1. UNCHANGED <<ok, op>> /\ phase' = "answered"
        BY <1>1, <1>6 DEF ok, vars, Return
    <2>2. ResultOfAnswer'
        BY <1>6, <2>1, Returned DEF ResultOfAnswer, Checked
    <2> QED
        BY <1>3, <1>4, <2>2 DEF FInv
<1> QED
    BY <1>5, <1>6

LEMMA ClientKeeps == FInv /\ [FetchNext]_<<vars, client>> => FInv'
<1> SUFFICES ASSUME FInv, [FetchNext]_<<vars, client>> PROVE FInv'
    OBVIOUS
<1>1. CASE UNCHANGED <<vars, client>>
    <2>1. [Next]_vars
        BY <1>1
    <2>2. IInv'
        BY <2>1, StepKeeps DEF FInv
    <2>3. UNCHANGED <<op, dto, result, request, phase, answer>>
        BY <1>1 DEF vars, client
    <2> QED
        BY <2>2, <2>3 DEF FInv, SentBy, ResultOfAnswer, ok
<1>2. CASE \E q \in Request : OtherClient(q)
    BY <1>2, OtherClientKeeps
<1>3. CASE \E o \in {"call", "callRaw", "upload"}, d \in DTO : Call(o, d)
    BY <1>3, CallKeeps
<1>4. CASE Serve /\ UNCHANGED client
    BY <1>4, ServedKeeps
<1>5. CASE Break \/ Return
    BY <1>5, ReturnKeeps
<1> QED
    BY <1>1, <1>2, <1>3, <1>4, <1>5 DEF FetchNext

LEMMA ClientInvariance == FetchSpec => []FInv
BY ClientInitially, ClientKeeps, PTL DEF FetchSpec

(***************************************************************************)
(* The client: what a result says.                                         *)
(***************************************************************************)

\* Only a controller method gives an answer that is ok.
LEMMA OkFromMethod == IInv /\ phase = "answered" /\ ok => FromMethod
<1> SUFFICES ASSUME IInv, phase = "answered", ~FromMethod PROVE ~ok
    OBVIOUS
<1>1. \/ FromParser \/ FromRouter \/ FromGuard \/ FromClientError \/ FromServerError
    BY DEF IInv, AnsweredBy
<1>2. \/ answer.status = 400 \/ answer.status = 404 \/ answer.status = 413
      \/ answer.status = 415 \/ answer.status = 429 \/ answer.status = 500
    BY <1>1, Statuses
<1> QED
    BY <1>2 DEF ok

\* A request for a write is sent to that write, or misses every route that gives one.
LEMMA WriteRequest ==
    ASSUME NEW d \in DTO, d.route \in Writes, NEW o, NEW q \in RequestsOf(o, d)
    PROVE  q.route \in {d.route, "unknown"}
<1> DEFINE u == Sent(o, d)
<1>1. u.id = d.id \/ u.id = ":id"
    BY DEF Sent, interpolatedUrl, URL, Writes
<1>2. d.id \in {"", "uuid"} /\ d.route # "profile"
    BY DEF DTO, Writes
<1>3. q.route = Routed(d.route, u)
    BY DEF RequestsOf
<1> HIDE DEF u
<1> QED
    BY <1>1, <1>2, <1>3, Zenon DEF Routed

LEMMA ResultMeansDoneThen == FInv => ResultMeansDone
<1> SUFFICES ASSUME FInv, op \in {"call", "upload"}, dto.route \in Writes,
                    result \in {"empty", "ResponseDTO"}
             PROVE  request.route = dto.route /\ entered /\ applied = affected
    BY DEF ResultMeansDone
<1>1. phase = "answered" /\ ok
    BY DEF FInv, ResultOfAnswer
<1>2. FromMethod
    BY <1>1, OkFromMethod DEF FInv
<1>3. request.route # "unknown"
    BY <1>2 DEF FInv, IInv, Inside, FromMethod
<1>4. dto \in DTO /\ request \in RequestsOf(op, dto)
    BY DEF FInv, SentBy
<1>5. request.route = dto.route
    BY <1>3, <1>4, WriteRequest
<1> QED
    BY <1>2, <1>5 DEF FromMethod

(***************************************************************************)
(* The client: what a list request carries.                                *)
(***************************************************************************)

\* What comes out of a query that passes the pipe.
LEMMA Kept ==
    ASSUME NEW q \in Query, Valid(q), NEW r, r = WithDefaults(Decoded(q))
    PROVE  /\ \A k \in {"page", "pageSize", "order"} :
                 \/ r[k] = q[k]
                 \/ q[k] = Undefined /\ r[k] \in {Defaults[k], Brought(q)[k]}
           /\ r.email = IF q.email = Undefined THEN Undefined ELSE AsRead[q.email]
           /\ r.page >= 1 /\ r.pageSize \in 1..50 /\ r.order \in {"ASC", "DESC"}
<1> DEFINE d == Decoded(q)
<1>1. DOMAIN q = {"page", "pageSize", "order", "email"}
    BY DEF Query
<1>2. DOMAIN d = {"page", "pageSize", "order", "email"}
    BY <1>1 DEF Decoded
<1>3. \A k \in {"page", "pageSize", "order"} : d[k] = IF q[k] = Undefined THEN Brought(q)[k] ELSE q[k]
    BY <1>1 DEF Decoded
<1>4. d.email = IF q.email = Undefined THEN Undefined ELSE AsRead[q.email]
    BY <1>1 DEF Decoded
<1>5. /\ d.page # Undefined => d.page >= 1
      /\ d.pageSize # Undefined => d.pageSize \in 1..50
      /\ d.order \in {Undefined, "ASC", "DESC"}
    BY DEF Valid
<1> HIDE DEF d
<1>6. r = [k \in DOMAIN d |-> IF d[k] = Undefined THEN Defaults[k] ELSE d[k]]
    BY DEF WithDefaults, d
<1>7. \A k \in {"page", "pageSize", "order", "email"} :
          r[k] = IF d[k] = Undefined THEN Defaults[k] ELSE d[k]
    BY <1>2, <1>6
<1>8. /\ Defaults["page"] = 1 /\ Defaults["pageSize"] = 15 /\ Defaults["order"] = "ASC"
      /\ Defaults["email"] = Undefined
    BY DEF Defaults
<1>9. \A k \in {"page", "pageSize", "order"} :
          \/ r[k] = q[k]
          \/ q[k] = Undefined /\ r[k] \in {Defaults[k], Brought(q)[k]}
    BY <1>3, <1>7
<1>10. r.email = d.email
    BY <1>7, <1>8
<1>11. r.page >= 1 /\ r.pageSize \in 1..50
    BY <1>5, <1>7, <1>8
<1>12. r.order \in {"ASC", "DESC"}
    BY <1>5, <1>7, <1>8
<1> QED
    BY <1>4, <1>9, <1>10, <1>11, <1>12

\* A list request goes to its route unless its URL has no ?, and passes the pipe only
\* if its query does.
LEMMA ListRequest ==
    ASSUME NEW d \in DTO, d.route = "users", NEW o, o # "upload", NEW q \in RequestsOf(o, d)
    PROVE  /\ q.route = IF d.query.page # Undefined \/ d.query = NoQuery THEN "users" ELSE "unknown"
           /\ q.route = "users" /\ q.input = "valid" => Valid(d.query)
<1> DEFINE split == d.query.page # Undefined \/ d.query = NoQuery
           u == Sent(o, d)
<1>1. u.id = "none" /\ u.split = split /\ u.query = d.query
    BY DEF Sent, interpolatedUrl, URL
<1>2. Routed(d.route, u) = IF split THEN "users" ELSE "unknown"
    <2> HIDE DEF split, u
    <2> QED
        BY <1>1, Zenon DEF Routed
<1>3. q.route = Routed(d.route, u)
    BY DEF RequestsOf
<1>4. q.input \in IF Routed(d.route, u) # "users" THEN {"valid", "invalid"}
                  ELSE {IF Valid(u.query) THEN "valid" ELSE "invalid"}
    BY DEF RequestsOf
<1> HIDE DEF u
<1>5. q.route = IF split THEN "users" ELSE "unknown"
    BY <1>2, <1>3
<1>6. q.route = "users" /\ q.input = "valid" => Valid(d.query)
    BY <1>1, <1>3, <1>4
<1> QED
    BY <1>5, <1>6

LEMMA QueryArrivesThen == FInv => QueryArrives
<1> SUFFICES ASSUME FInv, op # "none", dto.route = "users", entered PROVE QueryArrives
    BY DEF QueryArrives
<1>1. /\ dto \in DTO /\ dto.query \in Query /\ op # "upload"
      /\ request \in RequestsOf(op, dto)
    BY DEF FInv, SentBy, DTO
<1>2. request.input = "valid" /\ request.route # "unknown"
    <2>1. request \in Request
        BY <1>1 DEF RequestsOf
    <2> QED
        BY <2>1 DEF FInv, IInv, Inside, Malformed, Request
<1>3. request.route = "users"
    BY <1>1, <1>2, ListRequest
<1>4. Valid(dto.query)
    BY <1>1, <1>2, <1>3, ListRequest
<1>5. Received = WithDefaults(Decoded(dto.query))
    BY <1>1 DEF Received, Sent, interpolatedUrl, URL
<1> HIDE DEF FInv
<1> QED
    BY <1>1, <1>4, <1>5, Kept DEF QueryArrives

LEMMA LostByFirstThen == FInv => LostByFirstOnly
<1> SUFFICES ASSUME FInv, op # "none", dto.route = "users"
             PROVE  LET gap == dto.query.page = Undefined /\ dto.query # NoQuery
                    IN /\ answer.status = 404 => gap
                       /\ entered => ~gap
    BY DEF LostByFirstOnly
<1> DEFINE gap == dto.query.page = Undefined /\ dto.query # NoQuery
<1>1. /\ dto \in DTO /\ op # "upload" /\ request \in RequestsOf(op, dto)
    BY DEF FInv, SentBy
<1>2. request.route = IF gap THEN "unknown" ELSE "users"
    BY <1>1, ListRequest
<1>3. answer.status = 404 => request.route = "unknown"
    BY NotFoundOnly DEF FInv
<1>4. entered => request.route # "unknown"
    BY DEF FInv, IInv, Inside
<1> QED
    BY <1>2, <1>3, <1>4

(***************************************************************************)
(* Results.  Those about Spec hold of FetchSpec too: IsClient.             *)
(***************************************************************************)

\* Every exchange keeps to its types: the only errors that reach the interceptor are
\* those of its table's first and last lines, the only statuses those of Answers.
THEOREM ExchangeTyped == Spec => []TypeOK
BY Invariance, PTL DEF IInv

\* Whatever is sent and whatever fails, a malformed request is never served, and one
\* answered 4xx has not reached the controller (main.ts, ValidationPipe; the
\* ParseFilePipe of updateProfile).
THEOREM RefusedSafely == Spec => []RefusedUntouched
<1>1. IInv => RefusedUntouched
    BY AnsweredSafely
<1> QED
    BY <1>1, Invariance, PTL

\* HTTP status and systemCode never contradict each other (BaseResponseInterceptor).
THEOREM StatusTrue == Spec => []StatusTellsOutcome
<1>1. IInv => StatusTellsOutcome
    BY AnsweredSafely
<1> QED
    BY <1>1, Invariance, PTL

\* A write answered with SUCCESS is committed, and tells how many rows it changed
\* (user.controller.ts, response.interceptor.ts).
THEOREM WritesTold == Spec => []WriteAnswerTrue
<1>1. IInv => WriteAnswerTrue
    BY AnsweredSafely
<1> QED
    BY <1>1, Invariance, PTL

\* An exchange is a call of UserContract: router, guard, pipes and interceptor neither
\* repeat, lose nor misreport what the service has done (KeepsContract).
THEOREM ContractKept == Spec => KeepsContract
<1>1. IInv /\ [Next]_vars =>
          [[Contract!Next]_(Contract!contractVars) \/ \E q \in Request : Arrive(q)]_vars
    BY ServeShows DEF Next
<1> QED
    BY <1>1, Invariance, PTL DEF Spec, KeepsContract

\* For any pages, page sizes and emails, and whatever parameters an email brings,
\* getUserList works with what the caller has defined, and with nothing the DTO does not
\* allow (BaseDTO.interpolatedUrl, PagingRequestDTO).
THEOREM QueryKept == FetchSpec => []QueryArrives
<1>1. FInv => QueryArrives
    BY QueryArrivesThen
<1> QED
    BY <1>1, ClientInvariance, PTL

\* The one way a list request misses its route: its first parameter is the one left
\* undefined (base.dto.ts:27).
THEOREM RouteMissed == FetchSpec => []LostByFirstOnly
<1>1. FInv => LostByFirstOnly
    BY LostByFirstThen
<1> QED
    BY <1>1, ClientInvariance, PTL

\* A result of call or upload for a write means that the write was reached and what it
\* matched is committed, whatever failed on the way (FetchService).
THEOREM DoneIfResult == FetchSpec => []ResultMeansDone
<1>1. FInv => ResultMeansDone
    BY ResultMeansDoneThen
<1> QED
    BY <1>1, ClientInvariance, PTL
=============================================================================
