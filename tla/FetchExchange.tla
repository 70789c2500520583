---------------------------- MODULE FetchExchange ----------------------------
(***************************************************************************)
(* FetchService as a client of this service, among others: a DTO becomes a  *)
(* URL, the routes and DTOs of the controller read it back, HttpExchange    *)
(* serves it, and the answer becomes the caller's result or an exception.   *)
(* The URL is put together without encoding, and what the caller left       *)
(* undefined is left out of it.                                             *)
(***************************************************************************)
EXTENDS HttpExchange

CONSTANTS
    Pages, PageSizes,   \* the whole numbers callers ask for
    Emails,             \* the texts they look for
    AsRead,             \* the email Express reads: a + is a space, and & ends it
    Brings,             \* the parameters it reads after that &
    Undefined           \* no value

ASSUME QueryAssumption ==
    /\ Pages \subseteq Int /\ PageSizes \subseteq Int
    /\ Emails \subseteq STRING
    /\ AsRead \in [Emails -> STRING]
    /\ Undefined \notin Int /\ Undefined \notin STRING
    /\ Brings \in [Emails -> [page : Int \cup {Undefined}, pageSize : Int \cup {Undefined},
                              order : STRING \cup {Undefined}, email : STRING \cup {Undefined}]]

VARIABLES
    op,       \* the method of FetchService that was called, "none" for another client
    dto,      \* what it was called with, NoDTO for another client
    result    \* what the caller gets, "none" until it gets something

client == <<op, dto, result>>

(***************************************************************************)
(* DTOs.                                                                   *)
(***************************************************************************)

\* GetUserListQueryDTO in the order of its properties, page first; orderBy is as
\* order.  A class field that was not set has its default, one that plainToInstance
\* has set to undefined has not.
Query == [page : Pages \cup {Undefined}, pageSize : PageSizes \cup {Undefined},
          order : {"ASC", "DESC", Undefined}, email : Emails \cup {Undefined}]

NoQuery == [page |-> Undefined, pageSize |-> Undefined, order |-> Undefined, email |-> Undefined]

Defaults == [page |-> 1, pageSize |-> 15, order |-> "ASC", email |-> Undefined]

WithDefaults(q) == [k \in DOMAIN q |-> IF q[k] = Undefined THEN Defaults[k] ELSE q[k]]

\* The DTOs of the controller's routes; GetUserListDTO has no :id.
DTO == {d \in [route : {"users", "profile"} \cup Writes, id : {"", "uuid"},
               query : Query] :
            IF d.route = "users" THEN d.id = "" ELSE d.query = NoQuery}

NoDTO == [route |-> "users", id |-> "", query |-> NoQuery]

\* What a URL says: id stands where the path has :id, split tells whether a ?
\* parts the path from the query.
URL(d, split, query) ==
    [id |-> IF d.route = "users" THEN "none" ELSE d.id, split |-> split, query |-> query]

\* Variant: the email is written whether it is defined or not.
interpolatedUrlUnchecked(d) ==
    URL(d, TRUE, [d.query EXCEPT !.email = IF @ = Undefined THEN "undefined" ELSE @])

\* Variant: parameters are counted from one.
interpolatedUrlFromOne(d) ==
    URL(d, d.query.pageSize # Undefined \/ d.query = NoQuery, d.query)

\* Only the parameter of index 0 is written with a ?, and an undefined one is
\* skipped together with its separator.
interpolatedUrl(d) ==
    URL(d, d.query.page # Undefined \/ d.query = NoQuery, d.query)

\* upload sends to the url of the DTO as it stands.
Sent(o, d) ==
    IF o = "upload" THEN URL([d EXCEPT !.id = ":id"], TRUE, NoQuery) ELSE interpolatedUrl(d)

(***************************************************************************)
(* What the service reads.                                                 *)
(***************************************************************************)

\* The parameters that follow a & in the email: nothing encodes it.
Brought(q) == IF q.email = Undefined THEN NoQuery ELSE Brings[q.email]

Decoded(q) ==
    [k \in DOMAIN q |-> IF k = "email" THEN IF q.email = Undefined THEN Undefined ELSE AsRead[q.email]
                       ELSE IF q[k] = Undefined THEN Brought(q)[k] ELSE q[k]]

\* A parameter that comes twice is an array.
Doubled(q) == \E k \in DOMAIN q : q[k] # Undefined /\ Brought(q)[k] # Undefined

\* PagingRequestDTO, which leaves out names it does not expose, and the ValidationPipe,
\* whose decorators refuse an array.
Valid(q) ==
    LET d == Decoded(q)
    IN  /\ ~Doubled(q)
        /\ d.page # Undefined => d.page >= 1
        /\ d.pageSize # Undefined => d.pageSize \in 1..50
        /\ d.order \in {Undefined, "ASC", "DESC"}

\* The route of a URL; without an id it is users/, which Express takes for users.
Routed(route, u) ==
    CASE u.id = "none" -> IF u.split THEN "users" ELSE "unknown"
      [] u.id = "" -> IF route = "profile" THEN "users" ELSE "unknown"
      [] OTHER -> route

\* Only upload sends a file.  The body of updateProfile may be refused: its DTO has
\* the type of a response.
RequestsOf(o, d) ==
    LET u == Sent(o, d)
        route == Routed(d.route, u)
        inputs == IF route # "users" THEN {"valid", "invalid"}
                  ELSE {IF Valid(u.query) THEN "valid" ELSE "invalid"}
        files == IF o = "upload" THEN {"accepted", "refused", "unreadable"} ELSE {"none"}
    IN {[route |-> route, input |-> i, file |-> f] : i \in inputs, f \in files} \cap Request

\* The query getUserList is called with.
Received == WithDefaults(Decoded(Sent(op, dto).query))

(***************************************************************************)
(* The client.                                                             *)
(***************************************************************************)

FetchInit ==
    /\ Init
    /\ op = "none"
    /\ dto = NoDTO
    /\ result = "none"

Settled == op = "none" \/ result # "none"

OtherClient(q) == Settled /\ Arrive(q) /\ op' = "none" /\ dto' = NoDTO /\ result' = "none"

\* upload reads the entries of bodyDTO, which only UpdateProfileDTO has.
Call(o, d) ==
    /\ Settled
    /\ o = "upload" => d.route = "updateProfile"
    /\ \E q \in RequestsOf(o, d) : Arrive(q)
    /\ op' = o
    /\ dto' = d
    /\ result' = "none"

\* fetch rejects, or the answer cannot be read or is no JSON.
Break ==
    /\ ~Settled
    /\ result' = "exception"
    /\ UNCHANGED <<vars, op, dto>>

ok == answer.status \in 200..299

\* Variant: an answer that is not ok is taken like any other.
CheckedNever(body) == body

Checked(body) == IF ok THEN body ELSE "FETCH_REQUEST_FAILED"

\* call gives the ResponseDTO for plain data to a class that exposes none of its
\* fields; upload and callRaw hand it on, callRaw that of an error too.
Return ==
    /\ ~Settled
    /\ phase = "answered"
    /\ result' = CASE op = "call" -> Checked("empty")
                   [] op = "upload" -> Checked("ResponseDTO")
                   [] op = "callRaw" -> IF ok THEN "ResponseDTO" ELSE "error body"
    /\ UNCHANGED <<vars, op, dto>>

FetchNext ==
    \/ \E q \in Request : OtherClient(q)
    \/ \E o \in {"call", "callRaw", "upload"}, d \in DTO : Call(o, d)
    \/ Serve /\ UNCHANGED client
    \/ Break \/ Return

FetchSpec == FetchInit /\ [][FetchNext]_<<vars, client>>

(***************************************************************************)
(* Properties.                                                             *)
(***************************************************************************)

\* What the caller has defined is what getUserList works with, or the request is
\* refused, though nothing is encoded on the way: the email is the text Express makes
\* of it, and parameters it brings can replace a default, within what the DTO allows,
\* and never a value of the caller (interpolatedUrl, PagingRequestDTO).
QueryArrives ==
    op # "none" /\ dto.route = "users" /\ entered =>
        LET asked == dto.query
        IN  /\ \A k \in {"page", "pageSize", "order"} :
                  \/ Received[k] = asked[k]
                  \/ asked[k] = Undefined /\ Received[k] \in {Defaults[k], Brought(asked)[k]}
            /\ Received.email = IF asked.email = Undefined THEN Undefined ELSE AsRead[asked.email]
            /\ Received.page >= 1 /\ Received.pageSize \in 1..50
            /\ Received.order \in {"ASC", "DESC"}

\* A list request misses its route exactly when the first parameter is the one left
\* undefined and another is not: the query has no ? then (base.dto.ts:27).
LostByFirstOnly ==
    op # "none" /\ dto.route = "users" =>
        LET gap == dto.query.page = Undefined /\ dto.query # NoQuery
        IN /\ answer.status = 404 => gap
           /\ entered => ~gap

\* A caller of call or upload that gets a result for a write has had it done: its
\* request has reached the controller method it names, and what the statement matched is
\* committed; a lost reply, a refusal on the way or a URL without an id is an exception
\* (fetch.service.ts, response.ok).  callRaw promises nothing.
ResultMeansDone ==
    op \in {"call", "upload"} /\ dto.route \in Writes
        /\ result \in {"empty", "ResponseDTO"} =>
            request.route = dto.route /\ entered /\ applied = affected
=============================================================================
