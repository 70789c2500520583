----------------------------- MODULE UserListing -----------------------------
(***************************************************************************)
(* UserService.getUserList, called page after page by a client that follows *)
(* totalPages, while users are added, removed and updated.  A call reads    *)
(* the table twice, outside any transaction: the page (SELECT .. LIMIT ..   *)
(* OFFSET) and, unless TypeORM can tell it from the page, the total         *)
(* (SELECT COUNT), so the table may change between the two and between two  *)
(* calls.                                                                   *)
(***************************************************************************)
EXTENDS Integers, Sequences, FiniteSets, SequencesExt, FiniteSetsExt

CONSTANTS
    Users,       \* users that match the email filter at some time
    PageSize,    \* query.pageSize
    MaxChanges   \* bound: changes of the table during one walk

ASSUME PageSizeAssumption == PageSize \in 1..50

VARIABLES
    table,    \* the users not removed, in the order ORDER BY puts them
    phase,    \* what the call waits for
    page,     \* query.page
    list,     \* the page it read
    total,    \* the total it read
    listed,   \* listed[u]: how often u has been on an answered page
    stayed,   \* users in the table since the walk began
    added, removed, moved,  \* changes since the walk began
    sizes     \* sizes the table had from reading the page to counting

answer  == <<list, total>>
walk    == <<listed, stayed>>
changes == <<added, removed, moved>>
vars    == <<table, phase, page, answer, walk, changes, sizes>>

Live == ToSet(table)

(***************************************************************************)
(* Paging arithmetic.                                                      *)
(***************************************************************************)

\* Variant: pages counted from 0.
SkipFromPageZero(p) == p * PageSize

\* Variant: each page begins with the last user of the one before.
SkipOverlapping(p) == (p - 1) * (PageSize - 1)

\* The value of PagingRequestDTO.skip.
Skip(p) == (p - 1) * PageSize

\* The value of Math.ceil(totalItems / pageSize).
TotalPages(n) == (n + PageSize - 1) \div PageSize

\* Variant: one row more than asked for is read.
PageOfOneMore(p) ==
    SubSeq(table, Skip(p) + 1, Min({Skip(p) + PageSize + 1, Len(table)}))

\* The rows SELECT .. ORDER BY .. LIMIT pageSize OFFSET skip returns.
PageOf(p) == SubSeq(table, Skip(p) + 1, Min({Skip(p) + PageSize, Len(table)}))

\* TypeORM does not count when the page itself shows where the table ends.
EndsTable(rows, p) == Len(rows) < PageSize /\ (rows # <<>> \/ Skip(p) = 0)

TypeOK ==
    /\ table \in Seq(Users) /\ IsInjective(table)
    /\ phase \in {"idle", "select", "count", "reply", "failed", "next", "done"}
    /\ page \in Nat \ {0}
    /\ list \in Seq(Users) /\ Len(list) <= PageSize
    /\ total \in Nat
    /\ listed \in [Users -> Nat]
    /\ stayed \subseteq Live
    /\ added \in Nat /\ removed \in Nat /\ moved \in Nat
    /\ sizes \subseteq Nat

Init ==
    /\ table \in {s \in SeqOf(Users, Cardinality(Users)) : IsInjective(s)}
    /\ phase = "idle"
    /\ page = 1
    /\ list = <<>>
    /\ total = 0
    /\ listed = [u \in Users |-> 0]
    /\ stayed = {}
    /\ added = 0 /\ removed = 0 /\ moved = 0
    /\ sizes = {}

(***************************************************************************)
(* The client.                                                             *)
(***************************************************************************)

Begin ==
    /\ phase \in {"idle", "done"}
    /\ phase' = "select"
    /\ page' = 1
    /\ listed' = [u \in Users |-> 0]
    /\ stayed' = Live
    /\ added' = 0 /\ removed' = 0 /\ moved' = 0
    /\ UNCHANGED <<table, answer, sizes>>

NextPage ==
    /\ phase = "next"
    /\ phase' = "select"
    /\ page' = page + 1
    /\ UNCHANGED <<table, answer, walk, changes, sizes>>

Retry ==
    /\ phase = "failed"
    /\ phase' = "select"
    /\ UNCHANGED <<table, page, answer, walk, changes, sizes>>

(***************************************************************************)
(* getUserList.                                                            *)
(***************************************************************************)

\* Variant: the total of the last page leaves out the pages before it.
SelectPageTotalWithoutSkip ==
    /\ phase = "select"
    /\ list' = PageOf(page)
    /\ IF EndsTable(list', page)
       THEN phase' = "reply" /\ total' = Len(list')
       ELSE phase' = "count" /\ UNCHANGED total
    /\ sizes' = {Len(table)}
    /\ UNCHANGED <<table, page, walk, changes>>

SelectPage ==
    /\ phase = "select"
    /\ list' = PageOf(page)
    /\ IF EndsTable(list', page)
       THEN phase' = "reply" /\ total' = Skip(page) + Len(list')
       ELSE phase' = "count" /\ UNCHANGED total
    /\ sizes' = {Len(table)}
    /\ UNCHANGED <<table, page, walk, changes>>

CountUsers ==
    /\ phase = "count"
    /\ total' = Len(table)
    /\ phase' = "reply"
    /\ UNCHANGED <<table, page, list, walk, changes, sizes>>

\* The page is answered; the client goes on while currentPage < totalPages.
Reply ==
    /\ phase = "reply"
    /\ listed' = [u \in Users |-> listed[u] + (IF u \in ToSet(list) THEN 1 ELSE 0)]
    /\ phase' = IF page < TotalPages(total) THEN "next" ELSE "done"
    /\ sizes' = {}
    /\ UNCHANGED <<table, page, answer, stayed, changes>>

\* A query fails: the call is answered with an error.
Fail ==
    /\ phase \in {"select", "count"}
    /\ phase' = "failed"
    /\ UNCHANGED <<table, page, answer, walk, changes, sizes>>

(***************************************************************************)
(* Other calls and programs change the table.                              *)
(***************************************************************************)

MayChange == added + removed + moved < MaxChanges

Changed(newTable) ==
    /\ table' = newTable
    /\ sizes' = IF phase = "count" THEN sizes \union {Len(newTable)} ELSE sizes
    /\ UNCHANGED <<phase, page, answer, listed>>

\* Another program adds user u; ids are random, so it may come up anywhere.
AddUser(u, i) ==
    /\ MayChange
    /\ u \notin Live
    /\ Changed(InsertAt(table, i, u))
    /\ added' = added + 1
    /\ UNCHANGED <<stayed, removed, moved>>

\* The removeUser of the user at place i commits.
RemoveUser(i) ==
    /\ MayChange
    /\ Changed(RemoveAt(table, i))
    /\ stayed' = stayed \ {table[i]}
    /\ removed' = removed + 1
    /\ UNCHANGED <<added, moved>>

\* The user at place i comes to be at place j: an updateProfile commits and orderBy is
\* a column it sets (password, lastModifiedAt), or the user ties with others under a
\* column that does not tell users apart (email, name) and Postgres puts it elsewhere
\* this time.
MoveUser(i, j) ==
    /\ MayChange
    /\ Changed(InsertAt(RemoveAt(table, i), j, table[i]))
    /\ table' # table
    /\ moved' = moved + 1
    /\ UNCHANGED <<stayed, added, removed>>

Next ==
    \/ Begin \/ NextPage \/ Retry
    \/ SelectPage \/ CountUsers \/ Reply \/ Fail
    \/ \E u \in Users, i \in 1..(Len(table) + 1) : AddUser(u, i)
    \/ \E i \in DOMAIN table : RemoveUser(i)
    \/ \E i, j \in DOMAIN table : MoveUser(i, j)

Spec == Init /\ [][Next]_vars

(***************************************************************************)
(* Properties.                                                             *)
(***************************************************************************)

\* A client that has followed totalPages to the end has missed at most one of the
\* users that were there all along for each user removed or moved meanwhile; with
\* none removed or moved it has missed nobody, however many were added.
MissedOnlyByRemoval ==
    phase = "done" =>
        Cardinality({u \in stayed : listed[u] = 0}) <= removed + moved

\* A user is shown again at most once for each user added or moved meanwhile.
RepeatedOnlyByAddition ==
    Cardinality(UNION {{u} \X (2..listed[u]) : u \in Users}) <= added + moved

\* The totalItems of an answer is the number of users there were at some moment
\* between its two reads, also when it is inferred from the page and not counted.
TotalWasTrue == phase = "reply" => total \in sizes
=============================================================================
