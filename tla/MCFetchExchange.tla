--------------------------- MODULE MCFetchExchange ---------------------------
(***************************************************************************)
(* FetchExchange, and HttpExchange under it, for TLC: numbers on both sides  *)
(* of what PagingRequestDTO allows, and an email of each kind: as it is,    *)
(* read as another text, and bringing a name the DTO does not know, a page  *)
(* (which comes twice then), a pageSize it allows and one it refuses.       *)
(***************************************************************************)
EXTENDS FetchExchange

MCAsRead == [e \in Emails |-> CASE e = "john+x" -> "john x"
                             [] e \in {"a&b", "a&page=2", "a&pageSize=50", "a&pageSize=51"} -> "a"
                             [] OTHER -> e]

MCBrings == [e \in Emails |-> CASE e = "a&page=2"      -> [NoQuery EXCEPT !.page = 2]
                             [] e = "a&pageSize=50" -> [NoQuery EXCEPT !.pageSize = 50]
                             [] e = "a&pageSize=51" -> [NoQuery EXCEPT !.pageSize = 51]
                             [] OTHER               -> NoQuery]
=============================================================================
