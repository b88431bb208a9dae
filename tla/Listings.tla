------------------------------ MODULE Listings ------------------------------
(***************************************************************************)
(* The async generators that page through what a service holds:            *)
(* listIterableObjects() and listIterableVersions() of packages/stratus,   *)
(* getIterableRows() of packages/datastore.  What they page through is     *)
(* external and changes while they are under way (modules StratusBucket    *)
(* and DatastoreTable); the application takes one element at a time.       *)
(***************************************************************************)
EXTENDS Integers, FiniteSets, FiniteSetsExt

CONSTANTS
  Keys, Versions, RowIds,  (* sets of positive integers, in the order of a listing  *)
  Iterators,               (* generators                                            *)
  OptionObjects,           (* objects that the application passes to listIterableObjects() *)
  PageSize                 (* the most elements of a page                           *)

Unshared == "unshared"

ASSUME ListingAssumption ==
  /\ \A S \in {Keys, Versions, RowIds} : S \subseteq Nat \ {0} /\ IsFiniteSet(S)
  /\ Keys # {} /\ Unshared \notin OptionObjects

VARIABLES
  store,         (* each key: its versions, none when there is no such object       *)
  rows,          (* the rows of the table                                           *)
  continuation,  (* options.continuationToken of each object of options             *)
  iterator       (* each generator: what it lists, the options it was given, its
                    nextToken, the rest of its page and the token that came with it;
                    as history what it has yielded, whether anything twice, what was
                    there all the time, and whether it began at the beginning and had
                    its options to itself                                           *)

listingVars == <<store, rows, continuation, iterator>>

NoToken == 0
IdleIterator == [of |-> "objects", options |-> Unshared, at |-> "idle", token |-> NoToken,
                 page |-> {}, next |-> NoToken, yielded |-> {}, twice |-> FALSE,
                 stable |-> {}, exact |-> FALSE]

IteratorInit ==
  /\ continuation = [o \in OptionObjects |-> NoToken]
  /\ iterator = [i \in Iterators |-> IdleIterator]

(* External: what a listing holds, in terms of the keys of the server.  The versions are
   those of one object. *)
VersionedKey == Min(Keys)
Listing(list, s, t) ==
  CASE list = "objects"  -> {k \in Keys : s[k] # {}}
    [] list = "versions" -> s[VersionedKey]
    [] list = "rows"     -> t

(* What is stored becomes s and t: whatever is missing now was not there all the time. *)
Becomes(s, t) ==
  /\ store' = s /\ rows' = t
  /\ iterator' = [i \in Iterators |->
                    [iterator[i] EXCEPT !.stable = @ \cap Listing(iterator[i].of, s, t)]]

StoreBecomes(s) == Becomes(s, rows) /\ UNCHANGED continuation
RowsBecome(t) == Becomes(store, t) /\ UNCHANGED continuation

-----------------------------------------------------------------------------
Token(i) ==
  IF iterator[i].of = "objects" THEN continuation[iterator[i].options] ELSE iterator[i].token

Shares(i, o) == iterator[i].at # "idle" /\ iterator[i].of = "objects" /\ iterator[i].options = o

(* A generator is made; it asks for nothing yet. *)
Start(i, list, o) ==
  /\ iterator[i].at = "idle"
  /\ list = "objects" <=> o # Unshared
  /\ iterator' =
       [j \in Iterators |->
          IF j = i
          THEN [IdleIterator EXCEPT !.of = list, !.options = o, !.at = "asking",
                                    !.stable = Listing(list, store, rows),
                                    !.exact = list # "objects" \/
                                      (continuation[o] = NoToken /\ \A k \in Iterators : ~Shares(k, o))]
          ELSE [iterator[j] EXCEPT !.exact = @ /\ ~(o # Unshared /\ Shares(j, o))]]
  /\ UNCHANGED <<store, rows, continuation>>

(* External: a page is the next elements after the token, at most PageSize; its token is
   the last of them when there are more. *)
Page(list, token, page) ==
  LET rest == {x \in Listing(list, store, rows) : x > token} IN
  /\ page \subseteq rest /\ Cardinality(page) <= PageSize
  /\ \A x \in page, y \in rest \ page : x < y
  /\ page = {} => rest = {}

NextToken(list, page) ==
  IF \E x \in Listing(list, store, rows) : page # {} /\ x > Max(page) THEN Max(page) ELSE NoToken

(* listPagedObjects(), listPagedVersions() and getPagedRows(): the page arrives. *)
PageArrives(i) ==
  /\ iterator[i].at = "asking"
  /\ \E page \in SUBSET Listing(iterator[i].of, store, rows) :
       /\ Page(iterator[i].of, Token(i), page)
       /\ iterator' = [iterator EXCEPT ![i].at = "yielding", ![i].page = page,
                                       ![i].next = NextToken(iterator[i].of, page)]
  /\ UNCHANGED <<store, rows, continuation>>

(* The next element of the page. *)
Yield(i) ==
  /\ iterator[i].at = "yielding" /\ iterator[i].page # {}
  /\ LET x == Min(iterator[i].page) IN
     iterator' = [iterator EXCEPT ![i].page = @ \ {x}, ![i].yielded = @ \cup {x},
                                  ![i].twice = @ \/ x \in iterator[i].yielded]
  /\ UNCHANGED <<store, rows, continuation>>

(* Mutant: a page that is not full is the last one. *)
MoreAfterFullPage(i) == iterator[i].next # NoToken /\ Cardinality(iterator[i].yielded) % PageSize = 0

More(i) == iterator[i].next # NoToken

(* The page is through: its token is kept, with the options or in the generator, and the
   loop goes on or ends. *)
PageDone(i) ==
  /\ iterator[i].at = "yielding" /\ iterator[i].page = {}
  /\ iterator' = [iterator EXCEPT ![i].at = IF More(i) THEN "asking" ELSE "done",
                                  ![i].token = iterator[i].next]
  /\ continuation' = IF iterator[i].of = "objects"
                     THEN [continuation EXCEPT ![iterator[i].options] = iterator[i].next]
                     ELSE continuation
  /\ UNCHANGED <<store, rows>>

(* The application leaves its loop, or is through with it, or the request for a page
   fails: the options keep the token that they have. *)
Leave(i) ==
  /\ iterator[i].at # "idle"
  /\ iterator' = [iterator EXCEPT ![i] = IdleIterator]
  /\ UNCHANGED <<store, rows, continuation>>

ListingStep(i) == PageArrives(i) \/ Yield(i) \/ PageDone(i) \/ Leave(i)

-----------------------------------------------------------------------------
(* A generator that began at the beginning, with options that no other one uses, yields
   nothing twice, and once it ends it has yielded all that was there all the time,
   however the store changes between pages and whatever the size of a page. *)
StableListed ==
  \A i \in Iterators : iterator[i].exact =>
    /\ ~iterator[i].twice
    /\ iterator[i].at = "done" => iterator[i].stable \subseteq iterator[i].yielded

(* listIterableObjects() "Iterates through all objects in the bucket across pages."  The
   code violates it for options that are used again: the generator keeps its place in
   the object of the caller. *)
AllListed ==
  \A i \in Iterators : iterator[i].at = "done" => iterator[i].stable \subseteq iterator[i].yielded
=============================================================================
