------------------------------ MODULE Paginator ------------------------------
(***************************************************************************)
(* The pagination loop shared by all services (_pagination.py, `paginate`) *)
(* over a service that keeps a list of pages.                              *)
(*                                                                         *)
(* A continuation is a tuple of tokens, some of which may be absent.       *)
(* Evaluating the paths of a specification over a page (`_read`, `_token`, *)
(* `_present`) is abstracted to the page's tokens, with None for one that  *)
(* is missing or empty.  Tokens may be cursors, mappings that others hold  *)
(* too: the consumer changes the page it was given; middleware changes the *)
(* parameters of a request it has seen, while it still holds the answer or *)
(* later.                                                                  *)
(***************************************************************************)
EXTENDS Naturals

CONSTANTS
    Names,          \* spec.input_tokens
    Values,         \* values of a token
    None, Changed,
    Last            \* number of pages of the service's list

ASSUME TokensAssumption ==
    /\ Last \in Nat \ {0}
    /\ None \notin Values /\ Changed \notin Values \cup {None}

VARIABLES
    tokenOf,        \* the service: the tokens that ask for each page
    lastPage,       \* and its last page
    request,        \* the tokens in `request`
    previous,       \* `previous`
    following,      \* `following`
    stops,          \* finished or repeated
    served,         \* the page that the service has answered with
    page,           \* the tokens of the page the consumer has
    seen,           \* number of that page in the service's list
    phase           \* new, calling, answered (the answer is on its way through
                    \* middleware), given (suspended at yield) or how it ended

serviceVars == <<tokenOf, lastPage>>
pagingVars == <<serviceVars, request, previous, following, stops, served, page, seen, phase>>

Tuples == [Names -> Values \cup {None}]
Absent == [n \in Names |-> None]

\* Every page has tokens of its own; only the first may be asked for without.
Services == {f \in [1..Last -> Tuples] :
                /\ \A p, q \in 1..Last : f[p] = f[q] => p = q
                /\ \A p \in 2..Last : f[p] # Absent}

\* A last page has no tokens, says so, or repeats the tokens that asked for it.
LastPages(f) == {g \in [tokens : Tuples, more : BOOLEAN] :
                    ~g.more \/ g.tokens \in {Absent, f[Last]}}

Page(p) == IF p = Last THEN lastPage ELSE [tokens |-> tokenOf[p + 1], more |-> TRUE]

PagingInit ==
    /\ tokenOf \in Services
    /\ lastPage \in LastPages(tokenOf)
    /\ request = Absent /\ previous = Absent /\ following = Absent
    /\ stops = FALSE
    /\ served = 0
    /\ page = Absent
    /\ seen = 0
    /\ phase = "new"

-----------------------------------------------------------------------------
\* The first __anext__: the loop begins with the caller's own tokens.
Start ==
    /\ phase = "new"
    /\ request' = tokenOf[1]
    /\ previous' = tokenOf[1]
    /\ phase' = "calling"
    /\ UNCHANGED <<serviceVars, following, stops, served, page, seen>>

(***************************************************************************)
(* The service answers with the page that the request asks for, or with    *)
(* whichever it likes when no page has these tokens.                       *)
(***************************************************************************)
Asked(p) == p \in 1..Last /\ (request \in {tokenOf[q] : q \in 1..Last} => tokenOf[p] = request)

Answer(p) ==
    /\ phase = "calling"
    /\ Asked(p)
    /\ served' = p
    /\ phase' = "answered"
    /\ UNCHANGED <<serviceVars, request, previous, following, stops, page, seen>>

\* The loop has the page; `repeated` says that it continues where it began.
Give(repeated) ==
    LET got == Page(served)
    IN  /\ phase = "answered"
        /\ following' = got.tokens
        /\ stops' = (~got.more \/ got.tokens = Absent \/ repeated)
        /\ page' = got.tokens
        /\ seen' = served
        /\ phase' = "given"
        /\ UNCHANGED <<serviceVars, request, previous, served>>

\* Faulty: the tokens are compared with those in the request.
YieldComparesRequest == Give(Page(served).tokens = request)

\* Everything the loop needs of the page is read before it is yielded.
Yield == Give(Page(served).tokens = previous)

\* Faulty: the tokens are read from the page when the consumer asks on.
ResumeReadsPage ==
    /\ phase = "given" /\ ~stops
    /\ request' = page
    /\ previous' = page
    /\ phase' = "calling"
    /\ UNCHANGED <<serviceVars, following, stops, served, page, seen>>

\* Faulty: a token the page does not have stays in the request.
ResumeKeepsTokens ==
    /\ phase = "given" /\ ~stops
    /\ request' = [n \in Names |-> IF following[n] # None THEN following[n] ELSE request[n]]
    /\ previous' = following
    /\ phase' = "calling"
    /\ UNCHANGED <<serviceVars, following, stops, served, page, seen>>

\* Faulty: the tokens are compared with the first ones for ever.
ResumeKeepsPrevious ==
    /\ phase = "given" /\ ~stops
    /\ request' = following
    /\ phase' = "calling"
    /\ UNCHANGED <<serviceVars, previous, following, stops, served, page, seen>>

\* The consumer asks on: tokens of the page are set, all others are removed.
Resume ==
    /\ phase = "given" /\ ~stops
    /\ request' = following
    /\ previous' = following
    /\ phase' = "calling"
    /\ UNCHANGED <<serviceVars, following, stops, served, page, seen>>

Complete ==
    /\ phase = "given" /\ stops
    /\ phase' = "over"
    /\ UNCHANGED <<serviceVars, request, previous, following, stops, served, page, seen>>

\* The call fails or is cancelled, or the consumer closes the generator.
Abandon ==
    /\ phase \in {"new", "calling", "answered", "given"}
    /\ phase' = "abandoned"
    /\ UNCHANGED <<serviceVars, request, previous, following, stops, served, page, seen>>

-----------------------------------------------------------------------------
\* Cursors are changed in place by those who hold them.
ConsumerMutates(n) ==
    /\ phase = "given"
    /\ page[n] # None
    /\ page' = [page EXCEPT ![n] = Changed]
    /\ UNCHANGED <<serviceVars, request, previous, following, stops, served, seen, phase>>

\* Before the answer it would be another request.  Until the loop reads new
\* ones, `following` holds the same objects as the request made from it.
MiddlewareMutates(n) ==
    /\ phase \in {"answered", "given"}
    /\ request[n] # None
    /\ request' = [request EXCEPT ![n] = Changed]
    /\ following' = IF phase = "answered" /\ following[n] # None
                    THEN [following EXCEPT ![n] = Changed] ELSE following
    /\ UNCHANGED <<serviceVars, previous, stops, served, page, seen, phase>>

PagingFinished == phase \in {"over", "abandoned"} /\ UNCHANGED pagingVars

Ask == Start \/ Resume \/ Complete

PagingNext ==
    \/ Ask \/ Yield \/ Abandon \/ PagingFinished
    \/ \E p \in 1..Last : Answer(p)
    \/ \E n \in Names : ConsumerMutates(n) \/ MiddlewareMutates(n)

PagingSpec == PagingInit /\ [][PagingNext]_pagingVars

-----------------------------------------------------------------------------
Mutable == [Names -> Values \cup {None, Changed}]

\* The type invariant: what is sent, compared or kept for the next request is
\* never an object that the consumer or middleware has changed.
PagingTypeOK ==
    /\ tokenOf \in [1..Last -> Tuples]
    /\ lastPage \in [tokens : Tuples, more : BOOLEAN]
    /\ request \in Mutable /\ page \in Mutable /\ following \in Mutable
    /\ phase = "calling" => request \in Tuples
    /\ phase = "given" => following \in Tuples
    /\ previous \in Tuples
    /\ stops \in BOOLEAN
    /\ seen \in 0..Last /\ served \in 0..Last
    /\ phase \in {"new", "calling", "answered", "given", "over", "abandoned"}

\* Where the consumer is in the abstract listing.
ListingPhase ==
    CASE phase \in {"new", "given"} -> "idle"
      [] phase \in {"calling", "answered"} -> "asked"
      [] OTHER -> phase

(***************************************************************************)
(* The consumer is given the service's pages in order, each once, with one *)
(* request for each and none ahead, and the end only after the last page,  *)
(* whatever it and middleware do to the objects they hold: no token of an  *)
(* earlier page and no changed one gets into a request.                    *)
(***************************************************************************)
L == INSTANCE Listing WITH phase <- ListingPhase

ImplementsListing == L!Spec

(***************************************************************************)
(* A consumer that asks on, of a service that answers, reaches the end,    *)
(* also of a list whose last page gives its own token again for ever.      *)
(***************************************************************************)
CompletesIfAsked ==
    WF_pagingVars(Ask) /\ WF_pagingVars(Yield) /\ WF_pagingVars(\E p \in 1..Last : Answer(p))
        => <>(phase \in {"over", "abandoned"})
=============================================================================
