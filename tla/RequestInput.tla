---------------------------- MODULE RequestInput ----------------------------
(***************************************************************************)
(* HandleRequest of HttpServer.cpp up to the message it posts: route,      *)
(* method, JSON body, session id, and the wait of the query.               *)
(*                                                                         *)
(* A target is a sequence of the separators "?" and "&" and of texts: the  *)
(* two paths, the two items that ask to wait, and "o" for other text.      *)
(***************************************************************************)
EXTENDS Widths

CONSTANT MaxTarget    \* bound: length of a target

ASSUME TargetAssumption == MaxTarget \in Nat

VARIABLES
    request,       \* the request that was answered
    nextSession,   \* _nextSessionId
    answer,        \* the status, or "posted" when the message is handed on
    session,       \* msg.sessionId
    wait           \* is the message handed to HandleSyncRequest?

requestVars == <<request, nextSession, answer, session, wait>>

Tokens == {"/api/v1/register", "/api/v1/auth", "wait=true", "wait=1", "o", "?", "&"}
Targets == SeqOf(Tokens, MaxTarget)

\* A body is empty, no JSON, JSON but no object, an object without a session id,
\* or one whose session id is an integer or something else.
Integral == -(Int64Max + 1)..(Uint64Max + 2)
Bodies ==
    [kind : {"empty", "malformed", "array", "noId", "otherId"}, id : {0}]
      \cup [kind : {"integerId"}, id : Integral]

\* The parts that have nothing to do with each other vary one at a time.
Request(target, method, body) == [target |-> target, method |-> method, body |-> body]
Empty == [kind |-> "empty", id |-> 0]
Requests ==
    {Request(target, "POST", Empty) : target \in Targets}
      \cup {Request(target, method, body) : target \in {<<"/api/v1/auth">>, <<"o">>},
                                            method \in {"POST", "GET"}, body \in Bodies}

\* The server has given out session ids before.
RequestInit ==
    /\ request = Request(<<>>, "GET", Empty)
    /\ nextSession \in 0..UintMax
    /\ answer = "none" /\ session = 0 /\ wait = FALSE

RequestTypeOK ==
    /\ request \in Requests \cup {Request(<<>>, "GET", Empty)}
    /\ nextSession \in 0..UintMax
    /\ answer \in {"none", "404", "405", "400", "posted"}
    /\ session \in 0..UintMax /\ wait \in BOOLEAN
-----------------------------------------------------------------------------
(* The helpers of the request.                                              *)

\* std::string::find: the first position from begin on, or 0 for npos.
Find(text, char, begin) ==
    LET found == {i \in begin..Len(text) : text[i] = char}
    IN  IF found = {} THEN 0 ELSE CHOOSE i \in found : \A j \in found : i <= j

ExtractPath(target) ==
    LET query == Find(target, "?", 1)
    IN  IF query = 0 THEN target ELSE SubSeq(target, 1, query - 1)

ExtractQuery(target) ==
    LET query == Find(target, "?", 1)
    IN  IF query = 0 THEN <<>> ELSE SubSeq(target, query + 1, Len(target))

WaitItems == {<<"wait=true">>, <<"wait=1">>}

\* Faulty variant: an item is taken up to the end of the query.
ItemToTheEnd(query, begin, end) == SubSeq(query, begin, Len(query))

Item(query, begin, end) == SubSeq(query, begin, IF end = 0 THEN Len(query) ELSE end - 1)

QueryHasWaitTrue(query) ==
    LET scan[begin \in 1..(Len(query) + 1)] ==
            LET end == Find(query, "&", begin)
            IN  Item(query, begin, end) \in WaitItems \/ (end # 0 /\ scan[end + 1])
    IN  scan[1]

ResolveRoute(path) == path \in {<<"/api/v1/register">>, <<"/api/v1/auth">>}

\* The kind Boost.JSON gives a number.
NumberKind(n) ==
    IF n \in -(Int64Max + 1)..Int64Max THEN "int64"
    ELSE IF n \in 0..Uint64Max THEN "uint64" ELSE "double"

\* Faulty variant: the range is tested after the cast to unsigned int.
InRangeAfterCast(n) == n % (UintMax + 1) # 0

InRange(n) == n # 0 /\ n <= UintMax

\* ReadSessionId: may the id of the body be used?
IdAccepted(body) ==
    CASE body.kind \in {"empty", "noId"} -> TRUE
      [] body.kind = "integerId" ->
            /\ \/ NumberKind(body.id) = "uint64"
               \/ NumberKind(body.id) = "int64" /\ body.id > 0
            /\ InRange(body.id)
      [] OTHER -> FALSE
-----------------------------------------------------------------------------
(* HandleRequest.                                                           *)

Routed(r)   == ResolveRoute(ExtractPath(r.target))
IsPost(r)   == r.method = "POST"
IsObject(r) == r.body.kind \notin {"malformed", "array"}

Answer(r, status) == answer' = status /\ request' = r
Refuse(r, status) == Answer(r, status) /\ UNCHANGED <<session, wait>>

NotFound(r) == ~Routed(r) /\ Refuse(r, "404") /\ UNCHANGED nextSession
MethodNotAllowed(r) ==
    Routed(r) /\ ~IsPost(r) /\ Refuse(r, "405") /\ UNCHANGED nextSession
InvalidJson(r) ==
    Routed(r) /\ IsPost(r) /\ ~IsObject(r) /\ Refuse(r, "400") /\ UNCHANGED nextSession

\* GenerateSessionId skips 0.
Generated == IF nextSession = 0 THEN 1 ELSE nextSession
DrawId    == nextSession' = ToUint(Generated + 1)

InvalidSessionId(r) ==
    /\ Routed(r) /\ IsPost(r) /\ IsObject(r) /\ ~IdAccepted(r.body)
    /\ Refuse(r, "400") /\ DrawId

Post(r) ==
    /\ Routed(r) /\ IsPost(r) /\ IsObject(r) /\ IdAccepted(r.body)
    /\ Answer(r, "posted") /\ DrawId
    /\ session' = IF r.body.kind = "integerId" THEN ToUint(r.body.id) ELSE Generated
    /\ wait' = QueryHasWaitTrue(ExtractQuery(r.target))

HandleRequest ==
    answer = "none" /\ \E r \in Requests :
        NotFound(r) \/ MethodNotAllowed(r) \/ InvalidJson(r) \/ InvalidSessionId(r) \/ Post(r)
-----------------------------------------------------------------------------
\* Only a client that asks for it waits: its query, from the first "?" on, has an
\* item between "&"s that is one of the two, whole.
AsksToWait(target) ==
    \E i \in 2..Len(target) :
        /\ target[i] \in {"wait=true", "wait=1"}
        /\ i = Len(target) \/ target[i + 1] = "&"
        /\ \/ target[i - 1] = "&" /\ \E j \in 1..(i - 2) : target[j] = "?"
           \/ target[i - 1] = "?" /\ \A j \in 1..(i - 2) : target[j] # "?"

WaitsIfAsked == answer = "posted" => (wait <=> AsksToWait(request.target))

\* The flow's session is the client's number, untruncated, whatever kind JSON gave
\* it, and no number that fits an unsigned int and is not 0 is refused; a flow
\* without a number gets one that is not 0.
SessionIsTheClients ==
    LET Fits == request.body.id \in 1..UintMax
        Given == request.body.kind = "integerId"
    IN  /\ answer = "posted" => session # 0 /\ (Given => session = request.body.id)
        /\ (answer # "none" /\ Given /\ Routed(request) /\ IsPost(request)) => (answer = "posted" <=> Fits)
=============================================================================
