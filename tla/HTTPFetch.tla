----------------------------- MODULE HTTPFetch ------------------------------
(***************************************************************************)
(* Transport.RoundTrip of package net/http and the response body it gives  *)
(* out: one request that races with the cancellation of its context, with  *)
(* the host's fetch and with Close of the body.                            *)
(***************************************************************************)
EXTENDS Integers

CONSTANT MaxReads

VARIABLES ctx,      \* "live" or "done"
          method,   \* of the request
          closes,   \* how often the request's body was closed
          rt,       \* RoundTrip: "idle", "reading", "fetching", "serving", "returned"
          rtErr,    \* what it returned: "none", "ctx", "net", "body"; "panic" and
                    \* "rejected" when it threw, the latter before it closed the body
          net,      \* the fetch: "idle", "pending", "headers", "failed"
          watch,    \* the goroutine on ctx.Done(): "none", "waiting", "ended"
          stopped,  \* fetchContext.stop() was called
          aborted,  \* the fetch's AbortController
          winner,   \* which promise won wait()'s race: "none", "value", "thrown", "ctx"
          body,     \* the response's stream: "none", "unused", "pending", "arrived", "failed"
          rd,       \* Read: "idle", "loading"
          rdWatch,  \* the second watcher, of the read
          rdWinner, \* its race
          loaded,   \* the bytes are buffered
          closed,   \* the response body was closed
          readErr,  \* last error of a Read
          reads     \* Reads so far

fetchVars == <<ctx, method, closes, rt, rtErr, net, watch, stopped, aborted, winner,
               body, rd, rdWatch, rdWinner, loaded, closed, readErr, reads>>
requestVars == <<method, closes, rt, rtErr, net, winner>>
bodyVars == <<body, rd, rdWatch, rdWinner, loaded, closed, readErr, reads>>

FetchInit ==
    /\ ctx = "live" /\ method \in {"GET", "POST", "HEAD"} /\ closes = 0
    /\ rt = "idle" /\ rtErr = "none" /\ net = "idle"
    /\ watch = "none" /\ stopped = FALSE /\ aborted = FALSE /\ winner = "none"
    /\ body = "none" /\ rd = "idle" /\ rdWatch = "none" /\ rdWinner = "none"
    /\ loaded = FALSE /\ closed = FALSE /\ readErr = "none" /\ reads = 0

\* The program cancels the request's context at any time.
CancelRequest == ctx = "live" /\ ctx' = "done"
                 /\ UNCHANGED <<requestVars, bodyVars, watch, stopped, aborted>>

-----------------------------------------------------------------------------
Return(err) == rt' = "returned" /\ rtErr' = err
\* fetch is called with the signal of a new fetchContext, whose watcher starts.
StartFetch == /\ rt' = "fetching" /\ net' = "pending" /\ watch' = "waiting"
              /\ UNCHANGED rtErr

\* A host without fetch, or a context that is over, only closes the body; a
\* request with a body reads it first; the others close it at once.  A header
\* the host refuses throws before that, and Close may throw.
RejectRequest == Return("rejected") /\ UNCHANGED <<closes, net, watch>>
RoundTripLeavesBodyOpen ==
    /\ rt = "idle"
    /\ IF ctx = "done" THEN Return("ctx") /\ UNCHANGED <<closes, net, watch>>
       ELSE \/ RejectRequest
            \/ method = "POST" /\ rt' = "reading" /\ UNCHANGED <<closes, net, watch, rtErr>>
            \/ method # "POST" /\ closes' = closes + 1 /\ StartFetch
    /\ UNCHANGED <<ctx, method, winner, stopped, aborted, bodyVars>>
RoundTrip ==
    /\ rt = "idle"
    /\ \/ \E hasFetch \in BOOLEAN :
            IF ~hasFetch THEN closes' = closes + 1 /\ Return("net") /\ UNCHANGED <<net, watch>>
            ELSE IF ctx = "done" THEN closes' = closes + 1 /\ Return("ctx") /\ UNCHANGED <<net, watch>>
            ELSE \/ RejectRequest
                 \/ method = "POST" /\ rt' = "reading" /\ UNCHANGED <<closes, net, watch, rtErr>>
                 \/ /\ method # "POST" /\ closes' = closes + 1
                    /\ \/ StartFetch
                       \/ \E err \in {"body", "panic"} : Return(err) /\ UNCHANGED <<net, watch>>
       \/ rt' = "serving" /\ UNCHANGED <<closes, net, watch, rtErr>>
    /\ UNCHANGED <<ctx, method, winner, stopped, aborted, bodyVars>>

\* io.ReadAll of the request's body ends, with its error or without, and the
\* body is closed; or it throws, and nothing closes it.
BodyRead ==
    /\ rt = "reading"
    /\ \/ RejectRequest
       \/ /\ closes' = closes + 1
          /\ \/ StartFetch
             \/ \E err \in {"body", "panic"} : Return(err) /\ UNCHANGED <<net, watch>>
    /\ UNCHANGED <<ctx, method, winner, stopped, aborted, bodyVars>>

\* An in-process server's handler returns or panics; the body is closed in both
\* cases and the recorded response needs no watcher.
HandlerReturns ==
    /\ rt = "serving" /\ closes' = closes + 1
    /\ \/ Return("panic") /\ UNCHANGED <<body, loaded>>
       \/ Return("body") /\ UNCHANGED <<body, loaded>>
       \/ /\ Return("none")
          /\ body' = (IF method = "HEAD" THEN "none" ELSE "arrived") /\ loaded' = (method # "HEAD")
    /\ UNCHANGED <<ctx, method, net, watch, winner, stopped, aborted, rd, rdWatch, rdWinner, closed, readErr, reads>>

\* The host: headers arrive, or the fetch fails (always, once aborted).
Wins(w, v) == w' = IF w = "none" THEN v ELSE w
Network ==
    /\ net = "pending"
    /\ \/ net' = "headers" /\ ~aborted /\ Wins(winner, "value")
       \/ net' = "failed" /\ Wins(winner, "thrown")
    /\ UNCHANGED <<ctx, method, closes, rt, rtErr, watch, stopped, aborted, bodyVars>>

\* The watcher wakes when the context is done or stop() aborts its receive; it
\* aborts the fetch unless stopped.
WatcherWakes ==
    /\ watch = "waiting" /\ (ctx = "done" \/ stopped)
    /\ watch' = "ended"
    /\ aborted' = (aborted \/ ~stopped)
    /\ IF rt = "fetching" THEN Wins(winner, "ctx") ELSE UNCHANGED winner
    /\ UNCHANGED <<ctx, method, closes, rt, rtErr, net, stopped, bodyVars>>

\* wait() returns to RoundTrip: a failure stops the watch; so does HEAD, whose
\* body is empty, and an answer of which no Response can be made (a
\* content-length that is no number, in the catch).
FetchSettledUnstopped ==
    /\ rt = "fetching" /\ winner # "none"
    /\ CASE winner = "ctx"    -> Return("ctx") /\ aborted' = TRUE /\ UNCHANGED <<stopped, body>>
         [] winner = "thrown" -> Return(IF ctx = "done" THEN "ctx" ELSE "net") /\ UNCHANGED <<stopped, aborted, body>>
         [] winner = "value"  -> /\ Return("none") /\ UNCHANGED <<aborted, stopped>>
                                 /\ body' = IF method = "HEAD" THEN "none" ELSE "unused"
    /\ UNCHANGED <<ctx, method, closes, net, watch, winner, rd, rdWatch, rdWinner, loaded, closed, readErr, reads>>
FetchSettled ==
    /\ rt = "fetching" /\ winner # "none"
    /\ CASE winner = "ctx"    -> Return("ctx") /\ stopped' = TRUE /\ aborted' = TRUE /\ UNCHANGED body
         [] winner = "thrown" -> /\ Return(IF ctx = "done" THEN "ctx" ELSE "net")
                                 /\ stopped' = TRUE /\ UNCHANGED <<aborted, body>>
         [] winner = "value"  ->
              /\ UNCHANGED aborted
              /\ \/ /\ Return("none") /\ stopped' = (method = "HEAD")
                    /\ body' = IF method = "HEAD" THEN "none" ELSE "unused"
                 \/ Return("net") /\ stopped' = TRUE /\ UNCHANGED body
    /\ UNCHANGED <<ctx, method, closes, net, watch, winner, rd, rdWatch, rdWinner, loaded, closed, readErr, reads>>

-----------------------------------------------------------------------------
\* fetchResponseBody.Read: the first one loads the whole body under a context
\* watch of its own; a stream that was already used rejects.
ReadBody ==
    /\ rt = "returned" /\ rtErr = "none" /\ body # "none" /\ rd = "idle" /\ reads < MaxReads
    /\ reads' = reads + 1
    /\ CASE closed -> readErr' = "closed" /\ UNCHANGED <<rd, rdWatch, rdWinner, body>>
         [] ~closed /\ loaded -> readErr' = "none" /\ UNCHANGED <<rd, rdWatch, rdWinner, body>>
         [] ~closed /\ ~loaded ->
              /\ rd' = "loading" /\ rdWatch' = "waiting" /\ UNCHANGED readErr
              /\ IF body = "unused" THEN body' = "pending" /\ rdWinner' = "none"
                 ELSE rdWinner' = "thrown" /\ UNCHANGED body
    /\ UNCHANGED <<ctx, requestVars, watch, stopped, aborted, loaded, closed>>

BodyArrives ==
    /\ body = "pending"
    /\ \/ body' = "arrived" /\ ~aborted /\ Wins(rdWinner, "value")
       \/ body' = "failed" /\ Wins(rdWinner, "thrown")
    /\ UNCHANGED <<ctx, requestVars, watch, stopped, aborted, rd, rdWatch, loaded, closed, readErr, reads>>

ReadWatcherWakes ==
    /\ rdWatch = "waiting" /\ (ctx = "done" \/ rd = "idle")
    /\ rdWatch' = "ended"
    /\ IF rd = "loading" THEN Wins(rdWinner, "ctx") ELSE UNCHANGED rdWinner
    /\ UNCHANGED <<ctx, requestVars, watch, stopped, aborted, body, rd, loaded, closed, readErr, reads>>

\* readFetchBody returns to Read: an error aborts the fetch, and the outer
\* watch stops either way.  closed is not looked at again.
BodyLoaded ==
    /\ rd = "loading" /\ rdWinner # "none"
    /\ rd' = "idle" /\ stopped' = TRUE
    /\ CASE rdWinner = "value"  -> loaded' = TRUE /\ readErr' = "none" /\ UNCHANGED aborted
         [] rdWinner = "thrown" -> /\ readErr' = IF ctx = "done" THEN "ctx" ELSE "net"
                                   /\ aborted' = TRUE /\ UNCHANGED loaded
         [] rdWinner = "ctx"    -> readErr' = "ctx" /\ aborted' = TRUE /\ UNCHANGED loaded
    /\ UNCHANGED <<ctx, requestVars, watch, body, rdWatch, rdWinner, closed, reads>>

\* Close, also while a Read is loading: nothing buffered means the rest of the
\* response is not wanted.
CloseBody ==
    /\ rt = "returned" /\ rtErr = "none" /\ body # "none" /\ ~closed
    /\ closed' = TRUE /\ stopped' = TRUE
    /\ aborted' = (aborted \/ ~loaded)
    /\ UNCHANGED <<ctx, requestVars, watch, body, rd, rdWatch, rdWinner, loaded, readErr, reads>>

FetchNext == \/ CancelRequest \/ RoundTrip \/ BodyRead \/ HandlerReturns \/ Network \/ WatcherWakes
             \/ FetchSettled \/ ReadBody \/ BodyArrives \/ ReadWatcherWakes \/ BodyLoaded \/ CloseBody
FetchSpec == FetchInit /\ [][FetchNext]_fetchVars

\* The event loop runs the continuations of settled promises, each once.
EventLoop == WatcherWakes \/ ReadWatcherWakes \/ FetchSettled \/ BodyLoaded
FetchFairness == WF_fetchVars(EventLoop)

-----------------------------------------------------------------------------
\* RoundTrip closes the request's body once, whether it returns a response, the
\* context's error, that of the body or of the network, or a handler panics.  Only
\* when it throws before it has read and closed the body does it leave it open, and
\* then nothing was sent and nobody watches the context.  The context is blamed
\* only when it is over (fetchRoundTrip, newFetchContext.wait).
RequestReleased ==
    /\ rt = "returned" => closes = IF rtErr = "rejected" THEN 0 ELSE 1
    /\ closes <= 1
    /\ rtErr = "rejected" => net = "idle" /\ watch = "none"
    /\ winner = "ctx" => ctx = "done"
    /\ rtErr = "ctx" => ctx = "done"

\* Go's http.RoundTripper: "RoundTrip must always close the body, including on
\* errors".  A header that the host's Headers refuse (index.ts:1355) and a body whose
\* Read panics (index.ts:1364) leave it open; no run checks it.
BodyAlwaysClosed == rt = "returned" => closes = 1

\* Nothing that is over stays on the context's Done channel, and a cancelled
\* request or read never waits for the network (newFetchContext.stop, wait).
Over == rt = "returned" /\ (rtErr # "none" \/ method = "HEAD" \/ closed \/ (reads > 0 /\ rd = "idle"))
CancelledReturns == /\ (ctx = "done" /\ rt = "fetching") ~> (rt = "returned")
                    /\ (ctx = "done" /\ rd = "loading") ~> (rd = "idle")
                    /\ Over ~> (watch # "waiting" /\ (rd = "loading" \/ rdWatch # "waiting"))
=============================================================================
