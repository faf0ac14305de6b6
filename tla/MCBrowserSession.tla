-------------------------- MODULE MCBrowserSession --------------------------
(* Two tabs of one browser, two calls and two refresh requests. *)
EXTENDS BrowserSession

CONSTANTS t1, t2, c1, c2, p1, p2

\* Nothing distinguishes one call from another, so that none hangs is checked of
\* one of the two: no call of apiFetch waits for ever on a lock or on a promise
\* that nobody gives up (session.ts refresh and withLock, http.ts apiFetch).
CallsSettle == Settles(c1)

=============================================================================
