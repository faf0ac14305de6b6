------------------------------ MODULE Throttle ------------------------------
(***************************************************************************)
(* The per-source rate limit of one route (services/throttle.py,           *)
(* repositories/rate_limit.py, core/throttling.py).  Every request is      *)
(* counted in the fixed window of the instant it arrived at, in a          *)
(* transaction of its own, and served or refused on the total that count   *)
(* returned.  The clock ticks several times a second, because Retry-After  *)
(* is a whole number of seconds.                                           *)
(***************************************************************************)
EXTENDS Integers, FiniteSets, Sequences

CONSTANTS Clients,          \* addresses requests really come from
          Proxies,          \* trusted_proxies, in front of the application
          Institutional,    \* the clients in rate_limit_institutional_ranges
          Ceiling,          \* rate_limit_ceilings of the route
          HigherCeiling,    \* rate_limit_institutional_ceiling
          Seconds,          \* rate_limit_window_seconds
          TicksPerSecond,   \* resolution of the clock
          MaxTime,          \* bound on the clock, in ticks
          Requests          \* requests of the run

ASSUME SettingsAssumption ==
    /\ Ceiling \in Nat /\ HigherCeiling \in Nat /\ Seconds \in Nat \ {0}
    /\ TicksPerSecond \in Nat \ {0} /\ MaxTime \in Nat
ASSUME AddressAssumption == Clients \intersect Proxies = {} /\ Institutional \subseteq Clients
ASSUME RequestsAssumption == IsFiniteSet(Requests)

VARIABLES agora,            \* the clock
          contador,         \* limite_taxa: hits per source and window start
          pedido            \* the requests

vars == <<agora, contador, pedido>>

WindowTicks == Seconds * TicksPerSecond
Windows == {w \in 0..MaxTime : w % WindowTicks = 0}
Sources == Clients \union Proxies

Fase == {"novo", "chegou", "contado", "servido", "recusado"}

\* cliente is who really sent it, fonte what it is counted against, espera the
\* Retry-After of a refusal, in seconds.
Pedido == [fase : Fase, cliente : Clients, fonte : Sources, em : 0..MaxTime,
           total : Nat, espera : Nat]

TypeOK ==
    /\ agora \in 0..MaxTime
    /\ contador \in [Sources \X (0..MaxTime) -> Nat]
    /\ pedido \in [Requests -> Pedido]

Init ==
    /\ agora = 0
    /\ contador = [k \in Sources \X (0..MaxTime) |-> 0]
    /\ \E c \in Clients :
          pedido = [r \in Requests |-> [fase |-> "novo", cliente |-> c, fonte |-> c,
                                        em |-> 0, total |-> 0, espera |-> 0]]

-----------------------------------------------------------------------------
\* The left-most hop, as X-Forwarded-For is often read (a mutant).
FirstHop(peer, hops) ==
    IF peer \notin Proxies \/ hops = <<>> THEN peer ELSE hops[1]

\* source_of: the peer, unless it is a trusted proxy; then the right-most hop
\* that is not one, and the peer again if every hop is.
SourceOf(peer, hops) ==
    LET untrusted == {i \in DOMAIN hops : hops[i] \notin Proxies}
    IN IF peer \notin Proxies \/ untrusted = {} THEN peer
       ELSE hops[CHOOSE i \in untrusted : \A j \in untrusted : j <= i]

\* The hops a request names before it meets the first proxy.
Claimed == {<<>>} \union {<<x>> : x \in Sources}

\* What reaches the application: the client itself is the peer, or one or two
\* proxies stand in front and each appended what it saw.
Arrivals(c) ==
    {<<c, h>> : h \in Claimed}
    \union {<<p, Append(h, c)>> : p \in Proxies, h \in Claimed}
    \union {<<q, Append(Append(h, c), p)>> : p \in Proxies, q \in Proxies, h \in Claimed}

Arrive(r) ==
    \E c \in Clients : \E a \in Arrivals(c) :
        /\ pedido[r].fase = "novo"
        /\ pedido' = [pedido EXCEPT ![r] = [@ EXCEPT !.fase = "chegou", !.cliente = c,
                                            !.fonte = SourceOf(a[1], a[2]), !.em = agora]]
        /\ UNCHANGED <<agora, contador>>

\* window_start: now floored to its window.
WindowStart(at) == at - (at % WindowTicks)

Key(r) == <<pedido[r].fonte, WindowStart(pedido[r].em)>>

\* count_hit: one upsert, committed before the decision.
CountHit(r) ==
    /\ pedido[r].fase = "chegou"
    /\ contador' = [contador EXCEPT ![Key(r)] = @ + 1]
    /\ pedido' = [pedido EXCEPT ![r].fase = "contado", ![r].total = contador[Key(r)] + 1]
    /\ UNCHANGED agora

CeilingFor(source) == IF source \in Institutional THEN HigherCeiling ELSE Ceiling

\* The time since the window opened, with its sign (a mutant).
SinceOpening(at) == (WindowStart(at) - at) \div TicksPerSecond - 1

\* The seconds gone by instead of those left (a mutant).
Elapsed(at) ==
    LET gone == (at - WindowStart(at)) \div TicksPerSecond
    IN IF gone < 1 THEN 1 ELSE gone

\* int() drops the fraction of a second that is left.
RetryAfter(at) ==
    LET left == (WindowStart(at) + WindowTicks - at) \div TicksPerSecond
    IN IF left < 1 THEN 1 ELSE left

Serve(r) ==
    /\ pedido[r].fase = "contado"
    /\ pedido[r].total <= CeilingFor(pedido[r].fonte)
    /\ pedido' = [pedido EXCEPT ![r].fase = "servido"]
    /\ UNCHANGED <<agora, contador>>

RefuseHit(r) ==
    /\ pedido[r].fase = "contado"
    /\ pedido[r].total > CeilingFor(pedido[r].fonte)
    /\ pedido' = [pedido EXCEPT ![r] = [@ EXCEPT !.fase = "recusado",
                                        !.espera = RetryAfter(pedido[r].em)]]
    /\ UNCHANGED <<agora, contador>>

Tick ==
    /\ agora < MaxTime
    /\ agora' = agora + 1
    /\ UNCHANGED <<contador, pedido>>

Next ==
    \/ \E r \in Requests : Arrive(r) \/ CountHit(r) \/ Serve(r) \/ RefuseHit(r)
    \/ Tick

Spec == Init /\ [][Next]_vars

-----------------------------------------------------------------------------
(* Properties.                                                               *)

Of(c, w, fases) == {r \in Requests : /\ pedido[r].fase \in fases /\ pedido[r].cliente = c
                                     /\ WindowStart(pedido[r].em) = w}

\* In no window is a client served more often than its ceiling, and none is
\* refused before that many requests of its own were counted, however its
\* requests overlap, whatever it writes in X-Forwarded-For, whichever proxy they
\* come through and whoever else calls (AC-0001-33, -37, -38).
CeilingIsExact ==
    \A c \in Clients, w \in Windows :
        /\ Cardinality(Of(c, w, {"servido"})) <= CeilingFor(c)
        /\ Of(c, w, {"recusado"}) # {} =>
              Cardinality(Of(c, w, {"contado", "servido", "recusado"})) > CeilingFor(c)

\* A client that comes back when its refusal told it to meets the next window or
\* misses it by less than the second int() may drop, and it is not kept waiting a
\* second longer than the window lasts (Retry-After, "when to try again").
WaitMeetsTheWindow ==
    \A r \in Requests : pedido[r].fase = "recusado" =>
        LET back == pedido[r].em + pedido[r].espera * TicksPerSecond
            end == WindowStart(pedido[r].em) + WindowTicks
        IN end - TicksPerSecond < back /\ back < end + TicksPerSecond

=============================================================================
