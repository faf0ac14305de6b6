--------------------------- MODULE ThrottleProofs ---------------------------
(***************************************************************************)
(* The safety theorems about Throttle, for any ceilings, any window and    *)
(* clock, any number of clients, proxies and requests.                     *)
(***************************************************************************)
EXTENDS Throttle, FiniteSetTheorems, TLAPS

USE SettingsAssumption, AddressAssumption, RequestsAssumption

-----------------------------------------------------------------------------
(* The source of a request is who sent it.                                   *)

\* Behind a trusted proxy, the hop counted is the last one that is no proxy.
LEMMA LastUntrustedHop ==
    ASSUME NEW peer \in Proxies, NEW hops \in Seq(Sources),
           NEW n \in 1..Len(hops), hops[n] \notin Proxies,
           \A j \in 1..Len(hops) : j > n => hops[j] \in Proxies
    PROVE  SourceOf(peer, hops) = hops[n]
<1> DEFINE untrusted == {i \in DOMAIN hops : hops[i] \notin Proxies}
<1>1. n \in untrusted /\ untrusted \subseteq Nat /\ \A j \in untrusted : j <= n
  OBVIOUS
<1>2. \A i \in untrusted : (\A j \in untrusted : j <= i) => i = n
  BY <1>1
<1>3. (CHOOSE i \in untrusted : \A j \in untrusted : j <= i) = n
  BY <1>1, <1>2
<1>4. QED
  BY <1>1, <1>3 DEF SourceOf

\* However a request gets here and whatever its header claimed, it is counted
\* against the client that sent it (source_of).
LEMMA SourceIsClient ==
    ASSUME NEW c \in Clients, NEW a \in Arrivals(c)
    PROVE  SourceOf(a[1], a[2]) = c
<1>0. c \notin Proxies /\ c \in Sources /\ Proxies \subseteq Sources
  BY DEF Sources
<1>1. ASSUME NEW h \in Claimed PROVE h \in Seq(Sources)
  <2>1. CASE h = <<>>
    BY <2>1
  <2>2. CASE \E x \in Sources : h = <<x>>
    BY <2>2
  <2>3. QED
    BY <2>1, <2>2 DEF Claimed
<1>2. ASSUME NEW h \in Claimed, a = <<c, h>> PROVE SourceOf(a[1], a[2]) = c
  BY <1>0, <1>2 DEF SourceOf
<1>3. ASSUME NEW p \in Proxies, NEW h \in Claimed, a = <<p, Append(h, c)>>
      PROVE  SourceOf(a[1], a[2]) = c
  <2> DEFINE hops == Append(h, c)
  <2>1. /\ hops \in Seq(Sources) /\ Len(hops) = Len(h) + 1 /\ Len(h) \in Nat
        /\ hops[Len(h) + 1] = c
    BY <1>0, <1>1
  <2> HIDE DEF hops
  <2>2. SourceOf(p, hops) = hops[Len(h) + 1]
    <3>1. /\ Len(h) + 1 \in 1..Len(hops) /\ hops[Len(h) + 1] \notin Proxies
          /\ \A j \in 1..Len(hops) : j > Len(h) + 1 => hops[j] \in Proxies
      BY <1>0, <2>1
    <3>2. QED
      BY <2>1, <3>1, LastUntrustedHop
  <2>3. QED
    BY <1>3, <2>1, <2>2 DEF hops
<1>4. ASSUME NEW p \in Proxies, NEW q \in Proxies, NEW h \in Claimed,
             a = <<q, Append(Append(h, c), p)>>
      PROVE  SourceOf(a[1], a[2]) = c
  <2> DEFINE hops == Append(Append(h, c), p)
  <2>1. /\ Append(h, c) \in Seq(Sources) /\ Len(Append(h, c)) = Len(h) + 1 /\ Len(h) \in Nat
        /\ Append(h, c)[Len(h) + 1] = c
    BY <1>0, <1>1
  <2>2. /\ hops \in Seq(Sources) /\ Len(hops) = Len(h) + 2
        /\ hops[Len(h) + 1] = c /\ hops[Len(h) + 2] = p
    BY <1>0, <2>1
  <2> HIDE DEF hops
  <2>3. SourceOf(q, hops) = hops[Len(h) + 1]
    <3>1. /\ Len(h) + 1 \in 1..Len(hops) /\ hops[Len(h) + 1] \notin Proxies
          /\ \A j \in 1..Len(hops) : j > Len(h) + 1 => hops[j] \in Proxies
      BY <1>0, <2>1, <2>2
    <3>2. QED
      BY <2>2, <3>1, LastUntrustedHop
  <2>4. QED
    BY <1>4, <2>2, <2>3 DEF hops
<1>5. QED
  BY <1>2, <1>3, <1>4 DEF Arrivals

-----------------------------------------------------------------------------
(* Windows and waits.                                                        *)

LEMMA Modulo ==
    ASSUME NEW a \in Nat, NEW w \in Nat \ {0}
    PROVE  /\ a % w \in 0..(w - 1) /\ a % w <= a
           /\ a \div w \in Nat /\ (a \div w) * w <= a /\ a < (a \div w) * w + w
  OBVIOUS

LEMMA WindowLength == WindowTicks \in Nat \ {0}
  BY DEF WindowTicks

\* An instant is in the window that starts at its WindowStart.
LEMMA WindowHolds ==
    ASSUME NEW at \in 0..MaxTime
    PROVE  /\ WindowStart(at) \in 0..MaxTime
           /\ WindowStart(at) <= at /\ at < WindowStart(at) + WindowTicks
<1>1. at \in Nat /\ WindowTicks \in Nat \ {0}
  BY WindowLength
<1>2. at % WindowTicks \in 0..(WindowTicks - 1) /\ at % WindowTicks <= at
  BY <1>1, Modulo
<1> DEFINE m == at % WindowTicks
<1> HIDE DEF m
<1>3. m \in 0..(WindowTicks - 1) /\ m <= at /\ WindowStart(at) = at - m
  BY <1>2 DEF m, WindowStart
<1>4. QED
  BY <1>1, <1>3

\* What int() drops of the seconds left is less than one of them, and max(1, _)
\* adds less than one.
LEMMA WaitIsTheRest ==
    ASSUME NEW at \in 0..MaxTime
    PROVE  /\ RetryAfter(at) \in Nat
           /\ (WindowStart(at) + WindowTicks) - TicksPerSecond
                  < at + RetryAfter(at) * TicksPerSecond
           /\ at + RetryAfter(at) * TicksPerSecond
                  < WindowStart(at) + WindowTicks + TicksPerSecond
<1> DEFINE rest == WindowStart(at) + WindowTicks - at
           left == rest \div TicksPerSecond
<1>1. rest \in Nat \ {0} /\ WindowStart(at) \in Nat /\ WindowTicks \in Nat
  BY WindowHolds, WindowLength
<1>2. left \in Nat /\ left * TicksPerSecond <= rest
      /\ rest < left * TicksPerSecond + TicksPerSecond
  BY <1>1, Modulo
<1>3. RetryAfter(at) = IF left < 1 THEN 1 ELSE left
  BY DEF RetryAfter
<1> HIDE DEF left
<1>4. CASE left < 1
  <2>1. left = 0 /\ RetryAfter(at) = 1
    BY <1>2, <1>3, <1>4
  <2>2. rest < TicksPerSecond /\ RetryAfter(at) * TicksPerSecond = TicksPerSecond
    BY <1>2, <2>1
  <2>3. QED
    BY <1>1, <2>1, <2>2
<1>5. CASE ~(left < 1)
  <2>1. RetryAfter(at) = left /\ left * TicksPerSecond \in Nat
    BY <1>2, <1>3, <1>5
  <2>2. QED
    BY <1>1, <1>2, <2>1
<1>6. QED
  BY <1>4, <1>5

-----------------------------------------------------------------------------
(* The invariant.                                                            *)

Counted == {"contado", "servido", "recusado"}

\* A request is counted against its client.
Attributed == \A r \in Requests : pedido[r].fonte = pedido[r].cliente

\* The row of a client and a window counts the client's requests of that window.
Tallied ==
    \A c \in Clients, w \in 0..MaxTime :
        contador[<<c, w>>] = Cardinality(Of(c, w, Counted))

\* Each of them got a total of its own, up to the row's.
Numbered ==
    \A r \in Requests : pedido[r].fase \in Counted =>
        /\ pedido[r].total \in 1..contador[Key(r)]
        /\ \A s \in Requests :
              pedido[s].fase \in Counted /\ Key(s) = Key(r) /\ pedido[s].total = pedido[r].total
                  => s = r

\* ... on which it was served or refused.
Decided ==
    \A r \in Requests :
        /\ pedido[r].fase = "servido" => pedido[r].total <= CeilingFor(pedido[r].cliente)
        /\ pedido[r].fase = "recusado" =>
              /\ pedido[r].total > CeilingFor(pedido[r].cliente)
              /\ pedido[r].espera = RetryAfter(pedido[r].em)

IInv == TypeOK /\ Attributed /\ Tallied /\ Numbered /\ Decided

LEMMA Known ==
    ASSUME IInv, NEW r \in Requests
    PROVE  /\ pedido \in [Requests -> Pedido] /\ pedido[r] \in Pedido
           /\ pedido[r].em \in 0..MaxTime /\ pedido[r].cliente \in Clients
           /\ pedido[r].fonte = pedido[r].cliente
           /\ Key(r) = <<pedido[r].cliente, WindowStart(pedido[r].em)>>
           /\ WindowStart(pedido[r].em) \in 0..MaxTime
           /\ Key(r) \in Sources \X (0..MaxTime) /\ contador[Key(r)] \in Nat
  BY WindowHolds DEF IInv, TypeOK, Attributed, Key, Pedido, Sources

LEMMA OfFinite ==
    ASSUME NEW c, NEW w, NEW fases
    PROVE  /\ IsFiniteSet(Of(c, w, fases)) /\ Cardinality(Of(c, w, fases)) \in Nat
           /\ Of(c, w, fases) \subseteq Requests
  BY FS_Subset, FS_CardinalityType DEF Of

-----------------------------------------------------------------------------
(* The steps.                                                                *)

LEMMA InitInv == Init => IInv
<1> SUFFICES ASSUME Init PROVE IInv
  OBVIOUS
<1>1. PICK c \in Clients :
          pedido = [r \in Requests |-> [fase |-> "novo", cliente |-> c, fonte |-> c,
                                        em |-> 0, total |-> 0, espera |-> 0]]
  BY DEF Init
<1>2. TypeOK
  BY <1>1 DEF Init, TypeOK, Pedido, Fase, Sources
<1>3. \A r \in Requests : pedido[r].fase = "novo" /\ pedido[r].fonte = pedido[r].cliente
  BY <1>1
<1>4. ASSUME NEW k \in Clients, NEW w \in 0..MaxTime
      PROVE  contador[<<k, w>>] = Cardinality(Of(k, w, Counted))
  <2>1. Of(k, w, Counted) = {}
    BY <1>3 DEF Of, Counted
  <2>2. contador[<<k, w>>] = 0
    BY DEF Init, Sources
  <2>3. QED
    BY <2>1, <2>2, FS_EmptySet
<1>5. QED
  BY <1>2, <1>3, <1>4 DEF IInv, Attributed, Tallied, Numbered, Decided, Counted

\* A step that counts nothing: one request moves on among those not yet counted
\* or among those counted, and keeps what it was counted for.
LEMMA NothingCounted ==
    ASSUME IInv, TypeOK', contador' = contador, NEW r \in Requests,
           \A s \in Requests : s # r => pedido'[s] = pedido[s],
           pedido'[r].fonte = pedido'[r].cliente,
           \/ pedido[r].fase \notin Counted /\ pedido'[r].fase \notin Counted
           \/ /\ pedido[r].fase \in Counted /\ pedido'[r].fase \in Counted
              /\ pedido'[r].cliente = pedido[r].cliente /\ pedido'[r].em = pedido[r].em
              /\ pedido'[r].total = pedido[r].total,
           pedido'[r].fase = "servido" => pedido'[r].total <= CeilingFor(pedido'[r].cliente),
           pedido'[r].fase = "recusado" => /\ pedido'[r].total > CeilingFor(pedido'[r].cliente)
                                           /\ pedido'[r].espera = RetryAfter(pedido'[r].em)
    PROVE  IInv'
<1>1. Attributed'
  BY DEF IInv, Attributed
<1>2. \A s \in Requests : /\ pedido'[s].fase \in Counted <=> pedido[s].fase \in Counted
                          /\ pedido[s].fase \in Counted =>
                                /\ pedido'[s].cliente = pedido[s].cliente
                                /\ pedido'[s].em = pedido[s].em
                                /\ pedido'[s].total = pedido[s].total
                                /\ Key(s)' = Key(s)
  BY <1>1 DEF IInv, Attributed, Key
<1>3. \A c, w : Of(c, w, Counted)' = Of(c, w, Counted)
  BY <1>2 DEF Of
<1>4. Tallied'
  BY <1>3 DEF IInv, Tallied
<1>5. Numbered'
  BY <1>2 DEF IInv, Numbered
<1>6. Decided'
  BY DEF IInv, Decided
<1>7. QED
  BY <1>1, <1>4, <1>5, <1>6 DEF IInv

\* count_hit gives the request the next total of its client's window.
LEMMA CountHitInv ==
    ASSUME IInv, NEW r \in Requests, CountHit(r)
    PROVE  IInv'
<1> DEFINE c == pedido[r].cliente
           v == WindowStart(pedido[r].em)
           n == contador[Key(r)]
<1>0. /\ pedido[r].fase = "chegou" /\ agora' = agora
      /\ contador' = [contador EXCEPT ![Key(r)] = @ + 1]
      /\ pedido' = [pedido EXCEPT ![r].fase = "contado", ![r].total = n + 1]
  BY DEF CountHit
<1>1. /\ pedido \in [Requests -> Pedido] /\ pedido[r] \in Pedido
      /\ contador \in [Sources \X (0..MaxTime) -> Nat]
      /\ c \in Clients /\ v \in 0..MaxTime /\ Key(r) = <<c, v>>
      /\ Key(r) \in Sources \X (0..MaxTime) /\ n \in Nat
  BY Known DEF IInv, TypeOK
<1>2. pedido'[r] = [pedido[r] EXCEPT !.fase = "contado", !.total = n + 1]
  BY <1>0, <1>1
<1>3. /\ pedido'[r].fase = "contado" /\ pedido'[r].total = n + 1 /\ pedido'[r].cliente = c
      /\ pedido'[r].em = pedido[r].em /\ pedido'[r].fonte = pedido[r].fonte
      /\ pedido'[r] \in Pedido /\ Key(r)' = Key(r)
  <2>1. n + 1 \in Nat /\ "contado" \in Fase
    BY <1>1 DEF Fase
  <2> HIDE DEF n
  <2>2. /\ pedido'[r].fase = "contado" /\ pedido'[r].total = n + 1 /\ pedido'[r].cliente = c
        /\ pedido'[r].em = pedido[r].em /\ pedido'[r].fonte = pedido[r].fonte
        /\ pedido'[r] \in Pedido
    BY <1>1, <1>2, <2>1 DEF Pedido
  <2>3. Key(r)' = Key(r)
    BY <2>2 DEF Key, WindowStart
  <2>4. QED
    BY <2>2, <2>3
<1>4. /\ \A s \in Requests : s # r => pedido'[s] = pedido[s] /\ Key(s)' = Key(s)
      /\ \A k \in Sources \X (0..MaxTime) :
            contador'[k] = IF k = Key(r) THEN n + 1 ELSE contador[k]
  BY <1>0, <1>1 DEF Key
<1>5. TypeOK'
  BY <1>0, <1>1, <1>3, <1>4 DEF IInv, TypeOK
<1>6. Attributed'
  BY <1>3, <1>4 DEF IInv, Attributed
<1>7. Tallied'
  <2> SUFFICES ASSUME NEW k \in Clients, NEW w \in 0..MaxTime
               PROVE  contador'[<<k, w>>] = Cardinality(Of(k, w, Counted)')
    BY DEF Tallied
  <2>1. <<k, w>> \in Sources \X (0..MaxTime) /\ contador[<<k, w>>] = Cardinality(Of(k, w, Counted))
    BY DEF IInv, Tallied, Sources
  <2>2. CASE k = c /\ w = v
    <3>1. Of(k, w, Counted)' = Of(k, w, Counted) \union {r} /\ r \notin Of(k, w, Counted)
      BY <1>0, <1>3, <1>4, <2>2 DEF Of, Counted
    <3>2. Cardinality(Of(k, w, Counted)') = Cardinality(Of(k, w, Counted)) + 1
      BY <3>1, OfFinite, FS_AddElement
    <3>3. QED
      BY <1>1, <1>4, <2>1, <2>2, <3>2
  <2>3. CASE ~(k = c /\ w = v)
    <3>1. Of(k, w, Counted)' = Of(k, w, Counted)
      BY <1>0, <1>3, <1>4, <2>3 DEF Of, Counted
    <3>2. contador'[<<k, w>>] = contador[<<k, w>>]
      BY <1>1, <1>4, <2>1, <2>3
    <3>3. QED
      BY <2>1, <3>1, <3>2
  <2>4. QED
    BY <2>2, <2>3
<1>8. Numbered'
  <2>1. contador'[Key(r)] = n + 1
    BY <1>1, <1>4
  <2>2. \A s \in Requests : s # r /\ pedido[s].fase \in Counted =>
            /\ pedido[s].total \in 1..contador[Key(s)] /\ contador[Key(s)] \in Nat
            /\ contador'[Key(s)] = IF Key(s) = Key(r) THEN n + 1 ELSE contador[Key(s)]
    BY <1>4, Known DEF IInv, Numbered
  <2>3. \A s, t \in Requests :
            /\ s # r /\ t # r /\ pedido[s].fase \in Counted /\ pedido[t].fase \in Counted
            /\ Key(s) = Key(t) /\ pedido[s].total = pedido[t].total
            => s = t
    BY DEF IInv, Numbered
  <2>4. \A s \in Requests : s # r /\ pedido[s].fase \in Counted /\ Key(s) = Key(r)
            => pedido[s].total # n + 1
    BY <1>1, <2>2
  <2>5. QED
    BY <1>1, <1>3, <1>4, <2>1, <2>2, <2>3, <2>4 DEF Numbered
<1>9. Decided'
  BY <1>3, <1>4 DEF IInv, Decided
<1>10. QED
  BY <1>5, <1>6, <1>7, <1>8, <1>9 DEF IInv

LEMMA NextInv == IInv /\ [Next]_vars => IInv'
<1> SUFFICES ASSUME IInv, [Next]_vars PROVE IInv'
  OBVIOUS
<1>0. TypeOK /\ pedido \in [Requests -> Pedido]
  BY DEF IInv, TypeOK
<1>1. ASSUME NEW r \in Requests, Arrive(r) PROVE IInv'
  <2>a. PICK c \in Clients : \E a \in Arrivals(c) :
            /\ pedido[r].fase = "novo"
            /\ pedido' = [pedido EXCEPT ![r] = [@ EXCEPT !.fase = "chegou", !.cliente = c,
                                                !.fonte = SourceOf(a[1], a[2]), !.em = agora]]
            /\ agora' = agora /\ contador' = contador
    BY <1>1 DEF Arrive
  <2>1. PICK a \in Arrivals(c) :
            /\ pedido[r].fase = "novo"
            /\ pedido' = [pedido EXCEPT ![r] = [@ EXCEPT !.fase = "chegou", !.cliente = c,
                                                !.fonte = SourceOf(a[1], a[2]), !.em = agora]]
            /\ agora' = agora /\ contador' = contador
    BY <2>a
  <2>2. SourceOf(a[1], a[2]) = c /\ pedido[r] \in Pedido
    BY <1>0, SourceIsClient
  <2>3. /\ pedido'[r] = [pedido[r] EXCEPT !.fase = "chegou", !.cliente = c, !.fonte = c,
                                          !.em = agora]
        /\ \A s \in Requests : s # r => pedido'[s] = pedido[s]
    BY <1>0, <2>1, <2>2
  <2>4. /\ pedido'[r] \in Pedido /\ pedido'[r].fase = "chegou"
        /\ pedido'[r].fonte = pedido'[r].cliente
    BY <1>0, <2>2, <2>3 DEF TypeOK, Pedido, Fase, Sources
  <2>5. TypeOK'
    BY <1>0, <2>1, <2>4 DEF TypeOK
  <2>6. QED
    BY <2>1, <2>3, <2>4, <2>5, NothingCounted DEF Counted
<1>2. ASSUME NEW r \in Requests, CountHit(r) PROVE IInv'
  BY <1>2, CountHitInv
<1>3. ASSUME NEW r \in Requests, Serve(r) PROVE IInv'
  <2>1. /\ pedido[r].fase = "contado" /\ pedido[r].total <= CeilingFor(pedido[r].fonte)
        /\ pedido' = [pedido EXCEPT ![r].fase = "servido"]
        /\ agora' = agora /\ contador' = contador
        /\ pedido[r] \in Pedido /\ pedido[r].fonte = pedido[r].cliente
    BY <1>3, Known DEF Serve
  <2>2. /\ pedido'[r] = [pedido[r] EXCEPT !.fase = "servido"]
        /\ \A s \in Requests : s # r => pedido'[s] = pedido[s]
    BY <1>0, <2>1
  <2>3. /\ pedido'[r] \in Pedido /\ pedido'[r].fase = "servido"
        /\ pedido'[r].cliente = pedido[r].cliente /\ pedido'[r].fonte = pedido[r].fonte
        /\ pedido'[r].em = pedido[r].em /\ pedido'[r].total = pedido[r].total
    BY <2>1, <2>2 DEF Pedido, Fase
  <2>4. TypeOK'
    BY <1>0, <2>1, <2>3 DEF TypeOK
  <2>5. QED
    BY <2>1, <2>2, <2>3, <2>4, NothingCounted DEF Counted
<1>4. ASSUME NEW r \in Requests, RefuseHit(r) PROVE IInv'
  <2>1. /\ pedido[r].fase = "contado" /\ pedido[r].total > CeilingFor(pedido[r].fonte)
        /\ pedido' = [pedido EXCEPT ![r] = [@ EXCEPT !.fase = "recusado",
                                            !.espera = RetryAfter(pedido[r].em)]]
        /\ agora' = agora /\ contador' = contador
        /\ pedido[r] \in Pedido /\ pedido[r].fonte = pedido[r].cliente
        /\ RetryAfter(pedido[r].em) \in Nat
    BY <1>4, Known, WaitIsTheRest DEF RefuseHit
  <2>2. /\ pedido'[r] = [pedido[r] EXCEPT !.fase = "recusado", !.espera = RetryAfter(pedido[r].em)]
        /\ \A s \in Requests : s # r => pedido'[s] = pedido[s]
    BY <1>0, <2>1
  <2>3. /\ pedido'[r] \in Pedido /\ pedido'[r].fase = "recusado"
        /\ pedido'[r].cliente = pedido[r].cliente /\ pedido'[r].fonte = pedido[r].fonte
        /\ pedido'[r].em = pedido[r].em /\ pedido'[r].total = pedido[r].total
        /\ pedido'[r].espera = RetryAfter(pedido[r].em)
    <3> DEFINE wait == RetryAfter(pedido[r].em)
    <3>1. wait \in Nat /\ "recusado" \in Fase
      BY <2>1 DEF Fase
    <3>2. pedido'[r] = [pedido[r] EXCEPT !.fase = "recusado", !.espera = wait]
      BY <2>2
    <3>3. pedido[r] \in Pedido
      BY <2>1
    <3> HIDE DEF wait
    <3>4. /\ pedido'[r] \in Pedido /\ pedido'[r].fase = "recusado"
          /\ pedido'[r].cliente = pedido[r].cliente /\ pedido'[r].fonte = pedido[r].fonte
          /\ pedido'[r].em = pedido[r].em /\ pedido'[r].total = pedido[r].total
          /\ pedido'[r].espera = wait
      BY <3>1, <3>2, <3>3 DEF Pedido
    <3>5. QED
      BY <3>4 DEF wait
  <2>4. TypeOK'
    BY <1>0, <2>1, <2>3 DEF TypeOK
  <2>5. QED
    BY <2>1, <2>2, <2>3, <2>4, NothingCounted DEF Counted
<1>5. CASE Tick \/ UNCHANGED vars
  <2>1. contador' = contador /\ pedido' = pedido /\ TypeOK'
    BY <1>0, <1>5 DEF Tick, vars, TypeOK
  <2>2. QED
    BY <2>1 DEF IInv, Attributed, Tallied, Numbered, Decided, Of, Key
<1>6. QED
  BY <1>1, <1>2, <1>3, <1>4, <1>5 DEF Next

-----------------------------------------------------------------------------
(* The theorems.                                                             *)

\* The invariant holds in every reachable state.
THEOREM Always == Spec => []IInv
  BY InitInv, NextInv, PTL DEF Spec

\* The types of the clock, the counters and the requests (limite_taxa and the
\* arguments of check).
THEOREM TypeCorrect == Spec => []TypeOK
<1>1. IInv => TypeOK
  BY DEF IInv
<1>2. QED
  BY Always, <1>1, PTL

\* No more requests were served than the ceiling has totals.
LEMMA ServedWithinCeiling ==
    ASSUME IInv, NEW c \in Clients, NEW w \in Windows
    PROVE  Cardinality(Of(c, w, {"servido"})) <= CeilingFor(c)
<1> DEFINE S == Of(c, w, {"servido"})
           T == 1..CeilingFor(c)
           f == [r \in S |-> pedido[r].total]
<1>1. CeilingFor(c) \in Nat
  BY DEF CeilingFor
<1>2. \A r \in S : r \in Requests /\ pedido[r].fase = "servido" /\ pedido[r].cliente = c
                   /\ WindowStart(pedido[r].em) = w /\ Key(r) = <<c, w>>
  BY Known DEF Of
<1>3. \A r \in S : pedido[r].total \in T
  <2> SUFFICES ASSUME NEW r \in S PROVE pedido[r].total \in T
    OBVIOUS
  <2>1. pedido[r].total \in 1..contador[Key(r)] /\ contador[Key(r)] \in Nat
    BY <1>2, Known DEF IInv, Numbered, Counted
  <2>2. pedido[r].total <= CeilingFor(c)
    BY <1>2 DEF IInv, Decided
  <2>3. QED
    BY <1>1, <2>1, <2>2
<1>4. \A r, s \in S : f[r] = f[s] => r = s
  BY <1>2 DEF IInv, Numbered, Counted
<1>5. f \in Injection(S, T)
  BY <1>3, <1>4 DEF Injection, IsInjective
<1>6. IsFiniteSet(T) /\ Cardinality(T) = CeilingFor(c)
  BY <1>1, FS_Interval
<1>7. Cardinality(S) <= Cardinality(T)
  BY <1>5, <1>6, FS_Injection
<1>8. QED
  BY <1>6, <1>7

\* A refused request is one of more than the ceiling.
LEMMA RefusedBeyondCeiling ==
    ASSUME IInv, NEW c \in Clients, NEW w \in Windows, NEW r \in Of(c, w, {"recusado"})
    PROVE  Cardinality(Of(c, w, Counted)) > CeilingFor(c)
<1>1. r \in Requests /\ pedido[r].fase = "recusado" /\ Key(r) = <<c, w>>
  BY Known DEF Of
<1>2. pedido[r].total \in 1..contador[<<c, w>>] /\ contador[<<c, w>>] \in Nat
  BY <1>1, Known DEF IInv, Numbered, Counted
<1>3. pedido[r].total > CeilingFor(c) /\ CeilingFor(c) \in Nat
  BY <1>1 DEF IInv, Decided, Of, CeilingFor
<1>4. contador[<<c, w>>] = Cardinality(Of(c, w, Counted))
  BY DEF IInv, Tallied, Windows
<1>5. QED
  BY <1>2, <1>3, <1>4

\* However many requests overlap, whatever they claim about where they come from
\* and whichever proxies they cross, a client's window serves up to its ceiling
\* and refuses nobody before (throttle.py check, AC-0001-33, -37, -38).
THEOREM ExactCeiling == Spec => []CeilingIsExact
<1>1. IInv => CeilingIsExact
  BY ServedWithinCeiling, RefusedBeyondCeiling DEF CeilingIsExact, Counted
<1>2. QED
  BY Always, <1>1, PTL

\* For every window and every resolution of the clock, the Retry-After of a
\* refusal is off by less than a second (throttle.py: int() and max(1, ...)).
THEOREM WaitIsTheWindows == Spec => []WaitMeetsTheWindow
<1>1. ASSUME IInv, NEW r \in Requests, pedido[r].fase = "recusado",
             NEW back, back = pedido[r].em + pedido[r].espera * TicksPerSecond,
             NEW end, end = WindowStart(pedido[r].em) + WindowTicks
      PROVE  end - TicksPerSecond < back /\ back < end + TicksPerSecond
  <2>1. pedido[r].em \in 0..MaxTime /\ pedido[r].espera = RetryAfter(pedido[r].em)
    BY <1>1, Known DEF IInv, Decided
  <2>2. /\ back = pedido[r].em + RetryAfter(pedido[r].em) * TicksPerSecond
        /\ end = WindowStart(pedido[r].em) + WindowTicks
    BY <1>1, <2>1
  <2>3. /\ (WindowStart(pedido[r].em) + WindowTicks) - TicksPerSecond
               < pedido[r].em + RetryAfter(pedido[r].em) * TicksPerSecond
        /\ pedido[r].em + RetryAfter(pedido[r].em) * TicksPerSecond
               < WindowStart(pedido[r].em) + WindowTicks + TicksPerSecond
    BY <2>1, WaitIsTheRest
  <2>4. QED
    BY <2>2, <2>3, Zenon
<1>2. IInv => WaitMeetsTheWindow
  BY <1>1, Zenon DEF WaitMeetsTheWindow
<1>3. QED
  BY Always, <1>2, PTL

=============================================================================
