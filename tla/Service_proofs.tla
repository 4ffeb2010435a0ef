--------------------------- MODULE Service_proofs ---------------------------
(***************************************************************************)
(* Theorems about Service, for any traits, connections, requests and any   *)
(* number of builder calls.                                                *)
(***************************************************************************)
EXTENDS Service, SequenceTheorems, WellFoundedInduction, TLAPS

\* A set of numbers has a least one: by the well-foundedness of their order,
\* which needs no induction.
LEMMA LeastNumber ==
  ASSUME NEW T \in SUBSET Nat, T # {}
  PROVE  \E m \in T : \A n \in T : m <= n
<1>1. PICK m \in T : \A n \in T : ~ (<<n, m>> \in OpToRel(<, Nat))
  BY NatLessThanWellFounded, WFMin
<1>2. \A n \in T : <<n, m>> \in OpToRel(<, Nat) <=> n < m
  BY DEF OpToRel
<1>3. \A n \in T : ~(n < m)
  BY <1>1, <1>2
<1>4. \A n \in T : m <= n
  BY <1>3
<1> QED BY <1>4

\* Max is what its name says, of a set of positions.
LEMMA MaxOf ==
  ASSUME NEW n \in Nat, NEW I \in SUBSET (1..n), I # {}
  PROVE  Max(I) \in I /\ \A i \in I : i <= Max(I)
<1> DEFINE T == {m \in 0..n : \A i \in I : i <= m}
<1>1. T \in SUBSET Nat /\ n \in T
  OBVIOUS
<1>2. PICK m \in T : \A k \in T : m <= k
  BY <1>1, LeastNumber
<1>3. m \in I
  <2>1. ASSUME m \notin I PROVE FALSE
    <3>0. PICK i \in I : TRUE
      OBVIOUS
    <3>3. i \in 1..n /\ i <= m /\ m \in 0..n
      OBVIOUS
    <3>4. m \in 1..n
      BY <3>3
    <3>1. \A j \in I : j <= m - 1
      BY <1>2, <2>1
    <3>2. m - 1 \in T
      BY <3>4, <3>1
    <3> QED BY <1>2, <3>4, <3>2
  <2> QED BY <2>1
<1>4. m \in I /\ \A i \in I : m >= i
  BY <1>2, <1>3
<1> HIDE DEF T
<1> QED BY <1>4 DEF Max

-----------------------------------------------------------------------------
\* The builder's extensions are the ones that were given, the server's those
\* with what build() added: nothing that comes later writes to either map.
StatsInv ==
  /\ \E S : maps \in Seq(S)
  /\ given \in [Types -> {Absent, OwnStats}]
  /\ "extensions" \in DOMAIN builder /\ builder.extensions \in 1..Len(maps)
  /\ maps[builder.extensions] = given
  /\ server.built =>
       /\ server.extensions \in 1..Len(maps)
       /\ Get(server.extensions, "stats") =
            (IF server.breakers THEN ServerStats ELSE given["stats"])

LEMMA InitStats == Init => StatsInv
<1> SUFFICES ASSUME Init PROVE StatsInv
  OBVIOUS
<1>1. maps \in Seq({EmptyMap}) /\ Len(maps) = 1 /\ maps[1] = EmptyMap
  BY DEF Init
<1>2. EmptyMap \in [Types -> {Absent, OwnStats}]
  BY DEF EmptyMap
<1>3. "extensions" \in DOMAIN builder /\ builder.extensions = 1 /\ given = EmptyMap /\ ~server.built
  BY DEF Init, NoServer
<1> QED BY <1>1, <1>2, <1>3 DEF StatsInv

\* The heap grows by one map at its end, and every map stays as it is.
LEMMA HeapGrows ==
  ASSUME \E S : maps \in Seq(S), NEW m
  PROVE  /\ \E S : Append(maps, m) \in Seq(S)
         /\ Len(maps) \in Nat
         /\ Len(Append(maps, m)) = Len(maps) + 1
         /\ \A i \in 1..Len(maps) : Append(maps, m)[i] = maps[i]
         /\ Append(maps, m)[Len(maps) + 1] = m
<1>1. PICK S : maps \in Seq(S)
  OBVIOUS
<1> DEFINE T == S \cup {m}
<1>2. maps \in Seq(T) /\ m \in T
  BY <1>1
<1> HIDE DEF T
<1> QED BY <1>2, AppendProperties, LenProperties

\* A step that touches neither builder nor server, and at most adds a map.
LEMMA OthersKeepStats ==
  ASSUME StatsInv, UNCHANGED <<builder, given, server>>,
         maps' = maps \/ \E m : maps' = Append(maps, m)
  PROVE  StatsInv'
<1>1. CASE maps' = maps
  BY <1>1 DEF StatsInv, Get
<1>2. CASE \E m : maps' = Append(maps, m)
  <2>1. PICK m : maps' = Append(maps, m)
    BY <1>2
  <2>2. /\ \E S : maps' \in Seq(S)
        /\ Len(maps) \in Nat /\ Len(maps') = Len(maps) + 1
        /\ \A i \in 1..Len(maps) : maps'[i] = maps[i]
    BY <2>1, HeapGrows DEF StatsInv
  <2>3. /\ builder.extensions \in 1..Len(maps')
        /\ maps'[builder.extensions] = given
    BY <2>2 DEF StatsInv
  <2>4. ASSUME server.built
        PROVE  /\ server.extensions \in 1..Len(maps')
               /\ maps'[server.extensions]["stats"] =
                    (IF server.breakers THEN ServerStats ELSE given["stats"])
    BY <2>2, <2>4 DEF StatsInv, Get
  <2> QED BY <2>2, <2>3, <2>4 DEF StatsInv, Get
<1> QED BY <1>1, <1>2

\* The maps that a connection of its own can get, next to the server's.
HookMaps(c) ==
  {EmptyMap}
    \cup {[EmptyMap EXCEPT ![t] = <<"conn", c>>] : t \in {u \in Types : server.hook}}
    \cup {[maps[server.extensions] EXCEPT ![t] = <<"conn", c>>] : t \in {u \in Types : server.hook}}

\* A call of the builder that is about something else.
LEMMA BuilderKeepsStats ==
  ASSUME StatsInv, ~server.built, UNCHANGED <<maps, given, server>>,
         "extensions" \in DOMAIN builder', builder'.extensions = builder.extensions
  PROVE  StatsInv'
  BY DEF StatsInv

\* What a hook returns is the server's map or one more at the end of the heap.
LEMMA HookedMap ==
  ASSUME NEW c \in Conns, NEW e \in {New(maps)} \cup (IF server.hook THEN HookResults(c) ELSE {})
  PROVE  \/ server.hook /\ e.heap = maps /\ e.ext = server.extensions
         \/ /\ \E m \in HookMaps(c) : e.heap = Append(maps, m)
            /\ e.ext = Len(maps) + 1
<1>1. CASE e = New(maps)
  BY <1>1 DEF New, HookMaps
<1>2. CASE server.hook /\ e = [heap |-> maps, ext |-> server.extensions]
  BY <1>2
<1>3. ASSUME server.hook, NEW t \in Types, e = With(maps, server.extensions, t, <<"conn", c>>)
      PROVE  (\E m \in HookMaps(c) : e.heap = Append(maps, m)) /\ e.ext = Len(maps) + 1
  BY <1>3 DEF With, HookMaps
<1>4. ASSUME server.hook, NEW t \in Types,
             e = [heap |-> Append(maps, [EmptyMap EXCEPT ![t] = <<"conn", c>>]),
                  ext |-> Len(maps) + 1]
      PROVE  (\E m \in HookMaps(c) : e.heap = Append(maps, m)) /\ e.ext = Len(maps) + 1
  BY <1>4 DEF HookMaps
<1> QED BY <1>1, <1>2, <1>3, <1>4 DEF HookResults

LEMMA StepStats == StatsInv /\ [Next]_vars => StatsInv'
<1> SUFFICES ASSUME StatsInv, [Next]_vars PROVE StatsInv'
  OBVIOUS
<1>1. CASE UNCHANGED vars
  BY <1>1, OthersKeepStats DEF vars, builderVars
<1>2. CASE WithExtensions
  <2>1. PICK stats \in {Absent, OwnStats} :
          /\ maps' = Append(maps, [EmptyMap EXCEPT !["stats"] = stats])
          /\ given' = [EmptyMap EXCEPT !["stats"] = stats]
    BY <1>2 DEF WithExtensions
  <2>2. /\ \E S : maps' \in Seq(S)
        /\ Len(maps) \in Nat /\ Len(maps') = Len(maps) + 1
        /\ maps'[Len(maps) + 1] = given'
    BY <2>1, HeapGrows DEF StatsInv
  <2>3. builder' = [builder EXCEPT !.extensions = Len(maps')]
    BY <1>2 DEF WithExtensions
  <2>4. given' \in [Types -> {Absent, OwnStats}]
    BY <2>1 DEF EmptyMap
  <2>5. ~server'.built
    BY <1>2 DEF WithExtensions, BuilderCall
  <2> QED BY <2>2, <2>3, <2>4, <2>5 DEF StatsInv
<1>3. CASE WithConnectionHook \/ WithRequestMiddleware \/ WithCircuitBreaker \/ RegisterService
  <2>1. ~server.built /\ UNCHANGED <<maps, given, server>>
    BY <1>3 DEF WithConnectionHook, WithRequestMiddleware, WithCircuitBreaker, RegisterService,
                BuilderCall
  <2>0. "extensions" \in DOMAIN builder
    BY DEF StatsInv
  <2>2. CASE WithConnectionHook
    BY <2>1, <2>0, <2>2, BuilderKeepsStats DEF WithConnectionHook
  <2>3. CASE WithRequestMiddleware
    <3>1. PICK t \in Types : builder' = [builder EXCEPT !.middleware = Append(@, t)]
      BY <2>3 DEF WithRequestMiddleware
    <3> QED BY <2>1, <2>0, <3>1, BuilderKeepsStats
  <2>4. CASE WithCircuitBreaker
    BY <2>1, <2>0, <2>4, BuilderKeepsStats DEF WithCircuitBreaker
  <2>5. CASE RegisterService
    <3>1. PICK s : builder' = [builder EXCEPT !.services = s]
      BY <2>5 DEF RegisterService
    <3> QED BY <2>1, <2>0, <3>1, BuilderKeepsStats
  <2> QED BY <1>3, <2>2, <2>3, <2>4, <2>5
<1>4. CASE Build
  <2>1. /\ server'.extensions = InitializeBreakers.ext /\ server'.breakers = builder.breakers
        /\ maps' = InitializeBreakers.heap /\ UNCHANGED <<builder, given>>
    BY <1>4 DEF Build, builderVars
  <2>2. CASE ~builder.breakers
    <3>1. maps' = maps /\ server'.extensions = builder.extensions
      BY <2>1, <2>2 DEF InitializeBreakers
    <3> QED BY <2>1, <2>2, <3>1 DEF StatsInv, Get
  <2>3. CASE builder.breakers
    <3> DEFINE m == [maps[builder.extensions] EXCEPT !["stats"] = ServerStats]
    <3>1. maps' = Append(maps, m) /\ server'.extensions = Len(maps) + 1
      BY <2>1, <2>3 DEF InitializeBreakers, With
    <3>2. m["stats"] = ServerStats
      BY DEF StatsInv, Types
    <3> HIDE DEF m
    <3>3. /\ \E S : maps' \in Seq(S)
          /\ Len(maps) \in Nat /\ Len(maps') = Len(maps) + 1
          /\ \A i \in 1..Len(maps) : maps'[i] = maps[i]
          /\ maps'[Len(maps) + 1] = m
      BY <3>1, HeapGrows DEF StatsInv
    <3>4. builder'.extensions \in 1..Len(maps') /\ maps'[builder'.extensions] = given'
      BY <2>1, <3>3 DEF StatsInv
    <3> QED BY <2>1, <2>3, <3>1, <3>2, <3>3, <3>4 DEF StatsInv, Get
  <2> QED BY <2>2, <2>3
<1>5. ASSUME NEW c \in Conns, Connect(c) PROVE StatsInv'
  <2>1. maps' = maps \/ \E m : maps' = Append(maps, m)
    BY <1>5, HookedMap DEF Connect
  <2> QED BY <1>5, <2>1, OthersKeepStats DEF Connect, builderVars
<1>6. ASSUME NEW r \in Reqs, NEW c \in Conns, CallStub(r, c) PROVE StatsInv'
  BY <1>6, OthersKeepStats DEF CallStub, builderVars
<1>7. ASSUME NEW r \in Reqs, Route(r) PROVE StatsInv'
  <2>1. maps' = maps \/ \E m : maps' = Append(maps, m)
    BY <1>7 DEF Route, New
  <2> QED BY <1>7, <2>1, OthersKeepStats DEF Route, builderVars
<1>8. ASSUME NEW r \in Reqs, ApplyMiddleware(r) PROVE StatsInv'
  <2>1. \E m : maps' = Append(maps, m)
    BY <1>8 DEF ApplyMiddleware, WithExtension, With
  <2> QED BY <1>8, <2>1, OthersKeepStats DEF ApplyMiddleware, builderVars
<1>9. ASSUME NEW r \in Reqs, RunCallback(r) PROVE StatsInv'
  BY <1>9, OthersKeepStats DEF RunCallback, builderVars
<1> QED BY <1>1, <1>2, <1>3, <1>4, <1>5, <1>6, <1>7, <1>8, <1>9 DEF Next

\* The statistics that handlers find are those of the breakers that admit their
\* calls, in whatever order the builder was told; without breakers the owner's.
THEOREM HandlersFindTheBreakersStats == Spec => []StatsAreOfTheBreakers
<1>1. StatsInv => StatsAreOfTheBreakers
  BY DEF StatsInv, StatsAreOfTheBreakers
<1> QED BY <1>1, InitStats, StepStats, PTL DEF Spec
-----------------------------------------------------------------------------
(* The tiers of extensions *)

Values == {Absent, OwnStats, ServerStats} \cup {<<"conn", c>> : c \in Conns}
            \cup {<<"req", <<r, k>>>> : r \in Reqs, k \in Nat}
Maps == [Types -> Values]

Routed == {"middleware", "called", "refused"}

TiersTyped ==
  /\ maps \in Seq(Maps)
  /\ "middleware" \in DOMAIN builder /\ builder.middleware \in Seq(Types)
  /\ DOMAIN conn = Conns /\ DOMAIN hooked = Conns /\ DOMAIN request = Reqs
  /\ server.built => server.middleware \in Seq(Types)

ServerTier ==
  server.built =>
    /\ server.extensions \in 1..Len(maps)
    /\ \A t \in Types : maps[server.extensions][t] \in {given[t], ServerStats}

ConnTier(c) ==
  conn[c] # 0 =>
    /\ server.built
    /\ conn[c] \in 1..Len(maps)
    /\ maps[conn[c]] = hooked[c]
    /\ ~server.hook => hooked[c] = EmptyMap
    /\ \A t \in Types : hooked[c][t] \in {Absent, maps[server.extensions][t], <<"conn", c>>}

RequestTier(r) ==
  LET q == request[r]
      chain == SubSeq(server.middleware, 1, q.applied) IN
  /\ q.stage # "none" =>
       server.built /\ {"stage", "applied", "extensions"} \subseteq DOMAIN q /\ q.applied \in Nat
  /\ q.stage = "sent" => q.applied = 0
  /\ q.stage \in Routed =>
       /\ q.applied <= Len(server.middleware)
       /\ q.extensions \in 1..Len(maps)
       /\ \A t \in Types :
            maps[q.extensions][t] =
              IF LastAt(chain, t) = 0 THEN Absent ELSE <<"req", <<r, LastAt(chain, t)>>>>

\* Every tier is what its own part of the system has put there: since maps are
\* never written to, what comes later changes none of them.
TierInv ==
  /\ TiersTyped
  /\ ServerTier
  /\ \A c \in Conns : ConnTier(c)
  /\ \A r \in Reqs : RequestTier(r)

LEMMA InitTier == Init => TierInv
<1> SUFFICES ASSUME Init PROVE TierInv
  OBVIOUS
<1>1. EmptyMap \in Maps
  BY DEF EmptyMap, Maps, Values
<1>2. TiersTyped
  BY <1>1 DEF Init, TiersTyped, NoServer
<1>3. ~server.built /\ (\A c \in Conns : conn[c] = 0) /\ \A r \in Reqs : request[r].stage = "none"
  BY DEF Init, NoServer, Idle
<1> QED BY <1>2, <1>3 DEF TierInv, ServerTier, ConnTier, RequestTier, Routed

\* A step keeps the heap or adds a map at its end.
Grows == maps' = maps \/ \E m \in Maps : maps' = Append(maps, m)

LEMMA Grown ==
  ASSUME maps \in Seq(Maps), Grows
  PROVE  /\ maps' \in Seq(Maps)
         /\ Len(maps) \in Nat /\ Len(maps') \in Nat /\ Len(maps) <= Len(maps')
         /\ \A i \in 1..Len(maps) : i \in 1..Len(maps') /\ maps'[i] = maps[i]
<1>1. CASE maps' = maps
  BY <1>1, LenProperties
<1>2. ASSUME NEW m \in Maps, maps' = Append(maps, m) PROVE Len(maps') = Len(maps) + 1
        /\ maps' \in Seq(Maps) /\ Len(maps) \in Nat /\ \A i \in 1..Len(maps) : maps'[i] = maps[i]
  BY <1>2, AppendProperties, LenProperties
<1> QED BY <1>1, <1>2 DEF Grows

LEMMA NewMap ==
  ASSUME maps \in Seq(Maps), NEW m \in Maps, maps' = Append(maps, m)
  PROVE  Grows /\ Len(maps) + 1 \in 1..Len(maps') /\ maps'[Len(maps) + 1] = m
  BY AppendProperties, LenProperties DEF Grows

\* What a growing heap leaves as it is.
LEMMA ServerTierStays ==
  ASSUME maps \in Seq(Maps), Grows, ServerTier, UNCHANGED <<server, given>>
  PROVE  ServerTier'
  BY Grown DEF ServerTier

LEMMA ConnTierStays ==
  ASSUME maps \in Seq(Maps), Grows, ServerTier, NEW c \in Conns, ConnTier(c),
         server' = server, conn'[c] = conn[c], hooked'[c] = hooked[c]
  PROVE  ConnTier(c)'
  BY Grown DEF ConnTier, ServerTier

LEMMA RequestTierStays ==
  ASSUME maps \in Seq(Maps), Grows, NEW r \in Reqs, RequestTier(r),
         server' = server, request'[r] = request[r]
  PROVE  RequestTier(r)'
  BY Grown DEF RequestTier

\* A step of the builder, with no connection and no request yet.
LEMMA BuilderStepsKeepTiers ==
  ASSUME TierInv, ~server.built, TiersTyped', ServerTier', UNCHANGED <<connVars, request>>
  PROVE  TierInv'
<1>1. /\ \A c \in Conns : conn[c] = 0
      /\ \A r \in Reqs : request[r].stage = "none"
  BY DEF TierInv, ConnTier, RequestTier
<1> QED BY <1>1 DEF TierInv, ConnTier, RequestTier, Routed, connVars

\* One more at the end: the last place of a type is the new one or where it was.
LEMMA LastAppend ==
  ASSUME NEW S, NEW q \in Seq(S), NEW x \in S, NEW t
  PROVE  LastAt(Append(q, x), t) = IF x = t THEN Len(q) + 1 ELSE LastAt(q, t)
<1> DEFINE I == {i \in 1..Len(q) : q[i] = t}
           J == {i \in 1..Len(Append(q, x)) : Append(q, x)[i] = t}
<1>0. LastAt(q, t) = (IF I # {} THEN Max(I) ELSE 0) /\ LastAt(Append(q, x), t) = (IF J # {} THEN Max(J) ELSE 0)
  BY DEF LastAt, SelectLastInSeq
<1>1. Len(q) \in Nat /\ J \in SUBSET (1..Len(q)+1) /\ J = I \cup (IF x = t THEN {Len(q)+1} ELSE {})
  BY AppendProperties, LenProperties
<1>2. CASE x = t
  <2>1. Len(q) + 1 \in J /\ \A i \in J : i <= Len(q) + 1
    BY <1>1, <1>2
  <2>2. Max(J) \in J /\ \A i \in J : i <= Max(J)
    <3> HIDE DEF J, I
    <3>1. Len(q) + 1 \in Nat /\ J # {}
      BY <1>1, <2>1
    <3> QED BY <1>1, <3>1, MaxOf
  <2>3. Max(J) = Len(q) + 1
    <3> HIDE DEF J
    <3> QED BY <1>1, <2>1, <2>2
  <2> HIDE DEF J
  <2>4. LastAt(Append(q, x), t) = Len(q) + 1
    BY <1>0, <2>1, <2>3
  <2> QED BY <2>4, <1>2
<1>3. CASE x # t
  <2>1. J = I
    BY <1>1, <1>3
  <2>2. LastAt(Append(q, x), t) = LastAt(q, t)
    <3> HIDE DEF I, J
    <3> QED BY <1>0, <2>1
  <2> QED BY <2>2, <1>3
<1> QED BY <1>2, <1>3

LEMMA ChainStart == ASSUME NEW q, NEW t PROVE LastAt(SubSeq(q, 1, 0), t) = 0
<1>1. SubSeq(q, 1, 0) = << >>
  BY SubSeqEmpty
<1>2. {i \in 1..Len(<< >>) : << >>[i] = t} = {}
  OBVIOUS
<1>3. LastAt(<< >>, t) = 0
  BY <1>2 DEF LastAt, SelectLastInSeq
<1> QED BY <1>1, <1>3

\* The chain of middleware, and its one longer: what ApplyMiddleware relies on.
LEMMA ChainNext ==
  ASSUME NEW S, NEW q \in Seq(S), NEW k \in Nat, k < Len(q), NEW t
  PROVE  LastAt(SubSeq(q, 1, k + 1), t) =
           IF q[k + 1] = t THEN k + 1 ELSE LastAt(SubSeq(q, 1, k), t)
<1>1. Len(q) \in Nat /\ q[k + 1] \in S
  BY LenProperties, ElementOfSeq
<1>2. SubSeq(q, 1, k) \in Seq(S) /\ Len(SubSeq(q, 1, k)) = k
  <2>1. \A i \in 1..k : q[i] \in S
    BY <1>1, ElementOfSeq
  <2> QED BY <2>1, SubSeqProperties
<1>3. SubSeq(q, 1, k + 1) = SubSeq(q, 1, k) \o <<q[k + 1]>>
  BY <1>1, SubSeqRecursiveSecond
<1>4. SubSeq(q, 1, k) \o <<q[k + 1]>> = Append(SubSeq(q, 1, k), q[k + 1])
  BY <1>1, <1>2, AppendIsConcat
<1> DEFINE s == SubSeq(q, 1, k)
           x == q[k + 1]
<1>5. SubSeq(q, 1, k + 1) = Append(s, x) /\ s \in Seq(S) /\ x \in S /\ Len(s) = k
  BY <1>1, <1>2, <1>3, <1>4
<1> HIDE DEF s, x
<1>6. LastAt(Append(s, x), t) = IF x = t THEN k + 1 ELSE LastAt(s, t)
  BY <1>5, LastAppend
<1> QED BY <1>5, <1>6 DEF s, x

LEMMA WithMap ==
  ASSUME maps \in Seq(Maps), NEW e \in 1..Len(maps), NEW t \in Types, NEW v \in Values
  PROVE  LET m == [maps[e] EXCEPT ![t] = v] IN
         m \in Maps /\ With(maps, e, t, v).heap = Append(maps, m)
           /\ With(maps, e, t, v).ext = Len(maps) + 1
<1>1. maps[e] \in Maps
  BY ElementOfSeq
<1> QED BY <1>1 DEF Maps, With

LEMMA EmptyIsMap == EmptyMap \in Maps /\ \A t \in Types : EmptyMap[t] = Absent
  BY DEF EmptyMap, Maps, Values

LEMMA BuilderTier ==
  ASSUME StatsInv, TierInv,
         \/ WithExtensions \/ WithConnectionHook \/ WithRequestMiddleware
         \/ WithCircuitBreaker \/ RegisterService
  PROVE  TierInv'
<1>1. ~server.built /\ UNCHANGED <<server, connVars, request>>
  BY DEF WithExtensions, WithConnectionHook, WithRequestMiddleware, WithCircuitBreaker,
         RegisterService, BuilderCall
<1>2. ServerTier'
  BY <1>1 DEF ServerTier
<1>3. TiersTyped
  BY DEF TierInv
<1>4. maps' \in Seq(Maps) /\ "middleware" \in DOMAIN builder' /\ builder'.middleware \in Seq(Types)
  <2>1. CASE WithExtensions
    <3>1. PICK stats \in {Absent, OwnStats} :
            maps' = Append(maps, [EmptyMap EXCEPT !["stats"] = stats])
      BY <2>1 DEF WithExtensions
    <3>2. [EmptyMap EXCEPT !["stats"] = stats] \in Maps
      <4>1. stats \in Values /\ EmptyMap \in Maps
        BY EmptyIsMap DEF Values
      <4> QED BY <4>1 DEF Maps
    <3>3. maps' \in Seq(Maps)
      BY <1>3, <3>1, <3>2, AppendProperties DEF TiersTyped
    <3>4. \E n : builder' = [builder EXCEPT !.extensions = n]
      BY <2>1 DEF WithExtensions
    <3> QED BY <1>3, <3>3, <3>4 DEF TiersTyped
  <2>2. CASE WithConnectionHook
    BY <1>3, <2>2 DEF WithConnectionHook, TiersTyped
  <2>3. CASE WithRequestMiddleware
    <3>1. PICK t \in Types : builder' = [builder EXCEPT !.middleware = Append(@, t)]
      BY <2>3 DEF WithRequestMiddleware
    <3>2. Append(builder.middleware, t) \in Seq(Types)
      BY <1>3, AppendProperties DEF TiersTyped
    <3> QED BY <1>3, <2>3, <3>1, <3>2 DEF WithRequestMiddleware, TiersTyped
  <2>4. CASE WithCircuitBreaker
    BY <1>3, <2>4 DEF WithCircuitBreaker, TiersTyped
  <2>5. CASE RegisterService
    <3>1. PICK s : builder' = [builder EXCEPT !.services = s]
      BY <2>5 DEF RegisterService
    <3> QED BY <1>3, <2>5, <3>1 DEF RegisterService, TiersTyped
  <2> QED BY <2>1, <2>2, <2>3, <2>4, <2>5
<1>5. TiersTyped'
  BY <1>1, <1>3, <1>4 DEF TiersTyped, connVars
<1> QED BY <1>1, <1>2, <1>5, BuilderStepsKeepTiers

LEMMA BuildTier ==
  ASSUME StatsInv, TierInv, Build
  PROVE  TierInv'
<1>1. /\ ~server.built /\ UNCHANGED <<builder, given, connVars, request>>
      /\ maps' = InitializeBreakers.heap
      /\ server'.extensions = InitializeBreakers.ext /\ server'.middleware = builder.middleware
  BY DEF Build, builderVars
<1>2. maps \in Seq(Maps) /\ builder.extensions \in 1..Len(maps) /\ maps[builder.extensions] = given
  BY DEF TierInv, TiersTyped, StatsInv
<1>3. /\ maps' \in Seq(Maps) /\ server'.extensions \in 1..Len(maps')
      /\ \A t \in Types : maps'[server'.extensions][t] \in {given[t], ServerStats}
  <2>1. CASE ~builder.breakers
    BY <1>1, <1>2, <2>1 DEF InitializeBreakers
  <2>2. CASE builder.breakers
    <3> DEFINE m == [maps[builder.extensions] EXCEPT !["stats"] = ServerStats]
    <3>1. m \in Maps /\ maps' = Append(maps, m) /\ server'.extensions = Len(maps) + 1
      <4>1. "stats" \in Types /\ ServerStats \in Values
        BY DEF Types, Values
      <4> QED BY <1>1, <1>2, <2>2, <4>1, WithMap DEF InitializeBreakers
    <3>2. \A t \in Types : m[t] \in {given[t], ServerStats}
      BY <1>2 DEF StatsInv
    <3> HIDE DEF m
    <3>3. maps' \in Seq(Maps)
      BY <1>2, <3>1, AppendProperties
    <3> QED BY <1>2, <3>1, <3>2, <3>3, NewMap
  <2> QED BY <2>1, <2>2
<1>4. TiersTyped' /\ ServerTier'
  BY <1>1, <1>3 DEF TierInv, TiersTyped, ServerTier, connVars
<1> QED BY <1>1, <1>4, BuilderStepsKeepTiers

LEMMA HookMapsTyped ==
  ASSUME maps[server.extensions] \in Maps, NEW c \in Conns, NEW m \in HookMaps(c)
  PROVE  /\ m \in Maps /\ (~server.hook => m = EmptyMap)
         /\ \A t \in Types : m[t] \in {Absent, maps[server.extensions][t], <<"conn", c>>}
<1>1. <<"conn", c>> \in Values
  BY DEF Values
<1>2. CASE m = EmptyMap
  BY <1>2, EmptyIsMap
<1>3. ASSUME NEW t \in Types, server.hook, m = [EmptyMap EXCEPT ![t] = <<"conn", c>>]
      PROVE  m \in Maps /\ \A u \in Types : m[u] \in {Absent, <<"conn", c>>}
  BY <1>1, <1>3, EmptyIsMap DEF Maps
<1>4. ASSUME NEW t \in Types, server.hook,
             m = [maps[server.extensions] EXCEPT ![t] = <<"conn", c>>]
      PROVE  m \in Maps /\ \A u \in Types : m[u] \in {maps[server.extensions][u], <<"conn", c>>}
  BY <1>1, <1>4 DEF Maps
<1> QED BY <1>2, <1>3, <1>4 DEF HookMaps

LEMMA ConnectTier ==
  ASSUME TierInv, NEW c \in Conns, Connect(c)
  PROVE  TierInv'
<1>1. /\ maps \in Seq(Maps) /\ server.extensions \in 1..Len(maps) /\ server.built /\ conn[c] = 0
      /\ maps[server.extensions] \in Maps
  BY ElementOfSeq DEF Connect, TierInv, TiersTyped, ServerTier
<1>2. UNCHANGED <<builder, given, server, request>>
  BY DEF Connect, builderVars
<1>3. PICK e \in {New(maps)} \cup (IF server.hook THEN HookResults(c) ELSE {}) :
        /\ maps' = e.heap
        /\ conn' = [conn EXCEPT ![c] = e.ext]
        /\ hooked' = [hooked EXCEPT ![c] = e.heap[e.ext]]
  BY DEF Connect
<1>4. conn'[c] = e.ext /\ hooked'[c] = maps'[e.ext]
  BY <1>3 DEF TierInv, TiersTyped
<1>5. /\ Grows /\ e.ext \in 1..Len(maps') /\ (~server.hook => maps'[e.ext] = EmptyMap)
      /\ \A t \in Types : maps'[e.ext][t] \in {Absent, maps[server.extensions][t], <<"conn", c>>}
  <2>1. CASE server.hook /\ e.heap = maps /\ e.ext = server.extensions
    BY <1>1, <1>3, <2>1 DEF Grows
  <2>2. CASE e.ext = Len(maps) + 1 /\ \E m \in HookMaps(c) : e.heap = Append(maps, m)
    <3>1. PICK m \in HookMaps(c) : maps' = Append(maps, m)
      BY <1>3, <2>2
    <3>2. /\ m \in Maps /\ (~server.hook => m = EmptyMap)
          /\ \A t \in Types : m[t] \in {Absent, maps[server.extensions][t], <<"conn", c>>}
      BY <1>1, HookMapsTyped
    <3>3. Grows /\ Len(maps) + 1 \in 1..Len(maps') /\ maps'[Len(maps) + 1] = m
      BY <1>1, <3>1, <3>2, NewMap
    <3> QED BY <2>2, <3>2, <3>3
  <2> QED BY <1>3, <2>1, <2>2, HookedMap
<1>6. maps'[server.extensions] = maps[server.extensions]
  BY <1>1, <1>5, Grown
<1>7. TiersTyped'
  BY <1>1, <1>2, <1>3, <1>5, Grown DEF TierInv, TiersTyped
<1>8. ServerTier'
  BY <1>1, <1>2, <1>5, ServerTierStays DEF TierInv
<1>9. ASSUME NEW d \in Conns PROVE ConnTier(d)'
  <2>1. CASE d = c
    BY <1>1, <1>2, <1>4, <1>5, <1>6, <2>1 DEF ConnTier
  <2>2. CASE d # c
    <3>1. conn'[d] = conn[d] /\ hooked'[d] = hooked[d]
      BY <1>3, <2>2 DEF TierInv, TiersTyped
    <3> QED BY <1>1, <1>2, <1>5, <3>1, ConnTierStays DEF TierInv
  <2> QED BY <2>1, <2>2
<1>10. \A r \in Reqs : RequestTier(r)'
  BY <1>1, <1>2, <1>5, RequestTierStays DEF TierInv
<1> QED BY <1>7, <1>8, <1>9, <1>10 DEF TierInv

\* A step of a request: of the others, and of the other tiers, nothing changes.
LEMMA RequestStepsKeepTiers ==
  ASSUME TierInv, Grows, UNCHANGED <<builder, given, server, connVars>>,
         NEW r \in Reqs, NEW q, request' = [request EXCEPT ![r] = q], RequestTier(r)'
  PROVE  TierInv'
<1>1. maps \in Seq(Maps) /\ UNCHANGED <<conn, hooked>>
  BY DEF TierInv, TiersTyped, connVars
<1>2. TiersTyped'
  BY <1>1, Grown DEF TierInv, TiersTyped
<1>3. ServerTier' /\ \A c \in Conns : ConnTier(c)'
  BY <1>1, ServerTierStays, ConnTierStays DEF TierInv
<1>4. ASSUME NEW s \in Reqs PROVE RequestTier(s)'
  <2>1. s # r => request'[s] = request[s]
    BY DEF TierInv, TiersTyped
  <2> QED BY <1>1, <2>1, RequestTierStays DEF TierInv
<1> QED BY <1>2, <1>3, <1>4 DEF TierInv

LEMMA SentTier ==
  ASSUME TierInv, NEW r \in Reqs, NEW c \in Conns, CallStub(r, c)
  PROVE  TierInv'
<1>1. server.built /\ maps' = maps /\ UNCHANGED <<builder, given, server, connVars>>
  BY DEF CallStub, TierInv, ConnTier, builderVars
<1>2. PICK q : /\ request' = [request EXCEPT ![r] = q]
               /\ q.stage = "sent" /\ q.applied = 0
               /\ {"stage", "applied", "extensions"} \subseteq DOMAIN q
  <2>1. PICK t, d : request' = [request EXCEPT ![r] = NewRequest(r, c, t, d)]
    BY DEF CallStub
  <2> DEFINE new == NewRequest(r, c, t, d)
  <2>2. new.stage = "sent" /\ new.applied = 0
    BY DEF NewRequest
  <2>3. {"stage", "applied", "extensions"} \subseteq DOMAIN new
    BY DEF NewRequest
  <2>4. request' = [request EXCEPT ![r] = new]
    BY <2>1
  <2> HIDE DEF new
  <2> QED BY <2>2, <2>3, <2>4
<1>3. request'[r] = q
  BY <1>2 DEF TierInv, TiersTyped
<1>4. RequestTier(r)'
  BY <1>1, <1>2, <1>3 DEF RequestTier, Routed
<1> QED BY <1>1, <1>2, <1>4, RequestStepsKeepTiers DEF Grows

LEMMA EndTier ==
  ASSUME TierInv, NEW r \in Reqs, NEW q, UNCHANGED <<maps, builder, given, server, connVars>>,
         request' = [request EXCEPT ![r] = q],
         {"stage", "applied", "extensions"} \subseteq DOMAIN q,
         q.applied = request[r].applied, q.extensions = request[r].extensions,
         request[r].stage # "none", q.stage \notin {"none", "sent"},
         q.stage \in Routed => request[r].stage \in Routed
  PROVE  TierInv'
<1>1. request'[r] = q
  BY DEF TierInv, TiersTyped
<1>2. RequestTier(r)'
  BY <1>1 DEF TierInv, RequestTier
<1> QED BY <1>2, RequestStepsKeepTiers DEF Grows

LEMMA RouteTier ==
  ASSUME TierInv, NEW r \in Reqs, Route(r)
  PROVE  TierInv'
<1>1. /\ request[r].stage = "sent" /\ RequestTier(r) /\ maps \in Seq(Maps) /\ r \in DOMAIN request
      /\ UNCHANGED <<builder, given, server, connVars>>
  BY DEF Route, TierInv, TiersTyped, builderVars
<1>2. CASE ~Known(request[r])
  <2>1. request' = [request EXCEPT ![r] = [request[r] EXCEPT !.stage = "not found"]] /\ maps' = maps
    BY <1>2 DEF Route
  <2> QED BY <1>1, <2>1, EndTier DEF RequestTier, Routed
<1>3. CASE Known(request[r])
  <2> DEFINE q == NewContext(request[r])
  <2>1. maps' = Append(maps, EmptyMap) /\ request' = [request EXCEPT ![r] = q]
    BY <1>3 DEF Route, New
  <2>2. q.stage = "middleware" /\ q.applied = 0 /\ q.extensions = Len(maps) + 1
          /\ {"stage", "applied", "extensions"} \subseteq DOMAIN q
    BY <1>1 DEF NewContext, RequestTier, New
  <2> HIDE DEF q
  <2>3. Grows /\ Len(maps) + 1 \in 1..Len(maps') /\ maps'[Len(maps) + 1] = EmptyMap
    BY <1>1, <2>1, EmptyIsMap, NewMap
  <2>4. server.built /\ server.middleware \in Seq(Types) /\ request'[r] = q
    BY <1>1, <2>1 DEF TierInv, TiersTyped, RequestTier
  <2>5. RequestTier(r)'
    BY <1>1, <2>2, <2>3, <2>4, EmptyIsMap, ChainStart, LenProperties DEF RequestTier
  <2> QED BY <1>1, <2>1, <2>3, <2>5, RequestStepsKeepTiers
<1> QED BY <1>2, <1>3

LEMMA MiddlewareTier ==
  ASSUME TierInv, NEW r \in Reqs, ApplyMiddleware(r)
  PROVE  TierInv'
<1> DEFINE k == request[r].applied + 1
           e == request[r].extensions
           t == server.middleware[k]
           m == [maps[e] EXCEPT ![t] = <<"req", <<r, k>>>>]
           q == [request[r] EXCEPT !.applied = k, !.extensions = Len(maps) + 1]
<1>1. /\ request[r].stage = "middleware" /\ RequestTier(r) /\ maps \in Seq(Maps)
      /\ r \in DOMAIN request /\ request[r].applied < Len(server.middleware)
      /\ UNCHANGED <<builder, given, server, connVars>>
  BY DEF ApplyMiddleware, TierInv, TiersTyped, builderVars
<1>2. /\ server.built /\ server.middleware \in Seq(Types)
      /\ Len(server.middleware) \in Nat
      /\ request[r].applied \in Nat /\ k \in 1..Len(server.middleware) /\ t \in Types
      /\ e \in 1..Len(maps) /\ {"stage", "applied", "extensions"} \subseteq DOMAIN request[r]
  <2>1. server.built /\ server.middleware \in Seq(Types)
    BY <1>1 DEF RequestTier, TierInv, TiersTyped
  <2>2. Len(server.middleware) \in Nat
    BY <2>1, LenProperties
  <2>3. request[r].applied \in Nat /\ k \in 1..Len(server.middleware)
    BY <1>1, <2>2 DEF RequestTier
  <2> QED BY <1>1, <2>1, <2>2, <2>3, ElementOfSeq DEF RequestTier, Routed
<1>3. <<"req", <<r, k>>>> \in Values /\ <<"req", <<r, k>>>> # Absent
  BY <1>2 DEF Values, Absent
<1>4. m \in Maps /\ maps' = Append(maps, m) /\ request' = [request EXCEPT ![r] = q]
  BY <1>1, <1>2, <1>3, WithMap DEF ApplyMiddleware, WithExtension
<1>5. \A u \in Types : m[u] = IF u = t THEN <<"req", <<r, k>>>> ELSE maps[e][u]
  <2>1. maps[e] \in Maps
    BY <1>1, <1>2, ElementOfSeq
  <2> QED BY <2>1 DEF Maps
<1>6. /\ q.stage = "middleware" /\ q.applied = k /\ q.extensions = Len(maps) + 1
      /\ {"stage", "applied", "extensions"} \subseteq DOMAIN q
  BY <1>1, <1>2
<1> HIDE DEF m, q
<1>7. Grows /\ Len(maps) + 1 \in 1..Len(maps') /\ maps'[Len(maps) + 1] = m
  BY <1>1, <1>4, NewMap
<1>8. \A u \in Types :
        LastAt(SubSeq(server.middleware, 1, k), u) =
          IF t = u THEN k ELSE LastAt(SubSeq(server.middleware, 1, request[r].applied), u)
  <2> DEFINE j == request[r].applied
  <2>1. j \in Nat /\ j < Len(server.middleware) /\ k = j + 1
    BY <1>1, <1>2
  <2> HIDE DEF j, k
  <2>2. ASSUME NEW u
        PROVE  LastAt(SubSeq(server.middleware, 1, j + 1), u) =
                 IF server.middleware[j + 1] = u THEN j + 1
                 ELSE LastAt(SubSeq(server.middleware, 1, j), u)
    <3>1. server.middleware \in Seq(Types) /\ j \in Nat /\ j < Len(server.middleware)
      BY <1>2, <2>1
    <3> QED BY <3>1, ChainNext
  <2> QED BY <2>1, <2>2 DEF j
<1>9. \A u \in Types :
        m[u] = IF LastAt(SubSeq(server.middleware, 1, k), u) = 0 THEN Absent
               ELSE <<"req", <<r, LastAt(SubSeq(server.middleware, 1, k), u)>>>>
  <2>1. \A u \in Types :
          maps[e][u] = IF LastAt(SubSeq(server.middleware, 1, request[r].applied), u) = 0
                       THEN Absent
                       ELSE <<"req", <<r, LastAt(SubSeq(server.middleware, 1, request[r].applied), u)>>>>
    BY <1>1 DEF RequestTier, Routed
  <2>2. k # 0
    BY <1>2
  <2> HIDE DEF k, t
  <2> QED BY <1>5, <1>8, <2>1, <2>2
<1>10. RequestTier(r)'
  <2>1. request'[r] = q
    BY <1>1, <1>4
  <2> HIDE DEF k, t, e
  <2>2. k \in Nat /\ k <= Len(server.middleware)
    BY <1>2
  <2> QED BY <1>1, <1>2, <1>6, <1>7, <1>9, <2>1, <2>2 DEF RequestTier
<1> QED BY <1>1, <1>4, <1>7, <1>10, RequestStepsKeepTiers

LEMMA StepTier == StatsInv /\ TierInv /\ [Next]_vars => TierInv'
<1> SUFFICES ASSUME StatsInv, TierInv, [Next]_vars PROVE TierInv'
  OBVIOUS
<1>1. CASE UNCHANGED vars
  BY <1>1 DEF vars, builderVars, connVars, TierInv, TiersTyped, ServerTier, ConnTier, RequestTier
<1>2. CASE WithExtensions \/ WithConnectionHook \/ WithRequestMiddleware
           \/ WithCircuitBreaker \/ RegisterService
  BY <1>2, BuilderTier
<1>3. CASE Build
  BY <1>3, BuildTier
<1>4. ASSUME NEW c \in Conns, Connect(c) PROVE TierInv'
  BY <1>4, ConnectTier
<1>5. ASSUME NEW r \in Reqs, NEW c \in Conns, CallStub(r, c) PROVE TierInv'
  BY <1>5, SentTier
<1>6. ASSUME NEW r \in Reqs, Route(r) PROVE TierInv'
  BY <1>6, RouteTier
<1>7. ASSUME NEW r \in Reqs, ApplyMiddleware(r) PROVE TierInv'
  BY <1>7, MiddlewareTier
<1>8. ASSUME NEW r \in Reqs, RunCallback(r) PROVE TierInv'
  <2>1. /\ request[r].stage = "middleware" /\ RequestTier(r)
        /\ UNCHANGED <<maps, builder, given, server, connVars>>
    BY <1>8 DEF RunCallback, TierInv, builderVars
  <2>2. \/ \E x : request' = [request EXCEPT ![r].stage = "called", ![r].got = x]
        \/ request' = [request EXCEPT ![r].stage = "refused"]
    BY <1>8 DEF RunCallback
  <2>3. r \in DOMAIN request /\ {"stage", "applied", "extensions"} \subseteq DOMAIN request[r]
    BY <2>1 DEF TierInv, TiersTyped, RequestTier
  <2>4. ASSUME NEW x, request' = [request EXCEPT ![r].stage = "called", ![r].got = x]
        PROVE  TierInv'
    <3> DEFINE q == [request[r] EXCEPT !.stage = "called", !.got = x]
    <3>1. request' = [request EXCEPT ![r] = q] /\ q.stage = "called"
            /\ {"stage", "applied", "extensions"} \subseteq DOMAIN q
            /\ q.applied = request[r].applied /\ q.extensions = request[r].extensions
      BY <2>3, <2>4
    <3> HIDE DEF q
    <3> QED BY <2>1, <3>1, EndTier DEF Routed
  <2>5. ASSUME request' = [request EXCEPT ![r].stage = "refused"] PROVE TierInv'
    <3> DEFINE q == [request[r] EXCEPT !.stage = "refused"]
    <3>1. request' = [request EXCEPT ![r] = q] /\ q.stage = "refused"
            /\ {"stage", "applied", "extensions"} \subseteq DOMAIN q
            /\ q.applied = request[r].applied /\ q.extensions = request[r].extensions
      BY <2>3, <2>5
    <3> HIDE DEF q
    <3> QED BY <2>1, <3>1, EndTier DEF Routed
  <2> QED BY <2>2, <2>4, <2>5
<1> QED BY <1>1, <1>2, <1>3, <1>4, <1>5, <1>6, <1>7, <1>8 DEF Next

\* Values stay in their tier, however the maps were shared: the server's stay as
\* they were built, a connection's are what its hook returned, whatever that was
\* made from, and what middleware adds is on its own request only, the later in
\* the place of the earlier.
THEOREM TiersStayApart == Spec => []ExtensionsKeepTheirTier
<1>1. TierInv => ExtensionsKeepTheirTier
  <2> SUFFICES ASSUME TierInv PROVE ExtensionsKeepTheirTier
    OBVIOUS
  <2>1. server.built => \A t \in Types : Get(server.extensions, t) \in {given[t], ServerStats}
    BY DEF TierInv, ServerTier, Get
  <2>2. ASSUME NEW c \in Conns, conn[c] # 0
        PROVE  /\ maps[conn[c]] = hooked[c]
               /\ ~server.hook => hooked[c] = EmptyMap
               /\ \A t \in Types :
                    Get(conn[c], t) \in {Absent, Get(server.extensions, t), <<"conn", c>>}
    BY <2>2 DEF TierInv, ConnTier, Get
  <2>3. ASSUME NEW r \in Reqs, request[r].stage \in {"middleware", "called", "refused"},
               NEW t \in Types
        PROVE  LET chain == SubSeq(server.middleware, 1, request[r].applied) IN
               Get(request[r].extensions, t) =
                 IF LastAt(chain, t) = 0 THEN Absent ELSE <<"req", <<r, LastAt(chain, t)>>>>
    BY <2>3 DEF TierInv, RequestTier, Routed, Get
  <2> QED BY <2>1, <2>2, <2>3 DEF ExtensionsKeepTheirTier
<1>2. StatsInv /\ TierInv /\ [Next]_vars => (StatsInv /\ TierInv)'
  BY StepStats, StepTier
<1> QED BY <1>1, <1>2, InitStats, InitTier, PTL DEF Spec
-----------------------------------------------------------------------------
Kinds == {"method", "subscription", "notification", "stream"}

\* The two halves of the macro agree: whatever a stub of any kind encodes, the
\* registration of that kind takes out of the body, accepts and decodes to the
\* arguments the stub was given, however many there are.
THEOREM EncodingsAgree ==
  ASSUME NEW kind \in Kinds,
         NEW R, NEW S, NEW params \in Seq(R), NEW arguments \in Seq(S),
         Len(params) = Len(arguments)
  PROVE  /\ ExpectsBody(kind, BodyOf(kind, arguments))
         /\ Decodes(params, BodyData(kind, BodyOf(kind, arguments)))
         /\ Deserialize(params, BodyData(kind, BodyOf(kind, arguments))) = arguments
<1> DEFINE body == BodyOf(kind, arguments)
           data == BodyData(kind, body)
<1>1. ExpectsBody(kind, body) /\ data = Serialize(arguments)
  <2>1. CASE arguments = << >>
    <3>1. SerializeOptional(arguments) = << >> /\ Serialize(arguments) = NoBytes
      BY <2>1 DEF SerializeOptional, Serialize
    <3>2. UnwrapOrDefault(<< >>) = NoBytes
      BY DEF UnwrapOrDefault
    <3> QED BY <3>1, <3>2 DEF BodyOf, BodyData, ExpectsBody, Kinds
  <2>2. CASE arguments # << >>
    <3>1. SerializeOptional(arguments) = <<Serialize(arguments)>>
      BY <2>2 DEF SerializeOptional
    <3>2. UnwrapOrDefault(<<Serialize(arguments)>>) = Serialize(arguments)
      BY DEF UnwrapOrDefault
    <3>3. <<Serialize(arguments)>> # << >>
      OBVIOUS
    <3> HIDE DEF body
    <3>4. body.data = Serialize(arguments) /\ (kind # "notification" /\ kind # "stream" => body.body = "Rpc")
          /\ (kind = "notification" => body.body = "Notify") /\ (kind = "stream" => body.body = "Stream")
      BY <3>1, <3>2, <3>3 DEF BodyOf, body, Kinds
    <3> QED BY <3>4 DEF BodyData, ExpectsBody, Kinds
  <2> QED BY <2>1, <2>2
<1>2. Decodes(params, Serialize(arguments)) /\ Deserialize(params, Serialize(arguments)) = arguments
  <2>1. Len(arguments) \in Nat /\ (arguments = << >> <=> Len(arguments) = 0)
        /\ (params = << >> <=> Len(params) = 0)
    OBVIOUS
  <2>2. CASE Len(arguments) = 0
    BY <2>1, <2>2 DEF Decodes, Deserialize
  <2>3. CASE Len(arguments) # 0
    <3>1. Serialize(arguments) = [json |-> IF Len(arguments) = 1 THEN "value" ELSE "tuple",
                                  of |-> arguments]
      BY <2>1, <2>3 DEF Serialize
    <3> QED BY <2>1, <2>3, <3>1 DEF Decodes, Deserialize
  <2> QED BY <2>2, <2>3
<1> QED BY <1>1, <1>2
-----------------------------------------------------------------------------
(* From the stub to the method *)

LEMMA MinOf ==
  ASSUME NEW I \in SUBSET Nat, I # {}
  PROVE  Min(I) \in I
<1>1. \E m \in I : \A n \in I : m <= n
  BY LeastNumber
<1> QED BY <1>1 DEF Min

LEMMA KindIsOne == ASSUME NEW f, KindOf(f) # None PROVE KindOf(f) \in Kinds
<1> DEFINE I == {i \in 1..Len(KindOrder) : FirstAttr(f.attrs, KindOrder[i]) # 0}
           at == IF I # {} THEN Min(I) ELSE 0
<1>1. KindOf(f) = IF at = 0 THEN None ELSE KindOrder[at]
  BY DEF KindOf, SelectInSeq
<1>2. at # 0 => at \in I
  <2>1. I \in SUBSET Nat
    OBVIOUS
  <2> HIDE DEF I
  <2> QED BY <2>1, MinOf
<1> HIDE DEF at
<1>3. at # 0 => at \in 1..4
  BY <1>2 DEF KindOrder
<1> QED BY <1>1, <1>3 DEF KindOrder, Kinds

\* What an expanded trait looks like: its functions in its items' order, each of
\* one of the four kinds and with a sequence of parameters.
LEMMA Expanded ==
  ASSUME NEW t \in Expanding
  PROVE  /\ \E n \in Nat : DOMAIN t.items = 1..n /\ DOMAIN Description[t].functions = 1..n
         /\ \A i \in DOMAIN t.items :
              /\ Description[t].functions[i].kind \in Kinds
              /\ Description[t].functions[i].params \in Seq(STRING)
<1>1. t \in Traits /\ Description[t] = FromItem(t) /\ FromItem(t).accepted
  BY DEF Expanding, Description, Expands
<1>2. /\ FromItem(t).functions = [i \in DOMAIN t.items |-> Describe(t.items[i])]
      /\ \A i \in DOMAIN t.items : Describable(t.items[i])
  BY <1>1 DEF FromItem, Rejected
<1>3. PICK n \in Nat : DOMAIN t.items = 1..n
  <2>1. t.items \in Seq(Range(t.items))
    BY <1>1, TraitsAssumption
  <2> HIDE DEF Range
  <2> QED BY <2>1, LenProperties
<1>4. ASSUME NEW i \in DOMAIN t.items
      PROVE  /\ Description[t].functions[i].kind \in Kinds
             /\ Description[t].functions[i].params \in Seq(STRING)
  <2>1. Describable(t.items[i]) /\ Description[t].functions[i] = Describe(t.items[i])
    BY <1>1, <1>2
  <2>2. KindOf(t.items[i]) \in Kinds /\ t.items[i].params \in Seq(STRING)
    BY <1>1, <2>1, KindIsOne, TraitsAssumption DEF Describable
  <2>3. Describe(t.items[i]).kind = KindOf(t.items[i]) /\ Describe(t.items[i]).params = t.items[i].params
    BY DEF Describe
  <2> QED BY <2>1, <2>2, <2>3
<1>5. DOMAIN Description[t].functions = 1..n
  BY <1>1, <1>2, <1>3
<1> QED BY <1>3, <1>4, <1>5

LEMMA Ranks == ASSUME NEW kind \in Kinds PROVE Rank(kind) \in 1..4 /\ KindOrder[Rank(kind)] = kind
<1>1. \E k \in 1..4 : KindOrder[k] = kind
  <2>1. KindOrder[1] = "method" /\ KindOrder[2] = "subscription"
          /\ KindOrder[3] = "notification" /\ KindOrder[4] = "stream"
    BY DEF KindOrder
  <2> QED BY <2>1 DEF Kinds
<1>2. DOMAIN KindOrder = 1..4
  BY DEF KindOrder
<1> QED BY <1>1, <1>2 DEF Rank

\* One of the functions with a name is registered after all the others: of those
\* of the last kind, the last.
LEMMA OneIsLast ==
  ASSUME NEW n \in Nat, NEW fs, \A i \in 1..n : fs[i].kind \in Kinds,
         NEW named \in SUBSET (1..n), named # {}
  PROVE  \E i \in named : \A j \in named \ {i} : RegisteredBefore(fs[j], j, fs[i], i)
<1> DEFINE R == {Rank(fs[i].kind) : i \in named}
           last == Max(R)
           I == {i \in named : Rank(fs[i].kind) = last}
           at == Max(I)
<1>1. last \in R /\ \A k \in R : k <= last
  <2>1. R \in SUBSET (1..4) /\ R # {}
    BY Ranks
  <2> HIDE DEF R
  <2> QED BY <2>1, MaxOf
<1> HIDE DEF last
<1>2. at \in I /\ \A i \in I : i <= at
  <2>1. I \in SUBSET (1..n) /\ I # {}
    BY <1>1
  <2> HIDE DEF I
  <2> QED BY <2>1, MaxOf
<1> HIDE DEF at
<1>3. ASSUME NEW j \in named \ {at} PROVE RegisteredBefore(fs[j], j, fs[at], at)
  <2>1. Rank(fs[j].kind) \in 1..4 /\ KindOrder[Rank(fs[j].kind)] = fs[j].kind
          /\ Rank(fs[j].kind) <= last
    BY <1>1, Ranks
  <2>2. Rank(fs[at].kind) = last /\ KindOrder[last] = fs[at].kind /\ at \in 1..n /\ last \in 1..4
    BY <1>2, Ranks
  <2>3. CASE Rank(fs[j].kind) = last
    <3>1. j \in I /\ j \in 1..n
      BY <2>3
    <3>2. j <= at /\ j # at
      BY <1>2, <3>1
    <3>3. fs[j].kind = fs[at].kind
      BY <2>1, <2>2, <2>3
    <3> QED BY <2>2, <3>1, <3>2, <3>3 DEF RegisteredBefore
  <2>4. CASE Rank(fs[j].kind) # last
    <3>1. Rank(fs[j].kind) < Rank(fs[at].kind)
      BY <2>1, <2>2, <2>4
    <3> QED BY <3>1 DEF RegisteredBefore
  <2> QED BY <2>3, <2>4
<1> QED BY <1>2, <1>3

\* A resource is a function of the trait with its name.
LEMMA ResourceOf ==
  ASSUME NEW n \in Nat, NEW fs, DOMAIN fs = 1..n, \A i \in 1..n : fs[i].kind \in Kinds
  PROVE  /\ \A i \in 1..n : fs[i].rpc_name \in DOMAIN Resources(fs)
         /\ \A name \in DOMAIN Resources(fs) :
              \E i \in 1..n : Resources(fs)[name] = fs[i] /\ fs[i].rpc_name = name
<1>1. DOMAIN Resources(fs) = {fs[i].rpc_name : i \in 1..n}
  BY DEF Resources
<1>2. ASSUME NEW name \in DOMAIN Resources(fs)
      PROVE  \E i \in 1..n : Resources(fs)[name] = fs[i] /\ fs[i].rpc_name = name
  <2> DEFINE named == {i \in 1..n : fs[i].rpc_name = name}
             at == CHOOSE i \in named : \A j \in named \ {i} : RegisteredBefore(fs[j], j, fs[i], i)
  <2>1. named \in SUBSET (1..n) /\ named # {}
    BY <1>1
  <2>2. Resources(fs)[name] = fs[at]
    BY <1>1, <1>2 DEF Resources
  <2>3. at \in named
    <3> HIDE DEF named
    <3>1. \E i \in named : \A j \in named \ {i} : RegisteredBefore(fs[j], j, fs[i], i)
      BY <2>1, OneIsLast
    <3> QED BY <3>1
  <2> HIDE DEF at
  <2> QED BY <2>2, <2>3
<1>3. \A i \in 1..n : fs[i].rpc_name \in DOMAIN Resources(fs)
  BY <1>1
<1> QED BY <1>2, <1>3

NameOf(i) == Description[registered[i]].service_name

\* A service is the resources of the last registered trait of its name.
ServicesInv ==
  /\ registered \in Seq(Expanding)
  /\ "services" \in DOMAIN builder
  /\ \A i \in 1..Len(registered) : NameOf(i) \in DOMAIN builder.services
  /\ \A n \in DOMAIN builder.services : \E i \in 1..Len(registered) :
       /\ NameOf(i) = n
       /\ builder.services[n] = Resources(Description[registered[i]].functions)
       /\ \A j \in 1..Len(registered) : j > i => NameOf(j) # n
  /\ server.built => server.services = builder.services

\* The stages after the names have been looked up and found.
Answered(q) ==
  LET d == q.resource
      data == BodyData(d.kind, q.body) IN
  /\ q.stage = "not found" => ~Known(q)
  /\ q.stage \in Routed => Known(q) /\ d = server.services[q.service][q.stub.rpc_name]
  /\ q.stage = "called" =>
       /\ ExpectsBody(d.kind, q.body) /\ Decodes(d.params, data)
       /\ q.got = Deserialize(d.params, data)
  /\ q.stage = "refused" => ~(ExpectsBody(d.kind, q.body) /\ Decodes(d.params, data))

Fields == {"stage", "trait", "stub", "arguments", "service", "body", "resource", "got"}

\* A request is still the one its stub has sent, whatever has become of it.
AsSent(r) ==
  LET q == request[r] IN
  q.stage # "none" =>
    /\ server.built
    /\ Fields \subseteq DOMAIN q
    /\ q.trait \in Expanding
    /\ \E i \in DOMAIN q.trait.items : q.stub = Description[q.trait].functions[i]
    /\ q.service = Description[q.trait].service_name
    /\ q.arguments = [k \in DOMAIN q.stub.params |-> <<r, k>>]
    /\ q.body = BodyOf(q.stub.kind, q.arguments)
    /\ Answered(q)

StubInv == ServicesInv /\ \A r \in Reqs : AsSent(r)

LEMMA InitStub == Init => StubInv
<1> SUFFICES ASSUME Init PROVE StubInv
  OBVIOUS
<1>1. registered = << >> /\ builder.services = << >> /\ "services" \in DOMAIN builder /\ ~server.built
  BY DEF Init, NoServer
<1>2. ServicesInv
  <2>1. << >> \in Seq(Expanding) /\ Len(<< >>) = 0 /\ DOMAIN << >> = {}
    BY EmptySeq
  <2> QED BY <1>1, <2>1 DEF ServicesInv
<1>3. \A r \in Reqs : request[r].stage = "none"
  BY DEF Init, Idle
<1> QED BY <1>2, <1>3 DEF StubInv, AsSent

\* The request r is at a later stage: what its stub has sent stays.
LEMMA AsSentStays ==
  ASSUME NEW r \in Reqs, AsSent(r), request[r].stage # "none", server' = server,
         Fields \subseteq DOMAIN request'[r], Answered(request[r])',
         request'[r].trait = request[r].trait, request'[r].stub = request[r].stub,
         request'[r].arguments = request[r].arguments,
         request'[r].service = request[r].service, request'[r].body = request[r].body
  PROVE  AsSent(r)'
  BY DEF AsSent

LEMMA AsSentKept ==
  ASSUME NEW r \in Reqs, AsSent(r), server' = server, request'[r] = request[r]
  PROVE  AsSent(r)'
<1>1. CASE request[r].stage = "none"
  BY <1>1 DEF AsSent
<1>2. CASE request[r].stage # "none"
  <2>1. PICK q : q = request[r]
    OBVIOUS
  <2>2. Answered(q) /\ Fields \subseteq DOMAIN q
    BY <1>2, <2>1 DEF AsSent
  <2>3. Answered(request[r])'
    BY <2>1, <2>2 DEF Answered, Known
  <2> QED BY <1>2, <2>1, <2>2, <2>3, AsSentStays
<1> QED BY <1>1, <1>2

\* A builder's step meets no request.
LEMMA BuilderStepsKeepStubs ==
  ASSUME StubInv, ~server.built, ServicesInv', UNCHANGED request
  PROVE  StubInv'
<1>1. \A r \in Reqs : request[r].stage = "none"
  BY DEF StubInv, AsSent
<1> QED BY <1>1 DEF StubInv, AsSent

\* A step of the request r: the services and the other requests stay.
LEMMA RequestStepsKeepStubs ==
  ASSUME StubInv, UNCHANGED <<registered, builder, server>>, DOMAIN request = Reqs,
         NEW r \in Reqs, NEW q, request' = [request EXCEPT ![r] = q], AsSent(r)'
  PROVE  StubInv'
<1>1. ServicesInv'
  BY DEF StubInv, ServicesInv, NameOf
<1>2. ASSUME NEW s \in Reqs PROVE AsSent(s)'
  <2>1. s # r => request'[s] = request[s]
    OBVIOUS
  <2>2. CASE s # r
    BY <2>1, <2>2, AsSentKept DEF StubInv
  <2> QED BY <2>2
<1> QED BY <1>1, <1>2 DEF StubInv

LEMMA RegisterStub ==
  ASSUME StubInv, RegisterService
  PROVE  StubInv'
<1>1. PICK t \in Expanding :
        /\ registered' = Append(registered, t)
        /\ builder' = [builder EXCEPT !.services =
             AddService(@, Description[t].service_name, Resources(Description[t].functions))]
  BY DEF RegisterService
<1>2. ~server.built /\ UNCHANGED <<server, request>>
  BY DEF RegisterService, BuilderCall
<1>3. /\ registered' \in Seq(Expanding) /\ Len(registered) \in Nat
      /\ Len(registered') = Len(registered) + 1
      /\ registered'[Len(registered) + 1] = t
      /\ \A i \in 1..Len(registered) : registered'[i] = registered[i]
  BY <1>1, AppendProperties, LenProperties DEF StubInv, ServicesInv
<1> DEFINE name == Description[t].service_name
           res == Resources(Description[t].functions)
<1>4. /\ "services" \in DOMAIN builder'
      /\ DOMAIN builder'.services = DOMAIN builder.services \cup {name}
      /\ builder'.services[name] = res
      /\ \A n \in DOMAIN builder.services : n # name => builder'.services[n] = builder.services[n]
  <2>1. builder'.services = AddService(builder.services, name, res) /\ "services" \in DOMAIN builder'
    BY <1>1 DEF StubInv, ServicesInv
  <2> HIDE DEF name, res
  <2> QED BY <2>1 DEF AddService
<1> HIDE DEF res
<1>5. /\ \A i \in 1..Len(registered') : i = Len(registered) + 1 => NameOf(i)' = name
      /\ \A i \in 1..Len(registered) : NameOf(i)' = NameOf(i)
  BY <1>3 DEF NameOf
<1>6. \A i \in 1..Len(registered') : NameOf(i)' \in DOMAIN builder'.services
  BY <1>3, <1>4, <1>5 DEF StubInv, ServicesInv
<1>7. ASSUME NEW n \in DOMAIN builder'.services
      PROVE  \E i \in 1..Len(registered') :
               /\ NameOf(i)' = n
               /\ builder'.services[n] = Resources(Description[registered'[i]].functions)
               /\ \A j \in 1..Len(registered') : j > i => NameOf(j)' # n
  <2>1. CASE n = name
    BY <1>3, <1>4, <1>5, <2>1 DEF res
  <2>2. CASE n # name
    <3>1. PICK i \in 1..Len(registered) :
            /\ NameOf(i) = n
            /\ builder.services[n] = Resources(Description[registered[i]].functions)
            /\ \A j \in 1..Len(registered) : j > i => NameOf(j) # n
      BY <1>4, <1>7, <2>2 DEF StubInv, ServicesInv
    <3>2. i \in 1..Len(registered') /\ NameOf(i)' = n
      BY <1>3, <1>5, <3>1
    <3>3. builder'.services[n] = Resources(Description[registered'[i]].functions)
      BY <1>3, <1>4, <1>7, <2>2, <3>1
    <3>4. \A j \in 1..Len(registered') : j > i => NameOf(j)' # n
      BY <1>3, <1>5, <2>2, <3>1
    <3> QED BY <3>2, <3>3, <3>4
  <2> QED BY <2>1, <2>2
<1>8. ServicesInv'
  BY <1>2, <1>3, <1>4, <1>6, <1>7 DEF ServicesInv
<1> QED BY <1>2, <1>8, BuilderStepsKeepStubs

LEMMA StepStub == TierInv /\ StubInv /\ [Next]_vars => StubInv'
<1> SUFFICES ASSUME TierInv, StubInv, [Next]_vars PROVE StubInv'
  OBVIOUS
<1>0. DOMAIN request = Reqs
  BY DEF TierInv, TiersTyped
<1>1. CASE UNCHANGED <<registered, builder, server, request>>
  BY <1>1, AsSentKept DEF StubInv, ServicesInv, NameOf
<1>2. CASE WithExtensions \/ WithConnectionHook \/ WithRequestMiddleware \/ WithCircuitBreaker
  <2>1. ~server.built /\ UNCHANGED <<registered, server, request>>
    BY <1>2 DEF WithExtensions, WithConnectionHook, WithRequestMiddleware,
                WithCircuitBreaker, BuilderCall
  <2>2. \/ \E n : builder' = [builder EXCEPT !.extensions = n]
        \/ builder' = [builder EXCEPT !.hook = TRUE]
        \/ \E t : builder' = [builder EXCEPT !.middleware = Append(@, t)]
        \/ builder' = [builder EXCEPT !.breakers = TRUE]
    BY <1>2 DEF WithExtensions, WithConnectionHook, WithRequestMiddleware, WithCircuitBreaker
  <2>3. builder'.services = builder.services /\ "services" \in DOMAIN builder'
    BY <2>2 DEF StubInv, ServicesInv
  <2>4. ServicesInv'
    BY <2>1, <2>3 DEF StubInv, ServicesInv, NameOf
  <2> QED BY <2>1, <2>4, BuilderStepsKeepStubs
<1>3. CASE RegisterService
  BY <1>3, RegisterStub
<1>4. CASE Build
  <2>1. ~server.built /\ UNCHANGED <<registered, builder, request>>
          /\ server'.services = builder.services
    BY <1>4 DEF Build, builderVars
  <2>2. ServicesInv'
    BY <2>1 DEF StubInv, ServicesInv, NameOf
  <2> QED BY <2>1, <2>2, BuilderStepsKeepStubs
<1>5. ASSUME NEW c \in Conns, Connect(c) PROVE StubInv'
  BY <1>1, <1>5 DEF Connect, builderVars
<1>6. ASSUME NEW r \in Reqs, NEW c \in Conns, CallStub(r, c) PROVE StubInv'
  <2>1. UNCHANGED <<registered, builder, server>> /\ server.built
    BY <1>6 DEF CallStub, builderVars, TierInv, ConnTier
  <2>2. PICK t \in Expanding : \E i \in DOMAIN t.items :
          request' = [request EXCEPT ![r] = NewRequest(r, c, t, Description[t].functions[i])]
    BY <1>6 DEF CallStub
  <2>3. PICK i \in DOMAIN t.items :
          request' = [request EXCEPT ![r] = NewRequest(r, c, t, Description[t].functions[i])]
    BY <2>2
  <2> DEFINE q == NewRequest(r, c, t, Description[t].functions[i])
  <2>4. /\ q.stage = "sent" /\ Fields \subseteq DOMAIN q /\ q.trait = t
        /\ q.stub = Description[t].functions[i] /\ q.service = Description[t].service_name
        /\ q.arguments = [k \in DOMAIN q.stub.params |-> <<r, k>>]
        /\ q.body = BodyOf(q.stub.kind, q.arguments)
    BY DEF NewRequest, Fields
  <2> HIDE DEF q
  <2>5. request'[r] = q
    BY <1>0, <2>3 DEF q
  <2>6. Answered(q)'
    BY <2>4 DEF Answered, Routed
  <2>7. AsSent(r)'
    BY <2>1, <2>4, <2>5, <2>6 DEF AsSent
  <2> QED BY <1>0, <2>1, <2>3, <2>7, RequestStepsKeepStubs
<1>7. ASSUME NEW r \in Reqs, Route(r) \/ ApplyMiddleware(r) \/ RunCallback(r) PROVE StubInv'
  <2>1. UNCHANGED <<registered, builder, server>> /\ request[r].stage # "none" /\ AsSent(r)
    BY <1>7 DEF Route, ApplyMiddleware, RunCallback, builderVars, StubInv
  <2> DEFINE p == request[r]
  <2>2. Fields \subseteq DOMAIN p /\ {"extensions", "applied"} \subseteq DOMAIN p
    BY <2>1 DEF AsSent, TierInv, RequestTier
  <2>3. ASSUME NEW q, request' = [request EXCEPT ![r] = q], Fields \subseteq DOMAIN q,
               q.trait = p.trait, q.stub = p.stub, q.arguments = p.arguments,
               q.service = p.service, q.body = p.body, Answered(q)
        PROVE  StubInv'
    <3>1. request'[r] = q
      BY <1>0, <2>3
    <3>2. Answered(request[r])'
      BY <2>1, <2>3, <3>1 DEF Answered, Known
    <3>3. AsSent(r)'
      BY <2>1, <2>3, <3>1, <3>2, AsSentStays
    <3> QED BY <1>0, <2>1, <2>3, <3>3, RequestStepsKeepStubs
  <2>4. CASE Route(r)
    <3>1. CASE ~Known(p)
      <4> DEFINE q == [p EXCEPT !.stage = "not found"]
      <4>1. request' = [request EXCEPT ![r] = q]
        BY <2>4, <3>1 DEF Route
      <4>2. q.stage = "not found" /\ Fields \subseteq DOMAIN q /\ q.trait = p.trait
              /\ q.stub = p.stub /\ q.arguments = p.arguments
              /\ q.service = p.service /\ q.body = p.body
        BY <2>2 DEF Fields
      <4> HIDE DEF q
      <4>3. Answered(q)
        BY <3>1, <4>2 DEF Answered, Known, Routed
      <4> QED BY <4>1, <4>2, <4>3, <2>3
    <3>2. CASE Known(p)
      <4> DEFINE q == NewContext(p)
      <4>1. request' = [request EXCEPT ![r] = q]
        BY <2>4, <3>2 DEF Route
      <4>2. q.stage = "middleware" /\ Fields \subseteq DOMAIN q /\ q.trait = p.trait
              /\ q.stub = p.stub /\ q.arguments = p.arguments
              /\ q.service = p.service /\ q.body = p.body
              /\ q.resource = server.services[p.service][p.stub.rpc_name]
        BY <2>2 DEF Fields, NewContext
      <4> HIDE DEF q
      <4>3. Answered(q)
        BY <3>2, <4>2 DEF Answered, Known, Routed
      <4> QED BY <4>1, <4>2, <4>3, <2>3
    <3> QED BY <3>1, <3>2
  <2>5. CASE ApplyMiddleware(r)
    <3>1. PICK k, e : request' = [request EXCEPT ![r].applied = k, ![r].extensions = e]
      BY <2>5 DEF ApplyMiddleware
    <3> DEFINE q == [p EXCEPT !.applied = k, !.extensions = e]
    <3>2. request' = [request EXCEPT ![r] = q]
      BY <1>0, <3>1
    <3>3. q.stage = p.stage /\ Fields \subseteq DOMAIN q /\ q.trait = p.trait
            /\ q.stub = p.stub /\ q.arguments = p.arguments /\ q.resource = p.resource
            /\ q.service = p.service /\ q.body = p.body /\ q.got = p.got
      BY <2>2 DEF Fields
    <3> HIDE DEF q
    <3>4. Answered(q)
      BY <2>1, <3>3 DEF AsSent, Answered, Known
    <3> QED BY <3>2, <3>3, <3>4, <2>3
  <2>6. CASE RunCallback(r)
    <3> DEFINE d == p.resource
               data == BodyData(d.kind, p.body)
    <3>1. p.stage = "middleware" /\ Answered(p)
      BY <2>1, <2>6 DEF RunCallback, AsSent
    <3>2. CASE ExpectsBody(d.kind, p.body) /\ Decodes(d.params, data)
      <4> DEFINE q == [p EXCEPT !.stage = "called", !.got = Deserialize(d.params, data)]
      <4>1. request' = [request EXCEPT ![r] = q]
        BY <1>0, <2>6, <3>2 DEF RunCallback
      <4>2. q.stage = "called" /\ q.got = Deserialize(d.params, data)
              /\ Fields \subseteq DOMAIN q /\ q.trait = p.trait
              /\ q.stub = p.stub /\ q.arguments = p.arguments /\ q.resource = p.resource
              /\ q.service = p.service /\ q.body = p.body
        BY <2>2 DEF Fields
      <4> HIDE DEF q
      <4>3. Answered(q)
        BY <3>1, <3>2, <4>2 DEF Answered, Known, Routed
      <4> QED BY <4>1, <4>2, <4>3, <2>3
    <3>3. CASE ~(ExpectsBody(d.kind, p.body) /\ Decodes(d.params, data))
      <4> DEFINE q == [p EXCEPT !.stage = "refused"]
      <4>1. request' = [request EXCEPT ![r] = q]
        BY <1>0, <2>6, <3>3 DEF RunCallback
      <4>2. q.stage = "refused" /\ Fields \subseteq DOMAIN q /\ q.trait = p.trait
              /\ q.stub = p.stub /\ q.arguments = p.arguments /\ q.resource = p.resource
              /\ q.service = p.service /\ q.body = p.body
        BY <2>2 DEF Fields
      <4> HIDE DEF q
      <4>3. Answered(q)
        BY <3>1, <3>3, <4>2 DEF Answered, Known, Routed
      <4> QED BY <4>1, <4>2, <4>3, <2>3
    <3> QED BY <3>2, <3>3
  <2> QED BY <1>7, <2>4, <2>5, <2>6
<1> QED BY <1>1, <1>2, <1>3, <1>4, <1>5, <1>6, <1>7 DEF Next, vars, builderVars
-----------------------------------------------------------------------------
\* The service of a trait that is the last of its name is that trait's.
LEMMA LastServes ==
  ASSUME ServicesInv, NEW t \in Expanding, LastOfItsName(t)
  PROVE  /\ Description[t].service_name \in DOMAIN builder.services
         /\ builder.services[Description[t].service_name] = Resources(Description[t].functions)
<1> DEFINE name == Description[t].service_name
           I == {i \in 1..Len(registered) : NameOf(i) = name}
           at == IF I # {} THEN Max(I) ELSE 0
<1>1. at # 0 /\ registered[at] = t
  BY DEF LastOfItsName, SelectLastInSeq, NameOf
<1>2. Len(registered) \in Nat
  BY LenProperties DEF ServicesInv
<1>3. at \in I /\ \A i \in I : i <= at
  <2>1. I \in SUBSET (1..Len(registered)) /\ I # {}
    BY <1>1
  <2> HIDE DEF I
  <2> QED BY <1>2, <2>1, MaxOf
<1> HIDE DEF at
<1>4. at \in 1..Len(registered) /\ NameOf(at) = name
  BY <1>3
<1>5. name \in DOMAIN builder.services
  BY <1>4 DEF ServicesInv
<1>6. PICK i \in 1..Len(registered) :
        /\ NameOf(i) = name
        /\ builder.services[name] = Resources(Description[registered[i]].functions)
        /\ \A j \in 1..Len(registered) : j > i => NameOf(j) # name
  BY <1>5 DEF ServicesInv
<1>7. i = at
  <2>1. i <= at
    BY <1>3, <1>6
  <2>2. ~(at > i)
    BY <1>4, <1>6
  <2> QED BY <1>2, <1>4, <2>1, <2>2
<1> QED BY <1>1, <1>5, <1>6, <1>7

\* With distinct names a resource is the very function that has its name.
LEMMA DistinctServes ==
  ASSUME NEW t \in Expanding, DistinctNames(t), NEW i \in DOMAIN t.items
  PROVE  LET d == Description[t].functions[i]
             res == Resources(Description[t].functions) IN
         d.rpc_name \in DOMAIN res /\ res[d.rpc_name] = d
<1> DEFINE fs == Description[t].functions
<1>1. PICK n \in Nat : DOMAIN t.items = 1..n /\ DOMAIN fs = 1..n
  BY Expanded
<1>2. \A k \in 1..n : fs[k].kind \in Kinds
  BY <1>1, Expanded
<1>3. \A k, j \in 1..n : fs[k].rpc_name = fs[j].rpc_name => k = j
  <2> DEFINE names == [k \in DOMAIN t.items |-> Description[t].functions[k].rpc_name]
  <2>1. IsInjective(names)
    BY DEF DistinctNames
  <2> HIDE DEF names
  <2>2. \A k, j \in DOMAIN names : names[k] = names[j] => k = j
    BY <2>1 DEF IsInjective
  <2> USE DEF names
  <2>3. DOMAIN names = 1..n /\ \A k \in 1..n : names[k] = fs[k].rpc_name
    BY <1>1
  <2> HIDE DEF names
  <2> QED BY <2>2, <2>3
<1> HIDE DEF fs
<1>4. fs[i].rpc_name \in DOMAIN Resources(fs)
  <2>1. \A k \in 1..n : fs[k].rpc_name \in DOMAIN Resources(fs)
    BY <1>1, <1>2, ResourceOf
  <2> QED BY <1>1, <2>1
<1>5. PICK j \in 1..n : Resources(fs)[fs[i].rpc_name] = fs[j] /\ fs[j].rpc_name = fs[i].rpc_name
  <2>1. \A name \in DOMAIN Resources(fs) :
          \E k \in 1..n : Resources(fs)[name] = fs[k] /\ fs[k].rpc_name = name
    BY <1>1, <1>2, ResourceOf
  <2> QED BY <1>4, <2>1
<1>6. j = i
  BY <1>1, <1>3, <1>5
<1> QED BY <1>4, <1>5, <1>6 DEF fs

\* A known name leads to a function that has it, of a trait that was registered.
LEMMA KnownServes ==
  ASSUME ServicesInv, server.built, NEW q, Known(q)
  PROVE  LET d == server.services[q.service][q.stub.rpc_name] IN
         d.rpc_name = q.stub.rpc_name /\ d.params \in Seq(STRING)
<1>1. PICK i \in 1..Len(registered) :
        server.services[q.service] = Resources(Description[registered[i]].functions)
  BY DEF ServicesInv, Known
<1> DEFINE t == registered[i]
           fs == Description[t].functions
<1>2. t \in Expanding
  BY ElementOfSeq DEF ServicesInv
<1>3. PICK n \in Nat : DOMAIN t.items = 1..n /\ DOMAIN fs = 1..n
  BY <1>2, Expanded
<1>4. \A k \in 1..n : fs[k].kind \in Kinds /\ fs[k].params \in Seq(STRING)
  BY <1>2, <1>3, Expanded
<1> HIDE DEF fs, t
<1>5. PICK k \in 1..n : Resources(fs)[q.stub.rpc_name] = fs[k] /\ fs[k].rpc_name = q.stub.rpc_name
  <2>1. q.stub.rpc_name \in DOMAIN Resources(fs)
    BY <1>1 DEF Known, fs, t
  <2>2. \A k \in 1..n : fs[k].kind \in Kinds
    BY <1>4
  <2>3. \A name \in DOMAIN Resources(fs) :
          \E k \in 1..n : Resources(fs)[name] = fs[k] /\ fs[k].rpc_name = name
    BY <1>3, <2>2, ResourceOf
  <2> QED BY <2>1, <2>3
<1> QED BY <1>1, <1>4, <1>5 DEF fs, t

\* A method that is called is called with all the arguments, or takes none.
LEMMA AllOrNone ==
  ASSUME NEW kind \in Kinds, NEW S, NEW arguments \in Seq(S),
         NEW d, d.params \in Seq(STRING),
         Decodes(d.params, BodyData(d.kind, BodyOf(kind, arguments)))
  PROVE  \/ Deserialize(d.params, BodyData(d.kind, BodyOf(kind, arguments))) = arguments
         \/ d.params = << >>
<1> DEFINE body == BodyOf(kind, arguments)
           data == BodyData(d.kind, body)
<1>1. body.data = Serialize(arguments)
  BY DEF BodyOf, SerializeOptional, UnwrapOrDefault, Serialize, Kinds
<1> HIDE DEF body
<1>2. data \in {NoBytes, Serialize(arguments)}
  BY <1>1 DEF BodyData
<1> HIDE DEF data
<1>3. ASSUME d.params # << >> PROVE data.of = arguments
  <2>1. Len(d.params) \in Nat \ {0}
    BY <1>3, EmptySeq
  <2>2. data.json # "nothing"
    BY <2>1 DEF Decodes, data, body
  <2>3. data = Serialize(arguments) /\ arguments # << >>
    BY <1>2, <2>2 DEF NoBytes, Serialize
  <2> QED BY <2>3 DEF Serialize
<1> QED BY <1>3 DEF Deserialize, data, body

\* What EncodingsAgree says of a method and its own stub's arguments.
OwnEncoding(d, arguments) ==
  LET body == BodyOf(d.kind, arguments)
      data == BodyData(d.kind, body) IN
  /\ ExpectsBody(d.kind, body) /\ Decodes(d.params, data)
  /\ Deserialize(d.params, data) = arguments

LEMMA OwnArguments ==
  ASSUME NEW d, d.kind \in Kinds, d.params \in Seq(STRING),
         NEW S, NEW arguments \in Seq(S), Len(arguments) = Len(d.params)
  PROVE  OwnEncoding(d, arguments)
<1>1. PICK kind \in Kinds, params \in Seq(STRING) : kind = d.kind /\ params = d.params
  OBVIOUS
<1>2. /\ ExpectsBody(kind, BodyOf(kind, arguments))
      /\ Decodes(params, BodyData(kind, BodyOf(kind, arguments)))
      /\ Deserialize(params, BodyData(kind, BodyOf(kind, arguments))) = arguments
  BY <1>1, EncodingsAgree
<1> QED BY <1>1, <1>2 DEF OwnEncoding

LEMMA ArgumentsTyped ==
  ASSUME NEW x, NEW n \in Nat
  PROVE  LET a == [k \in 1..n |-> <<x, k>>] IN
         a \in Seq({<<x, k>> : k \in Nat}) /\ Len(a) = n
<1>1. [k \in 1..n |-> <<x, k>>] \in [1..n -> {<<x, k>> : k \in Nat}]
  OBVIOUS
<1>2. ASSUME NEW S, NEW a \in [1..n -> S] PROVE a \in Seq(S) /\ Len(a) = n
  OBVIOUS
<1> QED BY <1>1, <1>2

LEMMA StubsReach == StubInv => StubReachesItsMethod
<1> SUFFICES ASSUME StubInv, NEW r \in Reqs, request[r].stage \in {"not found", "refused", "called"}
             PROVE  LET q == request[r] IN
                    /\ LastOfItsName(q.trait) /\ DistinctNames(q.trait) =>
                         q.stage = "called" /\ q.resource = q.stub /\ q.got = q.arguments
                    /\ q.stage = "called" =>
                         /\ q.resource.rpc_name = q.stub.rpc_name
                         /\ q.got = q.arguments \/ q.resource.params = << >>
  BY DEF StubReachesItsMethod
<1> DEFINE q == request[r]
<1>1. /\ ServicesInv /\ server.built /\ server.services = builder.services
      /\ q.trait \in Expanding /\ q.service = Description[q.trait].service_name
      /\ q.arguments = [k \in DOMAIN q.stub.params |-> <<r, k>>]
      /\ q.body = BodyOf(q.stub.kind, q.arguments)
      /\ Answered(q)
  BY DEF StubInv, AsSent, ServicesInv
<1>2. PICK i \in DOMAIN q.trait.items : q.stub = Description[q.trait].functions[i]
  BY DEF StubInv, AsSent
<1>3. q.stub.kind \in Kinds /\ q.stub.params \in Seq(STRING)
  BY <1>1, <1>2, Expanded
<1>4. q.arguments \in Seq({<<r, k>> : k \in Nat}) /\ Len(q.arguments) = Len(q.stub.params)
  <2>1. PICK n \in Nat : DOMAIN q.stub.params = 1..n /\ Len(q.stub.params) = n
    BY <1>3, LenProperties
  <2>2. q.arguments = [k \in 1..n |-> <<r, k>>]
    BY <1>1, <2>1
  <2>3. [k \in 1..n |-> <<r, k>>] \in Seq({<<r, k>> : k \in Nat}) /\ Len([k \in 1..n |-> <<r, k>>]) = n
    BY ArgumentsTyped
  <2> QED BY <2>1, <2>2, <2>3
<1>5. ASSUME LastOfItsName(q.trait), DistinctNames(q.trait)
      PROVE  q.stage = "called" /\ q.resource = q.stub /\ q.got = q.arguments
  <2>1. Known(q) /\ server.services[q.service][q.stub.rpc_name] = q.stub
    <3> DEFINE t == q.trait
               d == Description[t].functions[i]
               res == Resources(Description[t].functions)
    <3>1. server.services[q.service] = res /\ q.service \in DOMAIN server.services
      BY <1>1, <1>5, LastServes
    <3>2. d.rpc_name \in DOMAIN res /\ res[d.rpc_name] = d
      <4> HIDE DEF q
      <4> QED BY <1>1, <1>2, <1>5, DistinctServes
    <3> QED BY <1>2, <3>1, <3>2 DEF Known
  <2>2. q.stage \in {"refused", "called"} /\ q.resource = q.stub
    BY <1>1, <2>1 DEF Answered, Routed
  <2>3. /\ ExpectsBody(q.stub.kind, q.body)
        /\ Decodes(q.stub.params, BodyData(q.stub.kind, q.body))
        /\ Deserialize(q.stub.params, BodyData(q.stub.kind, q.body)) = q.arguments
    <3> HIDE DEF q
    <3> DEFINE d == q.stub
               arguments == q.arguments
               S == {<<r, k>> : k \in Nat}
    <3>1. /\ d.kind \in Kinds /\ d.params \in Seq(STRING)
          /\ arguments \in Seq(S) /\ Len(arguments) = Len(d.params)
          /\ q.body = BodyOf(d.kind, arguments)
      BY <1>1, <1>3, <1>4
    <3> HIDE DEF d, arguments, S
    <3>2. OwnEncoding(d, arguments)
      BY <3>1, OwnArguments
    <3> QED BY <3>1, <3>2 DEF OwnEncoding, d, arguments
  <2> QED BY <1>1, <2>2, <2>3 DEF Answered
<1>6. ASSUME q.stage = "called"
      PROVE  /\ q.resource.rpc_name = q.stub.rpc_name
             /\ q.got = q.arguments \/ q.resource.params = << >>
  <2>1. /\ Known(q) /\ q.resource = server.services[q.service][q.stub.rpc_name]
        /\ Decodes(q.resource.params, BodyData(q.resource.kind, q.body))
        /\ q.got = Deserialize(q.resource.params, BodyData(q.resource.kind, q.body))
    BY <1>1, <1>6 DEF Answered, Routed
  <2>2. q.resource.rpc_name = q.stub.rpc_name /\ q.resource.params \in Seq(STRING)
    BY <1>1, <2>1, KnownServes
  <2>3. q.got = q.arguments \/ q.resource.params = << >>
    <3> HIDE DEF q
    <3> DEFINE kind == q.stub.kind
               d == q.resource
               arguments == q.arguments
               S == {<<r, k>> : k \in Nat}
    <3>1. /\ kind \in Kinds /\ arguments \in Seq(S) /\ d.params \in Seq(STRING)
          /\ q.body = BodyOf(kind, arguments)
          /\ Decodes(d.params, BodyData(d.kind, q.body))
          /\ q.got = Deserialize(d.params, BodyData(d.kind, q.body))
      BY <1>1, <1>3, <1>4, <2>1, <2>2
    <3> HIDE DEF kind, d, arguments, S
    <3>2. \/ Deserialize(d.params, BodyData(d.kind, BodyOf(kind, arguments))) = arguments
          \/ d.params = << >>
      BY <3>1, AllOrNone
    <3> QED BY <3>1, <3>2 DEF d, arguments
  <2> QED BY <2>2, <2>3
<1> QED BY <1>5, <1>6

\* A stub of the last trait of its name reaches the method it was generated
\* with, with its arguments, for any traits the macro expands, in whatever order
\* they were registered; and no method is ever called with some arguments only,
\* or under another name than the stub's.
THEOREM StubsReachTheirMethods == Spec => []StubReachesItsMethod
<1>1. StatsInv /\ TierInv /\ StubInv /\ [Next]_vars => (StatsInv /\ TierInv /\ StubInv)'
  BY StepStats, StepTier, StepStub
<1> QED BY <1>1, InitStats, InitTier, InitStub, StubsReach, PTL DEF Spec
=============================================================================
