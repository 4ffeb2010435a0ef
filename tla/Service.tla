------------------------------ MODULE Service -------------------------------
(***************************************************************************)
(* From the builder to the callback: a server is put together by calls of  *)
(* RpcServerBuilder in any order and by the register_service() of macro    *)
(* generated services; clients then call the stubs of their traits, and    *)
(* requests are routed, given a context and middleware, decoded and handed *)
(* to a method of the service.                                             *)
(*                                                                         *)
(* Extensions are Arcs of maps: here positions in a heap of maps, so that  *)
(* sharing shows.  A resource is the registration of a function of a       *)
(* trait; it is found by the names of its service and its own.             *)
(***************************************************************************)
EXTENDS ServiceMacro

CONSTANTS
  Traits,      \* the traits that servers and clients are compiled with
  Conns,       \* connections
  Reqs,        \* requests
  MaxCalls     \* bound on the builder calls

VARIABLES
  maps,        \* the heap of extension maps
  builder,     \* RpcServerBuilder
  calls,       \* how many calls the builder has seen
  registered,  \* history: the traits registered, in order
  given,       \* history: the extensions given with with_extensions(), if any
  server,      \* the RpcServer once it is built
  conn,        \* the connections' extensions
  hooked,      \* history: what was in them when their hook had returned
  request      \* the requests

builderVars == <<builder, calls, registered, given>>
connVars == <<conn, hooked>>
vars == <<maps, builderVars, server, connVars, request>>

ASSUME MaxCallsAssumption == MaxCalls \in Nat

\* Items and parameters are in sequences, as the parser has read them.
ASSUME TraitsAssumption ==
  \A t \in Traits :
    /\ t.items \in Seq(Range(t.items))
    /\ \A i \in DOMAIN t.items :
         t.items[i].item = "fn" => t.items[i].params \in Seq(STRING)

\* What clients and servers can be compiled from.
Description == [t \in Traits |-> FromItem(t)]
Expanding == {t \in Traits : Expands(Description[t])}
-----------------------------------------------------------------------------
(* Extensions *)

\* The types of values: the statistics of circuit breakers, a session.
Types == {"stats", "session"}
Absent == << >>
EmptyMap == [t \in Types |-> Absent]

\* The statistics that the server puts in, and ones that its owner made.
ServerStats == <<"server", 0>>
OwnStats == <<"owner", 0>>

\* Variant: the map is written to where it is.
With_InPlace(heap, e, t, v) == [heap |-> [heap EXCEPT ![e][t] = v], ext |-> e]

\* Extensions::with: a copy of the map with one more value.
With(heap, e, t, v) ==
  [heap |-> Append(heap, [heap[e] EXCEPT ![t] = v]), ext |-> Len(heap) + 1]

\* Extensions::new.
New(heap) == [heap |-> Append(heap, EmptyMap), ext |-> Len(heap) + 1]

Get(e, t) == maps[e][t]

NoServer == [services |-> << >>, extensions |-> 0, hook |-> FALSE,
             middleware |-> << >>, breakers |-> FALSE, built |-> FALSE]

Idle == [stage |-> "none"]
NoResource == "none"

Init ==
  /\ maps = <<EmptyMap>>
  /\ builder = [services |-> << >>, extensions |-> 1, hook |-> FALSE,
                middleware |-> << >>, breakers |-> FALSE]
  /\ calls = 0 /\ registered = << >> /\ given = EmptyMap
  /\ server = NoServer
  /\ conn = [c \in Conns |-> 0] /\ hooked = [c \in Conns |-> EmptyMap]
  /\ request = [r \in Reqs |-> Idle]
-----------------------------------------------------------------------------
(* RpcServerBuilder *)

BuilderCall ==
  /\ ~server.built /\ calls < MaxCalls
  /\ calls' = calls + 1
  /\ UNCHANGED <<server, connVars, request>>

\* with_extensions(): the new ones take the place of the old.
WithExtensions ==
  /\ BuilderCall
  /\ \E stats \in {Absent, OwnStats} :
       /\ maps' = Append(maps, [EmptyMap EXCEPT !["stats"] = stats])
       /\ given' = [EmptyMap EXCEPT !["stats"] = stats]
  /\ builder' = [builder EXCEPT !.extensions = Len(maps')]
  /\ UNCHANGED registered

WithConnectionHook ==
  /\ BuilderCall
  /\ builder' = [builder EXCEPT !.hook = TRUE]
  /\ UNCHANGED <<maps, registered, given>>

\* with_request_middleware(): one more, which adds a value of some type.
WithRequestMiddleware ==
  /\ BuilderCall
  /\ \E t \in Types : builder' = [builder EXCEPT !.middleware = Append(@, t)]
  /\ UNCHANGED <<maps, registered, given>>

WithCircuitBreaker ==
  /\ BuilderCall
  /\ builder' = [builder EXCEPT !.breakers = TRUE]
  /\ UNCHANGED <<maps, registered, given>>

\* ServiceBuilder::build(): the service takes the place of one of its name.
AddService(services, name, resources) ==
  [n \in DOMAIN services \cup {name} |-> IF n = name THEN resources ELSE services[n]]

\* register_service(): service(), the resources, and ServiceBuilder::build().
RegisterService ==
  /\ BuilderCall
  /\ \E t \in Expanding :
       LET s == Description[t] IN
       /\ registered' = Append(registered, t)
       /\ builder' = [builder EXCEPT !.services =
                        AddService(@, s.service_name, Resources(s.functions))]
  /\ UNCHANGED <<maps, given>>

\* Variant: statistics that are there already are left in place.
InitializeBreakers_KeepsOwn ==
  IF builder.breakers /\ maps[builder.extensions]["stats"] = Absent
  THEN With(maps, builder.extensions, "stats", ServerStats)
  ELSE [heap |-> maps, ext |-> builder.extensions]

\* initialize_circuit_breakers(): with breakers come their statistics.
InitializeBreakers ==
  IF builder.breakers
  THEN With(maps, builder.extensions, "stats", ServerStats)
  ELSE [heap |-> maps, ext |-> builder.extensions]

Build ==
  /\ ~server.built
  /\ maps' = InitializeBreakers.heap
  /\ server' = [services |-> builder.services, extensions |-> InitializeBreakers.ext,
                hook |-> builder.hook, middleware |-> builder.middleware,
                breakers |-> builder.breakers, built |-> TRUE]
  /\ UNCHANGED <<builderVars, connVars, request>>
-----------------------------------------------------------------------------
(* Requests *)

\* What a hook may return: the server's extensions, which it is handed, or new
\* ones, as they are or with a value of its own.
HookResults(c) ==
  {[heap |-> maps, ext |-> server.extensions], New(maps)}
    \cup {With(maps, server.extensions, t, <<"conn", c>>) : t \in Types}
    \cup {[heap |-> Append(maps, [EmptyMap EXCEPT ![t] = <<"conn", c>>]),
           ext |-> Len(maps) + 1] : t \in Types}

\* connection_handler: the extensions of a connection are the ones its hook
\* returns, with nothing merged in, and empty if it fails or there is none.
Connect(c) ==
  /\ server.built /\ conn[c] = 0
  /\ \E e \in {New(maps)} \cup (IF server.hook THEN HookResults(c) ELSE {}) :
       /\ maps' = e.heap
       /\ conn' = [conn EXCEPT ![c] = e.ext]
       /\ hooked' = [hooked EXCEPT ![c] = e.heap[e.ext]]
  /\ UNCHANGED <<builderVars, server, request>>

\* What a stub sends: the names, and its arguments in the body of its kind.
NewRequest(r, c, t, d) ==
  LET arguments == [p \in DOMAIN d.params |-> <<r, p>>] IN
  [stage |-> "sent", conn |-> c, trait |-> t, stub |-> d, arguments |-> arguments,
   service |-> Description[t].service_name, body |-> BodyOf(d.kind, arguments),
   applied |-> 0, extensions |-> 0, resource |-> NoResource, got |-> << >>]

\* A stub of a client's trait sends its request; the client and the server may
\* have been compiled from different traits.
CallStub(r, c) ==
  /\ request[r].stage = "none" /\ conn[c] # 0
  /\ \E t \in Expanding : \E i \in DOMAIN t.items :
       request' = [request EXCEPT ![r] = NewRequest(r, c, t, Description[t].functions[i])]
  /\ UNCHANGED <<maps, builderVars, server, connVars>>

Known(q) ==
  /\ q.service \in DOMAIN server.services
  /\ q.stub.rpc_name \in DOMAIN server.services[q.service]

\* RequestContext::new: the request's own extensions are empty, the other tiers
\* are those of the server and of the connection.
NewContext(q) ==
  [q EXCEPT !.stage = "middleware", !.extensions = New(maps).ext,
            !.resource = server.services[q.service][q.stub.rpc_name]]

\* handle_stream: the names are looked up, and the handler builds the context.
Route(r) ==
  /\ request[r].stage = "sent"
  /\ \/ /\ ~Known(request[r])
        /\ request' = [request EXCEPT ![r].stage = "not found"]
        /\ UNCHANGED maps
     \/ /\ Known(request[r])
        /\ maps' = New(maps).heap
        /\ request' = [request EXCEPT ![r] = NewContext(@)]
  /\ UNCHANGED <<builderVars, server, connVars>>

\* RequestContext::with_extension.
WithExtension(q, t, v) == With(maps, q.extensions, t, v)

\* apply_middleware: in the order they were added, each awaited.
ApplyMiddleware(r) ==
  /\ request[r].stage = "middleware" /\ request[r].applied < Len(server.middleware)
  /\ LET k == request[r].applied + 1
         w == WithExtension(request[r], server.middleware[k], <<"req", <<r, k>>>>) IN
     /\ maps' = w.heap
     /\ request' = [request EXCEPT ![r].applied = k, ![r].extensions = w.ext]
  /\ UNCHANGED <<builderVars, server, connVars>>

\* The generated callback: the body, the parameters, the method.
RunCallback(r) ==
  /\ request[r].stage = "middleware" /\ request[r].applied = Len(server.middleware)
  /\ LET d == request[r].resource
         data == BodyData(d.kind, request[r].body) IN
     IF ExpectsBody(d.kind, request[r].body) /\ Decodes(d.params, data)
     THEN request' = [request EXCEPT ![r].stage = "called", ![r].got = Deserialize(d.params, data)]
     ELSE request' = [request EXCEPT ![r].stage = "refused"]
  /\ UNCHANGED <<maps, builderVars, server, connVars>>
-----------------------------------------------------------------------------
Next ==
  \/ WithExtensions \/ WithConnectionHook \/ WithRequestMiddleware
  \/ WithCircuitBreaker \/ RegisterService \/ Build
  \/ \E c \in Conns : Connect(c)
  \/ \E r \in Reqs : Route(r) \/ ApplyMiddleware(r) \/ RunCallback(r)
  \/ \E r \in Reqs, c \in Conns : CallStub(r, c)

Spec == Init /\ [][Next]_vars
-----------------------------------------------------------------------------
(* Properties *)

\* The last place of a type in a chain of middleware, 0 if it has none.
LastAt(chain, t) == SelectLastInSeq(chain, LAMBDA u : u = t)

LastOfItsName(t) ==
  LET at == SelectLastInSeq(registered, LAMBDA u :
              Description[u].service_name = Description[t].service_name)
  IN at # 0 /\ registered[at] = t

DistinctNames(t) ==
  IsInjective([i \in DOMAIN t.items |-> Description[t].functions[i].rpc_name])

\* A stub calls the method it was generated with, with the parameters it was
\* given: through the attribute's parser, the order of the registrations, the
\* two encodings and the body of each kind.  The trait must be the last that
\* was registered by its name, and its resource names distinct: nothing checks
\* either.  Whatever was registered, a method is called with all the parameters
\* of the stub or, if it takes none, with none.
StubReachesItsMethod ==
  \A r \in Reqs : LET q == request[r] IN
    /\ q.stage \in {"not found", "refused", "called"}
         /\ LastOfItsName(q.trait) /\ DistinctNames(q.trait) =>
           q.stage = "called" /\ q.resource = q.stub /\ q.got = q.arguments
    /\ q.stage = "called" =>
         /\ q.resource.rpc_name = q.stub.rpc_name
         /\ q.got = q.arguments \/ q.resource.params = << >>

\* Values stay in their tier, and nothing is merged from one to the next: the
\* server's extensions are the ones that were given; a connection keeps what its
\* hook returned, whether made from the server's or not, with no other
\* connection's values, and nothing without a hook; a request has the values of
\* its own middleware, the later ones in the place of earlier ones of their type.
ExtensionsKeepTheirTier ==
  /\ server.built =>
       \A t \in Types : Get(server.extensions, t) \in {given[t], ServerStats}
  /\ \A c \in Conns : conn[c] # 0 =>
       /\ maps[conn[c]] = hooked[c]
       /\ ~server.hook => hooked[c] = EmptyMap
       /\ \A t \in Types :
            Get(conn[c], t) \in {Absent, Get(server.extensions, t), <<"conn", c>>}
  /\ \A r \in Reqs : request[r].stage \in {"middleware", "called", "refused"} =>
       LET chain == SubSeq(server.middleware, 1, request[r].applied) IN
       \A t \in Types :
         Get(request[r].extensions, t) =
           IF LastAt(chain, t) = 0 THEN Absent ELSE <<"req", <<r, LastAt(chain, t)>>>>

\* The statistics that handlers find are those of the breakers that admit their
\* calls, in whatever order the builder was told, and whatever statistics its
\* owner put in; without breakers only the owner's.
StatsAreOfTheBreakers ==
  server.built =>
    Get(server.extensions, "stats") = (IF server.breakers THEN ServerStats ELSE given["stats"])
=============================================================================
