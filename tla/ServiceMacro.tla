---------------------------- MODULE ServiceMacro ----------------------------
(***************************************************************************)
(* The zel_service attribute: what it accepts, what the server half        *)
(* registers and the client half calls, and how the two halves encode      *)
(* parameters.  Pure operators over a trait, which is a record             *)
(*   [args  : the attribute's arguments, a sequence of [key, value],       *)
(*    items : its items, a sequence of functions and other items].         *)
(* A function is a record [item = "fn", ident, async, receiver, params,    *)
(* attrs]: ident is a sequence of words, as '_' separates them; params are *)
(* names, or "pattern" for a parameter that is not a plain name; an        *)
(* attribute is [path, args].  A value is a string or NotAString.          *)
(***************************************************************************)
EXTENDS Naturals, Sequences, SequencesExt

None == "none"
NotAString == "not a string"
NotAType == "not a type"
NoWord == ""

Rejected == [accepted |-> FALSE]
-----------------------------------------------------------------------------
(* Attributes *)

\* The last string given for a key: values that are no strings are passed over.
LastString(args, key) ==
  LET at == SelectLastInSeq(args, LAMBDA a : a.key = key /\ a.value # NotAString)
  IN IF at = 0 THEN None ELSE args[at].value

\* The service's own arguments: a name that is not a string is an error, a key
\* that is not known is passed over with its value.
ServiceName(args) ==
  IF \E i \in DOMAIN args : args[i].key = "name" /\ args[i].value = NotAString
  THEN None
  ELSE LastString(args, "name")

\* In #[method] and #[stream] other keys are passed over too.
PlainAttr(args) == [name |-> LastString(args, "name"), item |-> None]

\* In #[subscription] and #[notification] the value of another key is not
\* consumed, and taken for the next key: an error.
ItemAttr(args) ==
  LET wrong == \E i \in DOMAIN args :
                 \/ args[i].key \notin {"name", "item"}
                 \/ args[i].key = "item" /\ args[i].value = NotAType
  IN [name |-> IF wrong THEN None ELSE LastString(args, "name"),
      item |-> LastString(args, "item")]

ParseAttr(kind, args) ==
  IF kind \in {"method", "stream"} THEN PlainAttr(args) ELSE ItemAttr(args)

\* parse_method_attr and the like: the first attribute with that path, 0 if none.
FirstAttr(attrs, kind) == SelectInSeq(attrs, LAMBDA a : a.path = kind)

\* The order in which from_item asks for them, and in which the server half
\* registers: all methods, then all subscriptions, and so on.
KindOrder == <<"method", "subscription", "notification", "stream">>

KindOf(f) ==
  LET at == SelectInSeq(KindOrder, LAMBDA kind : FirstAttr(f.attrs, kind) # 0)
  IN IF at = 0 THEN None ELSE KindOrder[at]

\* The attributes that are taken off a function of a kind; the ones left over
\* stay on the generated method, where nothing expands them.
Stripped(kind) ==
  IF kind = "notification" THEN {"method", "subscription", "notification"}
  ELSE IF kind = "stream" THEN {"method", "subscription", "notification", "stream"}
  ELSE {"method", "subscription"}
-----------------------------------------------------------------------------
(* Descriptions *)

\* extract_params: the receiver is left out, anything but a name is an error.
PlainParams(params) == \A i \in DOMAIN params : params[i] # "pattern"

Describable(f) ==
  /\ f.item = "fn"
  /\ KindOf(f) # None
  /\ ParseAttr(KindOf(f), f.attrs[FirstAttr(f.attrs, KindOf(f))].args).name # None
  /\ f.async
  /\ PlainParams(f.params)

Describe(f) ==
  LET kind == KindOf(f)
      attr == ParseAttr(kind, f.attrs[FirstAttr(f.attrs, kind)].args)
  IN [kind |-> kind, rpc_name |-> attr.name, ident |-> f.ident,
      receiver |-> f.receiver, params |-> f.params,
      left |-> {f.attrs[i].path : i \in DOMAIN f.attrs} \ Stripped(kind)]

\* from_item: a trait of describable functions only, and of one at least.
FromItem(trait) ==
  IF /\ ServiceName(trait.args) # None
     /\ trait.items # << >>
     /\ \A i \in DOMAIN trait.items : Describable(trait.items[i])
  THEN [accepted |-> TRUE, service_name |-> ServiceName(trait.args),
        functions |-> [i \in DOMAIN trait.items |-> Describe(trait.items[i])]]
  ELSE Rejected
-----------------------------------------------------------------------------
(* The generated code *)

CamelCase(ident) == SelectSeq(ident, LAMBDA word : word # NoWord)

\* generate_typed_name, without the trait's name that all of them begin with.
TypedNames(d) ==
  CASE d.kind = "subscription" -> {<<CamelCase(d.ident), s>> : s \in {"Sink", "Stream"}}
    [] d.kind = "notification" -> {<<CamelCase(d.ident), s>> : s \in {"Receiver", "Sender"}}
    [] OTHER -> {}

\* What the server's method takes between its receiver and its own parameters.
Injected(kind) ==
  CASE kind = "subscription" -> <<"ctx", "sink">>
    [] kind = "notification" -> <<"ctx", "receiver">>
    [] kind = "stream" -> <<"ctx", "send", "recv">>
    [] OTHER -> <<"ctx">>

\* Names the registration uses itself after it has decoded the parameters.
Reserved(kind) ==
  {"service"} \cup Range(Injected(kind)) \cup
  (CASE kind = "subscription" -> {"inner_sink", "raw_sink"}
     [] kind = "notification" -> {"inner_rx", "inner_tx", "sink"}
     [] OTHER -> {})

\* What the compiler still refuses of an accepted trait: a method without a
\* receiver, a parameter that gets in the way, an attribute that is left over,
\* and two items of one name.
Compiles(d) == d.receiver /\ Range(d.params) \cap Reserved(d.kind) = {} /\ d.left = {}

Expands(service) ==
  /\ service.accepted
  /\ \A i \in DOMAIN service.functions : Compiles(service.functions[i])
  /\ \A i, j \in DOMAIN service.functions : i # j =>
       /\ service.functions[i].ident # service.functions[j].ident
       /\ TypedNames(service.functions[i]) \cap TypedNames(service.functions[j]) = {}

\* render_register_service_body: kind by kind, and in each in the trait's order.
Rank(kind) == CHOOSE k \in DOMAIN KindOrder : KindOrder[k] = kind

RegisteredBefore(d, i, e, j) ==
  Rank(d.kind) < Rank(e.kind) \/ (d.kind = e.kind /\ i < j)

\* The resources of a service by name: rpc_resource() and the like insert them
\* one by one, each in the place of an earlier one of its name.
Resources(functions) ==
  [name \in {functions[i].rpc_name : i \in DOMAIN functions} |->
     LET named == {i \in DOMAIN functions : functions[i].rpc_name = name}
     IN functions[CHOOSE i \in named : \A j \in named \ {i} :
                    RegisteredBefore(functions[j], j, functions[i], i)]]
-----------------------------------------------------------------------------
(* Parameters on the wire *)

NoBytes == [json |-> "nothing", of |-> << >>]

\* generate_param_serialization: no bytes, the bare value, or a tuple.  The
\* values are opaque: none is a tuple itself.
Serialize(arguments) ==
  IF arguments = << >> THEN NoBytes
  ELSE [json |-> IF Len(arguments) = 1 THEN "value" ELSE "tuple", of |-> arguments]

\* The optional form that goes to subscribe(), notify() and open_stream(): an
\* Option is a sequence of at most one value.
SerializeOptional(arguments) ==
  IF arguments = << >> THEN << >> ELSE <<Serialize(arguments)>>

UnwrapOrDefault(option) == IF option = << >> THEN NoBytes ELSE Head(option)

\* generate_param_deserialization; without parameters the data is not looked at.
Decodes(params, data) ==
  CASE Len(params) = 0 -> TRUE
    [] Len(params) = 1 -> data.json = "value"
    [] OTHER -> data.json = "tuple" /\ Len(data.of) = Len(params)

Deserialize(params, data) == IF params = << >> THEN << >> ELSE data.of

\* The Body a stub sends, by RpcClient::call, subscribe, notify, open_stream.
BodyOf(kind, arguments) ==
  LET option == SerializeOptional(arguments) IN
  CASE kind = "method" -> [body |-> "Rpc", data |-> Serialize(arguments)]
    [] kind = "subscription" -> [body |-> IF option = << >> THEN "Subscribe" ELSE "Rpc",
                                 data |-> UnwrapOrDefault(option)]
    [] kind = "notification" -> [body |-> "Notify", data |-> UnwrapOrDefault(option)]
    [] kind = "stream" -> [body |-> "Stream", data |-> UnwrapOrDefault(option)]

\* Variant: a subscription is not expected to come with an Rpc body.
BodyData_NotRpc(kind, body) ==
  IF kind = "subscription" /\ body.body = "Rpc" THEN NoBytes ELSE body.data

\* What the registration of a kind takes out of a body: of one it does not
\* expect, nothing.
BodyData(kind, body) ==
  IF \/ kind \in {"method", "subscription"}
     \/ kind = "notification" /\ body.body \in {"Notify", "Rpc"}
     \/ kind = "stream" /\ body.body = "Stream"
  THEN body.data
  ELSE NoBytes

\* Only a method turns a request away by its body alone.
ExpectsBody(kind, body) == kind = "method" => body.body = "Rpc"
=============================================================================
